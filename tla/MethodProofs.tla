---------------------------- MODULE MethodProofs ----------------------------
(***************************************************************************)
(* Methods, when they are looked up and when they are parsed.              *)
(*                                                                         *)
(* Coherence of the method cache for every class hierarchy, cache size and *)
(* hash, and soundness of what a hit returns.  Coherence is about when an  *)
(* entry may be trusted, so its proof leaves the search Find unexpanded;   *)
(* soundness needs that the search ends with a method or with nothing, and *)
(* that a dictionary's keys are always those of the values it will have    *)
(* when the change under way is complete (DictInv).                        *)
(*                                                                         *)
(* The parser: where the encoder puts instructions the decoder finds them  *)
(* (CodePlaces).  Of a unit, only its outer instructions are parsed, those *)
(* in no block nested in it; control that starts at one of them meets none *)
(* but them (OuterCloses).  ParseInv says, phase by phase, that the blocks *)
(* begin at outer instructions and that every block left is complete; it   *)
(* is inductive (ParseStep) and, behind phase 3, it is BlocksExact.        *)
(***************************************************************************)
EXTENDS MethodCache, ParsedBytecode, SequenceTheorems, WellFoundedInduction, TLAPS

\* The addresses: objects are apart, and none is at the null pointer.
Apart ==
  /\ \A o, p \in Objects : loc[o] = loc[p] => o = p
  /\ \A o \in Objects : loc[o] # 0 /\ loc[o] \in Addresses

\* The cache is an array of entries, whatever they hold.
IsCache ==
  /\ cache = [i \in Lines |-> cache[i]]
  /\ \A i \in Lines : cache[i] = [methodName |-> cache[i].methodName,
                                  receiverClass |-> cache[i].receiverClass,
                                  method |-> cache[i].method]

Placed == active \in {1, 2} /\ \E l \in Placements(active) : loc = LocWith(l)

IInv == Placed /\ IsCache /\ CacheCoherent

\* Objects that are placed are apart.
LEMMA PlacedApart == Placed => Apart
<1> SUFFICES ASSUME Placed PROVE Apart OBVIOUS
<1>1. PICK l \in Placements(active) : loc = LocWith(l)
  BY DEF Placed
<1>2. Space(active) \subseteq SpaceOne \union SpaceTwo
  BY DEF Space
<1>3. l \in [Objects \ StaticObjects -> Space(active)]
  BY DEF Placements
<1>4. ASSUME NEW o \in Objects
      PROVE  loc[o] = IF o \in StaticObjects THEN StaticAddress[o] ELSE l[o]
  BY <1>1 DEF LocWith
<1>5. ASSUME NEW o \in Objects
      PROVE  /\ o \in StaticObjects => loc[o] \in StaticSpace
             /\ o \notin StaticObjects => loc[o] \in SpaceOne \union SpaceTwo
  BY <1>2, <1>3, <1>4 DEF StaticSpace
<1>6. ASSUME NEW o \in Objects PROVE loc[o] \in Addresses
  BY <1>5 DEF Addresses
<1>7. ASSUME NEW o \in Objects PROVE loc[o] # 0
  BY <1>6, MethodCacheAssumption
<1>8. ASSUME NEW o \in Objects, NEW p \in Objects, loc[o] = loc[p]
      PROVE  o = p
  <2>1. CASE o \in StaticObjects /\ p \in StaticObjects
    BY <1>4, <1>8, <2>1, MethodCacheAssumption
  <2>2. CASE o \notin StaticObjects /\ p \notin StaticObjects
    BY <1>4, <1>8, <2>2 DEF Placements
  <2>3. CASE (o \in StaticObjects) # (p \in StaticObjects)
    BY <1>5, <1>8, <2>3, MethodCacheAssumption
  <2>4. QED BY <2>1, <2>2, <2>3
<1>9. QED BY <1>6, <1>7, <1>8 DEF Apart

\* A collection leaves the dynamic objects placed in the other semispace.
LEMMA CollectionPlaces ==
  ASSUME Placed, collectGarbage
  PROVE  Placed'
<1>1. active' \in {1, 2} BY DEF Placed, collectGarbage
<1>2. QED BY <1>1 DEF Placed, collectGarbage, Placements, LocWith, Space

\* After a flush no entry answers: no selector is at address 0.
LEMMA FlushForgets ==
  ASSUME IsCache, Placed', flushMethodCache
  PROVE  /\ IsCache'
         /\ \A s \in Selectors, c \in Classes : ~IsHit(s, c)'
<1>1. \A i \in Lines : cache'[i] = [cache[i] EXCEPT !.methodName = 0]
  BY DEF flushMethodCache, Flushed
<1>2. \A i \in Lines : cache'[i].methodName = 0
  BY <1>1 DEF IsCache
<1>3. IsCache'
  BY <1>1 DEF IsCache, flushMethodCache, Flushed
<1>4. ASSUME NEW s \in Selectors, NEW c \in Classes PROVE ~IsHit(s, c)'
  <2>1. s \in Objects /\ c \in Objects BY DEF Objects
  <2>2. loc'[s] # 0 /\ loc'[s] \in Addresses /\ loc'[c] \in Addresses
    <3>1. Apart' BY PlacedApart, PTL
    <3>2. QED BY <2>1, <3>1 DEF Apart
  <2>3. Hash(loc'[s], loc'[c]) \in Lines BY <2>2, MethodCacheAssumption
  <2>4. QED BY <1>2, <2>2, <2>3 DEF IsHit, LineOf
<1>5. QED BY <1>3, <1>4

\* A step that leaves the program and the cache alone leaves coherence alone.
LEMMA NothingChanged ==
  ASSUME IInv, UNCHANGED <<dictionaries, loc, active, cache, dirty, stale>>
  PROVE  IInv'
<1>1. \A beyond, s, c : Find(beyond, s, c)' = Find(beyond, s, c)
  BY DEF Find, DictionaryFind, Has, dictionaries
<1>2. \A s, c : IsHit(s, c)' = IsHit(s, c) /\ Cached(s, c)' = Cached(s, c)
  BY DEF IsHit, Cached, LineOf
<1>3. CacheCoherent'
  BY <1>1, <1>2 DEF IInv, CacheCoherent
<1>4. QED
  BY <1>3 DEF IInv, Placed, IsCache, Placements, LocWith, Space

\* A miss that is cached answers for its own selector and class only.
LEMMA MissKeeps ==
  ASSUME IInv, NEW selector \in Selectors, NEW klass \in Classes, LookupMiss(selector, klass)
  PROVE  IInv'
<1>1. UNCHANGED <<dictionaries, loc, active, dirty, stale>>
  BY DEF LookupMiss
<1>2. PICK beyond \in Beyond :
        cache' = IF Find(beyond, selector, klass) = 0 THEN cache
                 ELSE updateMethodCache(selector, klass, Find(beyond, selector, klass))
  BY DEF LookupMiss
<1> DEFINE m == Find(beyond, selector, klass)
           new == [methodName |-> loc[selector], receiverClass |-> loc[klass], method |-> m]
<1> HIDE DEF m
<1>3. CASE m = 0
  <2>1. cache' = cache BY <1>2, <1>3 DEF m
  <2>2. QED BY <1>1, <2>1, NothingChanged
<1>4. CASE m # 0
  <2>1. cache' = [cache EXCEPT ![LineOf(selector, klass)] = new]
    BY <1>2, <1>4 DEF updateMethodCache, m, new
  <2>2. Apart BY PlacedApart DEF IInv
  <2>3. \A s \in Selectors, c \in Classes : LineOf(s, c) \in Lines
    BY <2>2, MethodCacheAssumption DEF Apart, LineOf, Objects
  <2>4. \A i \in Lines : cache'[i] = IF i = LineOf(selector, klass) THEN new ELSE cache[i]
    BY <2>1, <2>3 DEF IInv, IsCache
  <2>5. IsCache'
    BY <2>1, <2>3, <2>4 DEF IInv, IsCache, new
  <2>6. ASSUME ~dirty, ~stale, NEW s \in Selectors, NEW c \in Classes, IsHit(s, c)'
        PROVE  \E b \in Beyond : Cached(s, c)' = Find(b, s, c)
    <3>1. LineOf(s, c)' = LineOf(s, c) BY <1>1 DEF LineOf
    <3>2. CASE LineOf(s, c) = LineOf(selector, klass)
      <4>1. cache'[LineOf(s, c)] = new BY <2>3, <2>4, <3>2
      <4>2. loc[s] = loc[selector] /\ loc[c] = loc[klass]
        BY <1>1, <2>6, <3>1, <4>1 DEF IsHit, new
      <4>3. s = selector /\ c = klass
        BY <2>2, <4>2 DEF Apart, Objects
      <4>4. QED BY <3>1, <4>1, <4>3 DEF Cached, m, new
    <3>3. CASE LineOf(s, c) # LineOf(selector, klass)
      <4>1. cache'[LineOf(s, c)] = cache[LineOf(s, c)] BY <2>3, <2>4, <3>3
      <4>2. IsHit(s, c) BY <1>1, <2>6, <3>1, <4>1 DEF IsHit
      <4>3. QED BY <2>6, <3>1, <4>1, <4>2 DEF IInv, CacheCoherent, Cached
    <3>4. QED BY <3>2, <3>3
  <2>7. \A b, s, c : Find(b, s, c)' = Find(b, s, c)
    BY <1>1 DEF Find, DictionaryFind, Has, dictionaries
  <2>8. CacheCoherent'
    BY <1>1, <2>6, <2>7 DEF CacheCoherent
  <2>9. QED
    BY <1>1, <2>5, <2>8 DEF IInv, Placed, Placements, LocWith, Space
<1>5. QED BY <1>3, <1>4

\* The steps of a change of a dictionary.
DictionaryStep ==
  \/ \E m \in Methods : SetValue(MethodClass[m], m) \/ InsertKey(MethodClass[m], m)
  \/ \E c \in Classes, s \in Selectors : RemoveKey(c, s)
  \/ \E c \in Classes : StoreValues(c)

LEMMA DictionaryChanges == DictionaryStep => Changing
  BY Zenon DEF DictionaryStep, SetValue, InsertKey, RemoveKey, StoreValues

\* Every step keeps the invariant.
LEMMA StepKeeps ==
  ASSUME IInv, [Next]_vars
  PROVE  IInv'
<1>1. ASSUME NEW s \in Selectors, NEW c \in Classes, LookupHit(s, c)  PROVE UNCHANGED vars
  BY <1>1 DEF LookupHit
<1>2. ASSUME NEW s \in Selectors, NEW c \in Classes, LookupMiss(s, c)  PROVE IInv'
  BY <1>2, MissKeeps
<1>3. CASE DictionaryStep
  <2>1. dirty' = TRUE /\ UNCHANGED <<loc, active, cache, stale>>
    BY <1>3, DictionaryChanges DEF Changing
  <2>2. CacheCoherent' BY <2>1 DEF CacheCoherent
  <2>3. QED BY <2>1, <2>2 DEF IInv, Placed, IsCache, Placements, LocWith, Space
<1>4. CASE FlushCache
  <2>1. flushMethodCache /\ UNCHANGED <<loc, active>> BY <1>4 DEF FlushCache
  <2>2. Placed' BY <2>1 DEF IInv, Placed, Placements, LocWith, Space
  <2>3. QED BY <2>1, <2>2, FlushForgets DEF IInv, CacheCoherent
<1>5. CASE AllocateCollects
  <2>1. collectGarbage /\ flushMethodCache BY <1>5 DEF AllocateCollects
  <2>2. Placed' BY <2>1, CollectionPlaces DEF IInv
  <2>3. QED BY <2>1, <2>2, FlushForgets DEF IInv, CacheCoherent
<1>6. CASE AllocateFails \/ ForceCollection
  <2>1. collectGarbage /\ stale' = TRUE /\ UNCHANGED <<cache, dirty>>
    BY <1>6 DEF AllocateFails, ForceCollection
  <2>2. Placed' BY <2>1, CollectionPlaces DEF IInv
  <2>3. QED BY <2>1, <2>2 DEF IInv, IsCache, CacheCoherent
<1>7. CASE UNCHANGED vars
  BY <1>7, NothingChanged DEF vars
<1>8. QED
  BY <1>1, <1>2, <1>3, <1>4, <1>5, <1>6, <1>7, Zenon DEF Next, DictionaryStep

(***************************************************************************)
(* For every class hierarchy, number of lines and hash: a hit of           *)
(* lookupMethodInCache() is what the full search of lookupMethod() would   *)
(* return now, as long as every dictionary change and every collection was *)
(* followed by a flush, whatever the search met while a dictionary was     *)
(* half changed.  The argument needs that objects are apart: two           *)
(* selectors that share a line are told apart by their addresses.          *)
(***************************************************************************)
THEOREM CacheCoherence == Spec => []CacheCoherent
<1>1. Init => IInv
  <2> SUFFICES ASSUME Init PROVE IInv OBVIOUS
  <2>1. Placed BY DEF Init, Placed
  <2>2. IsCache BY DEF Init, IsCache, EmptyEntry
  <2>3. Apart BY <2>1, PlacedApart
  <2>4. ASSUME NEW s \in Selectors, NEW c \in Classes PROVE ~IsHit(s, c)
    <3>1. loc[s] # 0 /\ LineOf(s, c) \in Lines
      BY <2>3, MethodCacheAssumption DEF Apart, Objects, LineOf
    <3>2. QED BY <3>1 DEF Init, IsHit, EmptyEntry
  <2>5. QED BY <2>1, <2>2, <2>4 DEF IInv, CacheCoherent
<1>2. IInv /\ [Next]_vars => IInv'
  BY StepKeeps
<1>3. IInv => CacheCoherent
  BY DEF IInv
<1>4. QED
  BY <1>1, <1>2, <1>3, PTL DEF Spec

-----------------------------------------------------------------------------
(***************************************************************************)
(* The search of lookupMethod().                                           *)
(***************************************************************************)
\* Its equation: a class answers itself or asks its superclass.
Answers(f, beyond, selector) ==
  [c \in Classes |->
     IF DictionaryFind(beyond, c, selector) # 0 THEN DictionaryFind(beyond, c, selector)
     ELSE IF parentClass[c] = Nil THEN 0
     ELSE f[parentClass[c]]]

\* The equation has a solution: the answer of the one class with a method on
\* the path the search takes from c, the smallest set that holds c and the
\* superclass of every class in it that has no method.
LEMMA SearchExists ==
  ASSUME NEW beyond \in Beyond, NEW selector \in Selectors
  PROVE  \E f : f = Answers(f, beyond, selector)
<1> DEFINE Read(c) == DictionaryFind(beyond, c, selector)
           Knows(c) == Read(c) # 0
           Onward(S) == \A c \in S : ~Knows(c) /\ parentClass[c] # Nil => parentClass[c] \in S
           Path(c) == {d \in Classes : \A S \in SUBSET Classes : c \in S /\ Onward(S) => d \in S}
           Ends(c) == {d \in Path(c) : Knows(d)}
           Answer(E) == IF E = {} THEN 0 ELSE Read(CHOOSE d \in E : TRUE)
           f == [c \in Classes |-> Answer(Ends(c))]
<1> HIDE DEF Read
<1>1. ASSUME NEW c \in Classes, Knows(c)
      PROVE  Answer(Ends(c)) = Read(c)
  <2>1. {c} \in SUBSET Classes /\ c \in {c} /\ Onward({c})
    BY <1>1
  <2>2. Path(c) \subseteq {c}
    BY <2>1
  <2>3. c \in Path(c)
    OBVIOUS
  <2>4. Ends(c) = {c}
    BY <1>1, <2>2, <2>3
  <2> HIDE DEF Ends, Path
  <2>5. (CHOOSE d \in {c} : TRUE) = c
    OBVIOUS
  <2>6. QED BY <2>4, <2>5
<1>2. ASSUME NEW c \in Classes, ~Knows(c), parentClass[c] = Nil
      PROVE  Answer(Ends(c)) = 0
  <2>1. {c} \in SUBSET Classes /\ c \in {c} /\ Onward({c})
    BY <1>2
  <2>2. Path(c) \subseteq {c}
    BY <2>1
  <2>3. Ends(c) = {}
    BY <1>2, <2>2
  <2>4. QED BY <2>3
<1>3. ASSUME NEW c \in Classes, ~Knows(c), parentClass[c] # Nil
      PROVE  Answer(Ends(c)) = Answer(Ends(parentClass[c]))
  <2> DEFINE p == parentClass[c]
  <2>1. p \in Classes
    BY <1>3, MethodCacheAssumption
  <2>2. ASSUME NEW d \in Path(p) PROVE d \in Path(c)
    BY <1>3, <2>1, <2>2
  <2>3. ASSUME NEW d \in Path(c), d # c PROVE d \in Path(p)
    <3>1. SUFFICES ASSUME NEW S \in SUBSET Classes, p \in S, Onward(S)
                   PROVE  d \in S
      OBVIOUS
    <3>2. c \in S \union {c} /\ Onward(S \union {c}) /\ S \union {c} \in SUBSET Classes
      BY <3>1
    <3>3. d \in S \union {c}
      BY <3>2
    <3>4. QED BY <2>3, <3>3
  <2>4. Ends(c) = Ends(p)
    BY <1>3, <2>2, <2>3
  <2> HIDE DEF Ends, Answer
  <2>5. QED BY <2>4
<1>4. f = Answers(f, beyond, selector)
  <2>1. ASSUME NEW c \in Classes
        PROVE  Answer(Ends(c)) = IF Knows(c) THEN Read(c)
                                 ELSE IF parentClass[c] = Nil THEN 0
                                 ELSE Answer(Ends(parentClass[c]))
    BY <1>1, <1>2, <1>3, ZenonT(40)
  <2>2. \A c \in Classes : parentClass[c] # Nil => parentClass[c] \in Classes
    BY MethodCacheAssumption
  <2> HIDE DEF Ends, Answer
  <2>3. QED BY <2>1, <2>2 DEF Answers, Read
<1>5. QED BY <1>4

\* The search ends with what some dictionary on the way answered, or with 0.
LEMMA FindResult ==
  ASSUME NEW beyond \in Beyond, NEW selector \in Selectors, NEW klass \in Classes,
         NEW S, \A c \in Classes : DictionaryFind(beyond, c, selector) \in S \union {0}
  PROVE  Find(beyond, selector, klass) \in S \union {0}
<1> DEFINE search == CHOOSE f : f = Answers(f, beyond, selector)
<1>1. search = Answers(search, beyond, selector)
  BY SearchExists
<1>2. Find(beyond, selector, klass) = search[klass]
  BY DEF Find, Answers
<1> HIDE DEF search
<1>3. ASSUME NEW c \in Classes
      PROVE  \/ search[c] \in S \union {0}
             \/ parentClass[c] # Nil /\ search[c] = search[parentClass[c]]
  BY <1>1 DEF Answers
<1> DEFINE T == {c \in Classes : search[c] \notin S \union {0}}
<1>4. T = {}
  <2>1. SUFFICES ASSUME T # {} PROVE FALSE
    OBVIOUS
  <2>2. PICK c \in T : parentClass[c] \notin T
    BY <2>1, MethodCacheAssumption
  <2>3. parentClass[c] \in Classes
    BY <1>3, <2>2, MethodCacheAssumption
  <2>4. QED BY <1>3, <2>2, <2>3
<1>5. QED BY <1>2, <1>4

-----------------------------------------------------------------------------
(***************************************************************************)
(* The two arrays of a dictionary.                                         *)
(***************************************************************************)
LEMMA Inserted ==
  ASSUME NEW S, NEW s \in Seq(S), NEW e \in S, NEW p \in 1 .. Len(s) + 1
  PROVE  /\ InsertAt(s, p, e) \in Seq(S)
         /\ Len(InsertAt(s, p, e)) = Len(s) + 1
         /\ \A i \in 1 .. Len(s) + 1 :
              InsertAt(s, p, e)[i] = IF i < p THEN s[i] ELSE IF i = p THEN e ELSE s[i - 1]
<1> DEFINE a == SubSeq(s, 1, p - 1)
           b == SubSeq(s, p, Len(s))
<1>1. a \in Seq(S) /\ Len(a) = p - 1 /\ \A i \in 1 .. p - 1 : a[i] = s[i]
  OBVIOUS
<1>2. b \in Seq(S) /\ Len(b) = Len(s) + 1 - p /\ \A i \in 1 .. Len(s) + 1 - p : b[i] = s[i + p - 1]
  OBVIOUS
<1>3. <<e>> \in Seq(S) /\ Len(<<e>>) = 1 /\ <<e>>[1] = e
  OBVIOUS
<1> HIDE DEF a, b
<1> DEFINE ae == a \o <<e>>
<1>4. ae \in Seq(S) /\ Len(ae) = p /\ \A i \in 1 .. p : ae[i] = IF i < p THEN s[i] ELSE e
  BY <1>1, <1>3
<1> HIDE DEF ae
<1>5. (ae \o b) \in Seq(S) /\ Len(ae \o b) = Len(s) + 1
      /\ \A i \in 1 .. Len(s) + 1 : (ae \o b)[i] = IF i <= p THEN ae[i] ELSE b[i - p]
  <2>1. (ae \o b) \in Seq(S) /\ Len(ae \o b) = Len(ae) + Len(b)
        /\ \A i \in 1 .. Len(ae) + Len(b) : (ae \o b)[i] = IF i <= Len(ae) THEN ae[i] ELSE b[i - Len(ae)]
    BY <1>2, <1>4, ConcatProperties
  <2>2. Len(ae) = p /\ Len(ae) + Len(b) = Len(s) + 1
    BY <1>2, <1>4
  <2>3. QED BY <2>1, <2>2, Zenon
<1>6. InsertAt(s, p, e) = ae \o b
  BY DEF InsertAt, ae, a, b
<1>7. ASSUME NEW i \in 1 .. Len(s) + 1
      PROVE  (ae \o b)[i] = IF i < p THEN s[i] ELSE IF i = p THEN e ELSE s[i - 1]
  <2>1. CASE i <= p
    BY <1>4, <1>5, <2>1
  <2>2. CASE i > p
    <3>1. i - p \in 1 .. Len(s) + 1 - p /\ (i - p) + p - 1 = i - 1
      BY <2>2
    <3>2. b[i - p] = s[i - 1]
      BY <1>2, <3>1
    <3>3. QED BY <1>5, <2>2, <3>2
  <2>3. i <= p \/ i > p
    OBVIOUS
  <2>4. QED BY <2>1, <2>2, <2>3, Zenon
<1>8. QED BY <1>5, <1>6, <1>7

LEMMA Removed ==
  ASSUME NEW S, NEW s \in Seq(S), NEW p \in 1 .. Len(s)
  PROVE  /\ RemoveAt(s, p) \in Seq(S)
         /\ Len(RemoveAt(s, p)) = Len(s) - 1
         /\ \A i \in 1 .. Len(s) - 1 : RemoveAt(s, p)[i] = IF i < p THEN s[i] ELSE s[i + 1]
<1> DEFINE a == SubSeq(s, 1, p - 1)
           b == SubSeq(s, p + 1, Len(s))
<1>1. a \in Seq(S) /\ Len(a) = p - 1 /\ \A i \in 1 .. p - 1 : a[i] = s[i]
  OBVIOUS
<1>2. b \in Seq(S) /\ Len(b) = Len(s) - p /\ \A i \in 1 .. Len(s) - p : b[i] = s[i + p]
  OBVIOUS
<1>3. RemoveAt(s, p) = a \o b
  BY DEF RemoveAt
<1> HIDE DEF a, b
<1>4. (a \o b) \in Seq(S) /\ Len(a \o b) = Len(s) - 1
      /\ \A i \in 1 .. Len(s) - 1 : (a \o b)[i] = IF i <= p - 1 THEN a[i] ELSE b[i - (p - 1)]
  <2>1. (a \o b) \in Seq(S) /\ Len(a \o b) = Len(a) + Len(b)
        /\ \A i \in 1 .. Len(a) + Len(b) : (a \o b)[i] = IF i <= Len(a) THEN a[i] ELSE b[i - Len(a)]
    BY <1>1, <1>2, ConcatProperties
  <2>2. Len(a) = p - 1 /\ Len(a) + Len(b) = Len(s) - 1
    BY <1>1, <1>2
  <2>3. QED BY <2>1, <2>2, Zenon
<1>5. ASSUME NEW i \in 1 .. Len(s) - 1
      PROVE  (a \o b)[i] = IF i < p THEN s[i] ELSE s[i + 1]
  <2>1. CASE i < p
    BY <1>1, <1>4, <2>1
  <2>2. CASE i >= p
    <3>1. i - (p - 1) \in 1 .. Len(s) - p /\ (i - (p - 1)) + p = i + 1
      BY <2>2
    <3>2. b[i - (p - 1)] = s[i + 1]
      BY <1>2, <3>1
    <3>3. QED BY <1>4, <2>2, <3>2
  <2>3. i < p \/ i >= p
    OBVIOUS
  <2>4. QED BY <2>1, <2>2, <2>3, Zenon
<1>6. QED BY <1>3, <1>4, <1>5

LEMMA Names ==
  ASSUME NEW v \in Seq(Methods)
  PROVE  /\ NamesOf(v) \in Seq(Selectors)
         /\ Len(NamesOf(v)) = Len(v)
         /\ \A i \in 1 .. Len(v) : NamesOf(v)[i] = MethodName[v[i]]
<1>1. DOMAIN v = 1 .. Len(v) /\ \A i \in 1 .. Len(v) : v[i] \in Methods
  OBVIOUS
<1>2. NamesOf(v) = [i \in 1 .. Len(v) |-> MethodName[v[i]]]
  BY <1>1 DEF NamesOf
<1>3. \A i \in 1 .. Len(v) : MethodName[v[i]] \in Selectors
  BY <1>1, MethodCacheAssumption
<1>4. Len(v) \in Nat
  OBVIOUS
<1>5. QED BY <1>2, <1>3, <1>4

\* Two sequences of the same length with the same elements.
LEMMA SameSequence ==
  ASSUME NEW S, NEW s \in Seq(S), NEW t \in Seq(S), Len(s) = Len(t),
         \A i \in 1 .. Len(s) : s[i] = t[i]
  PROVE  s = t
  OBVIOUS

\* A key and a value that go to the same place belong together there.
LEMMA InsertPairs ==
  ASSUME NEW v \in Seq(Methods), NEW m \in Methods, NEW p \in 1 .. Len(v) + 1
  PROVE  InsertAt(NamesOf(v), p, MethodName[m]) = NamesOf(InsertAt(v, p, m))
<1> DEFINE s == InsertAt(NamesOf(v), p, MethodName[m])
           w == InsertAt(v, p, m)
           t == NamesOf(w)
<1>1. MethodName[m] \in Selectors
  BY MethodCacheAssumption
<1>2. NamesOf(v) \in Seq(Selectors) /\ Len(NamesOf(v)) = Len(v)
      /\ \A i \in 1 .. Len(v) : NamesOf(v)[i] = MethodName[v[i]]
  BY Names
<1>3. s \in Seq(Selectors) /\ Len(s) = Len(v) + 1
      /\ \A i \in 1 .. Len(v) + 1 :
           s[i] = IF i < p THEN NamesOf(v)[i] ELSE IF i = p THEN MethodName[m] ELSE NamesOf(v)[i - 1]
  <2>1. ASSUME NEW n \in Seq(Selectors), NEW q \in 1 .. Len(n) + 1
        PROVE  /\ InsertAt(n, q, MethodName[m]) \in Seq(Selectors)
               /\ Len(InsertAt(n, q, MethodName[m])) = Len(n) + 1
               /\ \A i \in 1 .. Len(n) + 1 :
                    InsertAt(n, q, MethodName[m])[i] =
                      IF i < q THEN n[i] ELSE IF i = q THEN MethodName[m] ELSE n[i - 1]
    BY <1>1, Inserted, SMTT(20)
  <2>2. p \in 1 .. Len(NamesOf(v)) + 1
    BY <1>2
  <2> HIDE DEF s
  <2>3. QED BY <1>2, <2>1, <2>2 DEF s
<1>4. w \in Seq(Methods) /\ Len(w) = Len(v) + 1
      /\ \A i \in 1 .. Len(v) + 1 : w[i] = IF i < p THEN v[i] ELSE IF i = p THEN m ELSE v[i - 1]
  <2>1. /\ InsertAt(v, p, m) \in Seq(Methods)
        /\ Len(InsertAt(v, p, m)) = Len(v) + 1
        /\ \A i \in 1 .. Len(v) + 1 :
             InsertAt(v, p, m)[i] = IF i < p THEN v[i] ELSE IF i = p THEN m ELSE v[i - 1]
    BY Inserted
  <2>2. QED BY <2>1
<1>5. t \in Seq(Selectors) /\ Len(t) = Len(w) /\ \A i \in 1 .. Len(w) : t[i] = MethodName[w[i]]
  BY <1>4, Names
<1> HIDE DEF s, t, w
<1>6. ASSUME NEW i \in 1 .. Len(v) + 1 PROVE s[i] = t[i]
  <2>1. i < p => i \in 1 .. Len(v)
    OBVIOUS
  <2>2. i > p => i - 1 \in 1 .. Len(v)
    OBVIOUS
  <2>3. i \in Int /\ p \in Int
    OBVIOUS
  <2>4. s[i] = IF i < p THEN MethodName[v[i]] ELSE IF i = p THEN MethodName[m] ELSE MethodName[v[i - 1]]
    <3>1. s[i] = IF i < p THEN NamesOf(v)[i] ELSE IF i = p THEN MethodName[m] ELSE NamesOf(v)[i - 1]
      BY <1>3
    <3>2. CASE i < p
      BY <1>2, <2>1, <3>1, <3>2
    <3>3. CASE i = p
      BY <3>1, <3>3
    <3>4. CASE i > p
      BY <1>2, <2>2, <2>3, <3>1, <3>4
    <3>5. i < p \/ i = p \/ i > p
      BY <2>3
    <3>6. QED BY <3>2, <3>3, <3>4, <3>5, Zenon
  <2>5. t[i] = MethodName[w[i]]
    BY <1>4, <1>5
  <2>6. QED BY <1>4, <2>4, <2>5
<1>7. QED BY <1>3, <1>4, <1>5, <1>6, SameSequence DEF s, t, w

LEMMA RemovePairs ==
  ASSUME NEW v \in Seq(Methods), NEW p \in 1 .. Len(v)
  PROVE  RemoveAt(NamesOf(v), p) = NamesOf(RemoveAt(v, p))
<1> DEFINE s == RemoveAt(NamesOf(v), p)
           w == RemoveAt(v, p)
           t == NamesOf(w)
<1>1. NamesOf(v) \in Seq(Selectors) /\ Len(NamesOf(v)) = Len(v)
      /\ \A i \in 1 .. Len(v) : NamesOf(v)[i] = MethodName[v[i]]
  BY Names
<1>2. s \in Seq(Selectors) /\ Len(s) = Len(v) - 1
      /\ \A i \in 1 .. Len(v) - 1 : s[i] = IF i < p THEN NamesOf(v)[i] ELSE NamesOf(v)[i + 1]
  <2> DEFINE n == NamesOf(v)
  <2>1. n \in Seq(Selectors) /\ Len(n) = Len(v) /\ p \in 1 .. Len(n)
    BY <1>1
  <2> HIDE DEF n
  <2>2. /\ RemoveAt(n, p) \in Seq(Selectors)
        /\ Len(RemoveAt(n, p)) = Len(n) - 1
        /\ \A i \in 1 .. Len(n) - 1 : RemoveAt(n, p)[i] = IF i < p THEN n[i] ELSE n[i + 1]
    BY <2>1, Removed
  <2>3. QED BY <2>1, <2>2 DEF n
<1>3. w \in Seq(Methods) /\ Len(w) = Len(v) - 1
      /\ \A i \in 1 .. Len(v) - 1 : w[i] = IF i < p THEN v[i] ELSE v[i + 1]
  BY Removed
<1>4. t \in Seq(Selectors) /\ Len(t) = Len(w) /\ \A i \in 1 .. Len(w) : t[i] = MethodName[w[i]]
  BY <1>3, Names
<1> HIDE DEF s, t, w
<1>5. ASSUME NEW i \in 1 .. Len(v) - 1 PROVE s[i] = t[i]
  <2>1. i \in 1 .. Len(v) /\ i + 1 \in 1 .. Len(v)
    OBVIOUS
  <2>2. i \in Int /\ p \in Int
    OBVIOUS
  <2>3. s[i] = IF i < p THEN MethodName[v[i]] ELSE MethodName[v[i + 1]]
    BY <1>1, <1>2, <2>1, <2>2
  <2>4. t[i] = MethodName[w[i]]
    BY <1>3, <1>4
  <2>5. QED BY <1>3, <2>3, <2>4
<1>6. QED BY <1>2, <1>3, <1>4, <1>5, SameSequence DEF s, t, w


-----------------------------------------------------------------------------
(***************************************************************************)
(* The invariant of the dictionaries: the keys are those of the values as  *)
(* they will be when the change under way is complete.                     *)
(***************************************************************************)
Complete(v, x) ==
  IF x = NoChange THEN v
  ELSE IF x.method = Nil THEN RemoveAt(v, x.position)
  ELSE InsertAt(v, x.position, x.method)

InRange(v, x) ==
  x # NoChange => x.position \in 1 .. IF x.method = Nil THEN Len(v) ELSE Len(v) + 1

Matched(k, v, x) == k = NamesOf(Complete(v, x)) /\ InRange(v, x)

DictionaryTypes ==
  /\ keys \in [Classes -> Seq(Selectors)]
  /\ values \in [Classes -> Seq(Methods)]
  /\ change \in [Classes -> Changes]

DictInv == DictionaryTypes /\ \A c \in Classes : Matched(keys[c], values[c], change[c])

\* A value in place of another with the same key.
LEMMA ReplacePairs ==
  ASSUME NEW v \in Seq(Methods), NEW m \in Methods, NEW p \in DOMAIN NamesOf(v),
         NamesOf(v)[p] = MethodName[m]
  PROVE  /\ [v EXCEPT ![p] = m] \in Seq(Methods)
         /\ NamesOf([v EXCEPT ![p] = m]) = NamesOf(v)
<1> DEFINE w == [v EXCEPT ![p] = m]
<1>1. DOMAIN NamesOf(v) = DOMAIN v /\ DOMAIN v = 1 .. Len(v)
  BY DEF NamesOf
<1>2. w \in Seq(Methods) /\ DOMAIN w = DOMAIN v
      /\ \A i \in DOMAIN v : w[i] = IF i = p THEN m ELSE v[i]
  BY <1>1
<1>3. \A i \in DOMAIN v : NamesOf(v)[i] = MethodName[v[i]]
  BY DEF NamesOf
<1> HIDE DEF w
<1>4. ASSUME NEW i \in DOMAIN v PROVE MethodName[w[i]] = MethodName[v[i]]
  BY <1>1, <1>2, <1>3
<1>5. NamesOf(w) = NamesOf(v)
  BY <1>2, <1>4 DEF NamesOf
<1>6. QED BY <1>2, <1>5 DEF w

\* A dictionary may be changed, and its changed half completed.
LEMMA StartsMatched ==
  ASSUME NEW k, NEW v \in Seq(Methods), Matched(k, v, NoChange)
  PROVE  /\ k = NamesOf(v) /\ k \in Seq(Selectors) /\ Len(k) = Len(v)
         /\ \A m \in Methods, p \in 1 .. Len(k) + 1 :
              /\ Matched(InsertAt(k, p, MethodName[m]), v, [position |-> p, method |-> m])
              /\ InsertAt(k, p, MethodName[m]) \in Seq(Selectors)
         /\ \A p \in 1 .. Len(k) :
              /\ Matched(RemoveAt(k, p), v, [position |-> p, method |-> Nil])
              /\ RemoveAt(k, p) \in Seq(Selectors)
<1>1. k = NamesOf(v)
  BY DEF Matched, Complete
<1>2. k \in Seq(Selectors) /\ Len(k) = Len(v)
  BY <1>1, Names
<1>3. ASSUME NEW m \in Methods, NEW p \in 1 .. Len(k) + 1
      PROVE  /\ Matched(InsertAt(k, p, MethodName[m]), v, [position |-> p, method |-> m])
             /\ InsertAt(k, p, MethodName[m]) \in Seq(Selectors)
  <2> DEFINE x == [position |-> p, method |-> m]
  <2>1. x # NoChange /\ x.method # Nil /\ x.method = m /\ x.position = p
    BY MethodCacheAssumption DEF NoChange, Objects
  <2> HIDE DEF x
  <2>2. p \in 1 .. Len(v) + 1
    BY <1>2, <1>3
  <2>3. InsertAt(k, p, MethodName[m]) = NamesOf(InsertAt(v, p, m))
    BY <1>1, <2>2, InsertPairs
  <2>4. InsertAt(v, p, m) \in Seq(Methods)
    BY <2>2, Inserted
  <2>5. InsertAt(k, p, MethodName[m]) \in Seq(Selectors)
    BY <2>3, <2>4, Names
  <2>6. Matched(InsertAt(k, p, MethodName[m]), v, x)
    BY <2>1, <2>2, <2>3 DEF Matched, Complete, InRange
  <2>7. QED BY <2>5, <2>6 DEF x
<1>4. ASSUME NEW p \in 1 .. Len(k)
      PROVE  /\ Matched(RemoveAt(k, p), v, [position |-> p, method |-> Nil])
             /\ RemoveAt(k, p) \in Seq(Selectors)
  <2> DEFINE x == [position |-> p, method |-> Nil]
  <2>1. x # NoChange /\ x.method = Nil /\ x.position = p
    BY DEF NoChange
  <2> HIDE DEF x
  <2>2. p \in 1 .. Len(v)
    BY <1>2, <1>4
  <2>3. RemoveAt(k, p) = NamesOf(RemoveAt(v, p))
    BY <1>1, <2>2, RemovePairs
  <2>4. RemoveAt(v, p) \in Seq(Methods)
    BY <2>2, Removed
  <2>5. RemoveAt(k, p) \in Seq(Selectors)
    BY <2>3, <2>4, Names
  <2>6. Matched(RemoveAt(k, p), v, x)
    BY <2>1, <2>2, <2>3 DEF Matched, Complete, InRange
  <2>7. QED BY <2>5, <2>6 DEF x
<1>5. QED BY <1>1, <1>2, <1>3, <1>4

LEMMA EndsMatched ==
  ASSUME NEW k, NEW v \in Seq(Methods), NEW x \in Changes, Matched(k, v, x)
  PROVE  Complete(v, x) \in Seq(Methods) /\ Matched(k, Complete(v, x), NoChange)
<1>1. Complete(v, x) \in Seq(Methods)
  <2>1. CASE x = NoChange
    BY <2>1 DEF Complete
  <2>2. CASE x # NoChange /\ x.method = Nil
    <3>1. x.position \in 1 .. Len(v)
      BY <2>2 DEF Matched, InRange
    <3>2. RemoveAt(v, x.position) \in Seq(Methods)
      BY <3>1, Removed
    <3>3. QED BY <2>2, <3>2 DEF Complete
  <2>3. CASE x # NoChange /\ x.method # Nil
    <3>1. x.position \in 1 .. Len(v) + 1 /\ x.method \in Methods
      BY <2>3 DEF Matched, InRange, Changes
    <3>2. InsertAt(v, x.position, x.method) \in Seq(Methods)
      BY <3>1, Inserted
    <3>3. QED BY <2>3, <3>2 DEF Complete
  <2>4. QED BY <2>1, <2>2, <2>3
<1>2. Complete(Complete(v, x), NoChange) = Complete(v, x) /\ InRange(Complete(v, x), NoChange)
  BY DEF Complete, InRange
<1>3. QED BY <1>1, <1>2 DEF Matched

\* Every step of a change leaves the dictionaries so.
LEMMA DictionaryKeeps ==
  ASSUME DictInv, DictionaryStep
  PROVE  DictInv'
<1>1. \A c \in Classes : /\ Matched(keys[c], values[c], change[c])
                         /\ values[c] \in Seq(Methods) /\ change[c] \in Changes
  BY DEF DictInv, DictionaryTypes
<1>2. ASSUME NEW c \in Classes, NEW m \in Methods, SetValue(c, m)
      PROVE  DictInv'
  <2>1. PICK p \in DOMAIN keys[c] :
          /\ keys[c][p] = MethodName[m]
          /\ values' = [values EXCEPT ![c] = [values[c] EXCEPT ![p] = m]]
    BY <1>2 DEF SetValue
  <2>2. change[c] = NoChange /\ keys' = keys /\ change' = change
    BY <1>2 DEF SetValue
  <2>3. keys[c] = NamesOf(values[c])
    BY <1>1, <2>2 DEF Matched, Complete
  <2> DEFINE w == [values[c] EXCEPT ![p] = m]
  <2>4. w \in Seq(Methods) /\ NamesOf(w) = NamesOf(values[c])
    BY <1>1, <2>1, <2>3, ReplacePairs
  <2>5. values' = [values EXCEPT ![c] = w]
    BY <2>1
  <2> HIDE DEF w
  <2>6. Matched(keys[c], w, NoChange)
    BY <2>3, <2>4 DEF Matched, Complete, InRange
  <2>7. DictionaryTypes'
    BY <2>2, <2>4, <2>5 DEF DictInv, DictionaryTypes
  <2>8. \A d \in Classes : values'[d] = IF d = c THEN w ELSE values[d]
    BY <2>5 DEF DictInv, DictionaryTypes
  <2>9. ASSUME NEW d \in Classes PROVE Matched(keys'[d], values'[d], change'[d])
    <3>1. CASE d = c BY <2>2, <2>6, <2>8, <3>1
    <3>2. CASE d # c BY <1>1, <2>2, <2>8, <3>2
    <3>3. QED BY <3>1, <3>2
  <2>10. QED BY <2>7, <2>9 DEF DictInv
<1>3. ASSUME NEW c \in Classes, NEW k \in Seq(Selectors), NEW x \in Changes,
             keys' = [keys EXCEPT ![c] = k], change' = [change EXCEPT ![c] = x],
             values' = values, Matched(k, values[c], x)
      PROVE  DictInv'
  <2>1. DictionaryTypes'
    BY <1>3 DEF DictInv, DictionaryTypes
  <2>2. \A d \in Classes : /\ keys'[d] = IF d = c THEN k ELSE keys[d]
                           /\ change'[d] = IF d = c THEN x ELSE change[d]
    BY <1>3 DEF DictInv, DictionaryTypes
  <2>3. ASSUME NEW d \in Classes PROVE Matched(keys'[d], values'[d], change'[d])
    <3>1. CASE d = c BY <1>3, <2>2, <3>1
    <3>2. CASE d # c BY <1>1, <1>3, <2>2, <3>2
    <3>3. QED BY <3>1, <3>2
  <2>4. QED BY <2>1, <2>3 DEF DictInv
<1>4. ASSUME NEW c \in Classes, NEW m \in Methods, InsertKey(c, m)
      PROVE  DictInv'
  <2>1. PICK p \in 1 .. Len(keys[c]) + 1 :
          /\ keys' = [keys EXCEPT ![c] = InsertAt(keys[c], p, MethodName[m])]
          /\ change' = [change EXCEPT ![c] = [position |-> p, method |-> m]]
    BY <1>4 DEF InsertKey
  <2>2. change[c] = NoChange /\ values' = values
    BY <1>4 DEF InsertKey
  <2>3. Matched(keys[c], values[c], NoChange)
    BY <1>1, <2>2
  <2>4. /\ Matched(InsertAt(keys[c], p, MethodName[m]), values[c], [position |-> p, method |-> m])
        /\ InsertAt(keys[c], p, MethodName[m]) \in Seq(Selectors)
    BY <1>1, <2>3, StartsMatched
  <2>5. [position |-> p, method |-> m] \in Changes
    BY <2>1 DEF Changes, DictInv, DictionaryTypes
  <2>6. QED BY <1>3, <2>1, <2>2, <2>4, <2>5
<1>5. ASSUME NEW c \in Classes, NEW s \in Selectors, RemoveKey(c, s)
      PROVE  DictInv'
  <2>1. PICK p \in DOMAIN keys[c] :
          /\ keys' = [keys EXCEPT ![c] = RemoveAt(keys[c], p)]
          /\ change' = [change EXCEPT ![c] = [position |-> p, method |-> Nil]]
    BY <1>5 DEF RemoveKey
  <2>2. change[c] = NoChange /\ values' = values
    BY <1>5 DEF RemoveKey
  <2>3. Matched(keys[c], values[c], NoChange)
    BY <1>1, <2>2
  <2>4. p \in 1 .. Len(keys[c])
    BY <2>1 DEF DictInv, DictionaryTypes
  <2>5. /\ Matched(RemoveAt(keys[c], p), values[c], [position |-> p, method |-> Nil])
        /\ RemoveAt(keys[c], p) \in Seq(Selectors)
    BY <1>1, <2>3, <2>4, StartsMatched
  <2>6. [position |-> p, method |-> Nil] \in Changes
    BY <2>4 DEF Changes
  <2>7. QED BY <1>3, <2>1, <2>2, <2>5, <2>6
<1>6. ASSUME NEW c \in Classes, StoreValues(c)
      PROVE  DictInv'
  <2> DEFINE w == Complete(values[c], change[c])
  <2>1. w = NewValues(c)
    BY DEF Complete, NewValues
  <2>2. w \in Seq(Methods) /\ Matched(keys[c], w, NoChange)
    BY <1>1, EndsMatched
  <2> HIDE DEF w
  <2>3. /\ values' = [values EXCEPT ![c] = w]
        /\ change' = [change EXCEPT ![c] = NoChange]
        /\ keys' = keys
    BY <1>6, <2>1 DEF StoreValues
  <2>4. NoChange \in Changes
    BY DEF NoChange, Changes
  <2>5. DictionaryTypes'
    BY <2>2, <2>3, <2>4 DEF DictInv, DictionaryTypes
  <2>6. \A d \in Classes : /\ values'[d] = IF d = c THEN w ELSE values[d]
                           /\ change'[d] = IF d = c THEN NoChange ELSE change[d]
    BY <2>3 DEF DictInv, DictionaryTypes
  <2>7. ASSUME NEW d \in Classes PROVE Matched(keys'[d], values'[d], change'[d])
    <3>1. CASE d = c BY <2>2, <2>3, <2>6, <3>1
    <3>2. CASE d # c BY <1>1, <2>3, <2>6, <3>2
    <3>3. QED BY <3>1, <3>2
  <2>8. QED BY <2>5, <2>7 DEF DictInv
<1>7. \A m \in Methods : MethodClass[m] \in Classes
  BY MethodCacheAssumption
<1>8. QED
  BY <1>2, <1>4, <1>5, <1>6, <1>7, Zenon DEF DictionaryStep

LEMMA DictionaryStays ==
  ASSUME DictInv, UNCHANGED dictionaries
  PROVE  DictInv'
  BY DEF dictionaries, DictInv, DictionaryTypes

-----------------------------------------------------------------------------
(***************************************************************************)
(* What a hit answers.                                                     *)
(***************************************************************************)
SoundEntries == ~stale /\ ~torn => HitsAreMethods

CacheTypes ==
  /\ Placed
  /\ cache \in [Lines -> Entry]
  /\ dirty \in BOOLEAN
  /\ stale \in BOOLEAN
  /\ torn \in BOOLEAN

Sound == DictInv /\ CacheTypes /\ SoundEntries

\* What the types say of addresses and lines.
LEMMA TypesPlace ==
  ASSUME CacheTypes
  PROVE  /\ IsCache /\ Apart
         /\ \A s \in Selectors, c \in Classes : LineOf(s, c) \in Lines
<1>1. IsCache
  BY DEF CacheTypes, IsCache, Entry
<1>2. Apart
  BY PlacedApart DEF CacheTypes
<1>3. QED BY <1>1, <1>2, MethodCacheAssumption DEF LineOf, Apart, Objects

\* A dictionary answers with what is in its values or what lies behind them.
LEMMA ReadTypes ==
  ASSUME DictInv, Apart, NEW beyond \in Beyond, NEW selector \in Selectors, NEW c \in Classes
  PROVE  DictionaryFind(beyond, c, selector) \in Addresses \union Strays \union {0}
<1> DEFINE index == CHOOSE i \in DOMAIN keys[c] : keys[c][i] = selector
<1>1. \/ DictionaryFind(beyond, c, selector) = 0
      \/ index \in DOMAIN values[c] /\ DictionaryFind(beyond, c, selector) = loc[values[c][index]]
      \/ DictionaryFind(beyond, c, selector) = beyond[c]
  BY DEF DictionaryFind
<1> HIDE DEF index
<1>2. values[c] \in Seq(Methods)
  BY DEF DictInv, DictionaryTypes
<1>3. index \in DOMAIN values[c] => loc[values[c][index]] \in Addresses
  BY <1>2 DEF Apart, Objects
<1>4. beyond[c] \in Strays
  BY DEF Beyond
<1>5. QED BY <1>1, <1>3, <1>4

\* A dictionary that is not half changed answers with a method of the name.
LEMMA ReadSound ==
  ASSUME DictInv, NEW beyond \in Beyond, NEW selector \in Selectors, NEW c \in Classes,
         ~(change[c] # NoChange /\ Has(c, selector))
  PROVE  DictionaryFind(beyond, c, selector)
           \in {loc[m] : m \in {n \in Methods : MethodName[n] = selector}} \union {0}
<1>1. CASE ~Has(c, selector)
  BY <1>1 DEF DictionaryFind
<1>2. CASE Has(c, selector)
  <2>1. change[c] = NoChange
    BY <1>2
  <2>2. keys[c] = NamesOf(values[c]) /\ values[c] \in Seq(Methods)
    BY <2>1 DEF DictInv, DictionaryTypes, Matched, Complete
  <2> DEFINE index == CHOOSE i \in DOMAIN keys[c] : keys[c][i] = selector
  <2>3. index \in DOMAIN keys[c] /\ keys[c][index] = selector
    BY <1>2 DEF Has
  <2>4. DictionaryFind(beyond, c, selector) =
          IF index \in DOMAIN values[c] THEN loc[values[c][index]] ELSE beyond[c]
    BY <1>2 DEF DictionaryFind
  <2> HIDE DEF index
  <2>5. index \in DOMAIN values[c] /\ values[c][index] \in Methods
        /\ MethodName[values[c][index]] = selector
    BY <2>2, <2>3 DEF NamesOf
  <2>6. QED BY <2>4, <2>5
<1>3. QED BY <1>1, <1>2

\* A miss caches what the search found.
LEMMA SoundMiss ==
  ASSUME Sound, NEW selector \in Selectors, NEW klass \in Classes, LookupMiss(selector, klass)
  PROVE  Sound'
<1>1. UNCHANGED <<dictionaries, loc, active, dirty, stale>>
  BY DEF LookupMiss
<1>2. PICK beyond \in Beyond :
        cache' = IF Find(beyond, selector, klass) = 0 THEN cache
                 ELSE updateMethodCache(selector, klass, Find(beyond, selector, klass))
  BY DEF LookupMiss
<1> DEFINE met == \E c \in Classes : change[c] # NoChange /\ Has(c, selector)
           m == Find(beyond, selector, klass)
           new == [methodName |-> loc[selector], receiverClass |-> loc[klass], method |-> m]
<1>3. torn' = (torn \/ met)
  BY DEF LookupMiss
<1>4. DictInv'
  BY <1>1, DictionaryStays DEF Sound
<1>5. Apart /\ (\A s \in Selectors, c \in Classes : LineOf(s, c) \in Lines)
  BY TypesPlace DEF Sound
<1>6. m \in Addresses \union Strays \union {0}
  BY <1>5, ReadTypes, FindResult DEF Sound
<1>7. ASSUME ~met, m # 0
      PROVE  \E n \in Methods : MethodName[n] = selector /\ m = loc[n]
  <2> DEFINE S == {loc[n] : n \in {n \in Methods : MethodName[n] = selector}}
  <2>1. \A c \in Classes : DictionaryFind(beyond, c, selector) \in S \union {0}
    BY <1>7, ReadSound DEF Sound
  <2> HIDE DEF S
  <2>2. m \in S \union {0}
    BY <2>1, FindResult
  <2>3. QED BY <1>7, <2>2 DEF S
<1> HIDE DEF m, met
<1>8. torn' \in BOOLEAN
  BY <1>3, Zenon
<1>9. Placed'
  BY <1>1 DEF Sound, CacheTypes, Placed, Placements, LocWith, Space
<1>10. dirty' \in BOOLEAN /\ stale' \in BOOLEAN
  BY <1>1 DEF Sound, CacheTypes
<1>11. CASE m = 0
  <2>1. cache' = cache BY <1>2, <1>11 DEF m
  <2>2. CacheTypes'
    BY <1>8, <1>9, <1>10, <2>1 DEF Sound, CacheTypes
  <2>3. HitsAreMethods' <=> HitsAreMethods
    BY <1>1, <2>1 DEF HitsAreMethods, IsHit, Cached, LineOf
  <2>4. ~torn' => ~torn
    BY <1>3, Zenon
  <2>5. stale' = stale
    BY <1>1
  <2>6. SoundEntries'
    BY <2>3, <2>4, <2>5 DEF Sound, SoundEntries
  <2>7. QED BY <1>4, <2>2, <2>6 DEF Sound
<1>12. CASE m # 0
  <2>1. cache' = [cache EXCEPT ![LineOf(selector, klass)] = new]
    BY <1>2, <1>12 DEF updateMethodCache, m, new
  <2>2. new \in Entry
    BY <1>5, <1>6 DEF Apart, Objects, Entry
  <2>3. cache' \in [Lines -> Entry]
    BY <1>5, <2>1, <2>2 DEF Sound, CacheTypes
  <2>4. CacheTypes'
    BY <1>8, <1>9, <1>10, <2>3 DEF CacheTypes
  <2>5. ASSUME ~stale, ~torn, ~met, NEW s \in Selectors, NEW c \in Classes, IsHit(s, c)'
        PROVE  \E n \in Methods : MethodName[n] = s /\ Cached(s, c)' = loc[n]
    <3>1. LineOf(s, c)' = LineOf(s, c) /\ LineOf(s, c) \in Lines
      BY <1>1, <1>5 DEF LineOf
    <3>2. CASE LineOf(s, c) = LineOf(selector, klass)
      <4>1. cache'[LineOf(s, c)] = new
        BY <2>1, <3>1, <3>2 DEF Sound, CacheTypes
      <4>2. loc[s] = loc[selector]
        BY <1>1, <2>5, <3>1, <4>1 DEF IsHit, new
      <4>3. s = selector
        BY <1>5, <4>2 DEF Apart, Objects
      <4>4. Cached(s, c)' = m
        BY <3>1, <4>1 DEF Cached, new
      <4>5. PICK n \in Methods : MethodName[n] = selector /\ m = loc[n]
        BY <1>7, <1>12, <2>5
      <4>6. QED BY <4>3, <4>4, <4>5
    <3>3. CASE LineOf(s, c) # LineOf(selector, klass)
      <4>1. cache'[LineOf(s, c)] = cache[LineOf(s, c)]
        BY <2>1, <3>1, <3>3 DEF Sound, CacheTypes
      <4>2. IsHit(s, c) /\ Cached(s, c)' = Cached(s, c)
        BY <1>1, <2>5, <3>1, <4>1 DEF IsHit, Cached
      <4>3. HitsAreMethods
        BY <2>5 DEF Sound, SoundEntries
      <4>4. QED BY <4>2, <4>3 DEF HitsAreMethods
    <3>4. QED BY <3>2, <3>3
  <2>6. ~torn' => ~torn /\ ~met
    BY <1>3, Zenon
  <2>7. stale' = stale /\ loc' = loc
    BY <1>1
  <2>8. SoundEntries'
    BY <2>5, <2>6, <2>7 DEF SoundEntries, HitsAreMethods
  <2>9. QED BY <1>4, <2>4, <2>8 DEF Sound
<1>13. QED BY <1>11, <1>12

\* After a flush there are no hits, wherever the objects are.
LEMMA SoundFlush ==
  ASSUME Sound, Placed', flushMethodCache, UNCHANGED dictionaries
  PROVE  Sound'
<1>1. cache' \in [Lines -> Entry]
  BY DEF flushMethodCache, Flushed, Sound, CacheTypes, Entry
<1>2. CacheTypes'
  BY <1>1 DEF flushMethodCache, CacheTypes
<1>3. \A s \in Selectors, c \in Classes : ~IsHit(s, c)'
  BY TypesPlace, FlushForgets DEF Sound
<1>4. DictInv'
  BY DictionaryStays DEF Sound
<1>5. QED BY <1>2, <1>3, <1>4 DEF Sound, SoundEntries, HitsAreMethods

\* Every step keeps the entries sound.
LEMMA SoundStep ==
  ASSUME Sound, [Next]_vars
  PROVE  Sound'
<1>1. ASSUME NEW s \in Selectors, NEW c \in Classes, LookupHit(s, c)  PROVE UNCHANGED vars
  BY <1>1 DEF LookupHit
<1>2. ASSUME NEW s \in Selectors, NEW c \in Classes, LookupMiss(s, c)  PROVE Sound'
  BY <1>2, SoundMiss
<1>3. CASE DictionaryStep
  <2>1. UNCHANGED <<loc, active, cache, stale, torn>> /\ dirty' = TRUE
    BY <1>3, DictionaryChanges DEF Changing
  <2>2. DictInv'
    BY <1>3, DictionaryKeeps DEF Sound
  <2>3. CacheTypes'
    BY <2>1 DEF Sound, CacheTypes, Placed, Placements, LocWith, Space
  <2>4. HitsAreMethods' <=> HitsAreMethods
    BY <2>1 DEF HitsAreMethods, IsHit, Cached, LineOf
  <2>5. SoundEntries'
    BY <2>1, <2>4 DEF Sound, SoundEntries
  <2>6. QED BY <2>2, <2>3, <2>5 DEF Sound
<1>4. CASE FlushCache
  <2>1. Placed'
    BY <1>4 DEF FlushCache, Sound, CacheTypes, Placed, Placements, LocWith, Space
  <2>2. QED BY <1>4, <2>1, SoundFlush DEF FlushCache
<1>5. CASE AllocateCollects
  <2>1. collectGarbage /\ flushMethodCache
    BY <1>5 DEF AllocateCollects
  <2>2. Placed'
    BY <2>1, CollectionPlaces DEF Sound, CacheTypes
  <2>3. QED BY <2>1, <2>2, SoundFlush DEF collectGarbage
<1>6. CASE AllocateFails \/ ForceCollection
  <2>1. collectGarbage /\ stale' = TRUE /\ UNCHANGED <<cache, dirty, torn>>
    BY <1>6 DEF AllocateFails, ForceCollection
  <2>2. Placed'
    BY <2>1, CollectionPlaces DEF Sound, CacheTypes
  <2>3. DictInv'
    BY <2>1, DictionaryStays DEF Sound, collectGarbage
  <2>4. CacheTypes'
    BY <2>1, <2>2 DEF Sound, CacheTypes
  <2>5. SoundEntries'
    BY <2>1 DEF SoundEntries
  <2>6. QED BY <2>3, <2>4, <2>5 DEF Sound
<1>7. CASE UNCHANGED vars
  <2>1. UNCHANGED <<dictionaries, loc, active, cache, dirty, stale, torn>>
    BY <1>7 DEF vars
  <2>2. DictInv'
    BY <2>1, DictionaryStays DEF Sound
  <2>3. CacheTypes'
    BY <2>1 DEF Sound, CacheTypes, Placed, Placements, LocWith, Space
  <2>4. HitsAreMethods' <=> HitsAreMethods
    BY <2>1 DEF HitsAreMethods, IsHit, Cached, LineOf
  <2>5. SoundEntries'
    BY <2>1, <2>4 DEF Sound, SoundEntries
  <2>6. QED BY <2>2, <2>3, <2>5 DEF Sound
<1>8. QED
  BY <1>1, <1>2, <1>3, <1>4, <1>5, <1>6, <1>7, Zenon DEF Next, DictionaryStep

(***************************************************************************)
(* For every hierarchy, dictionary, hash and number of lines: a hit of     *)
(* lookupMethodInCache() answers with a method of the selector, old or     *)
(* new, while other processes change dictionaries under it, in two steps   *)
(* each, unless updateMethodCache() stored what a search found in a        *)
(* dictionary whose keys had changed and whose values had not.  The        *)
(* argument is DictInv: Dictionary at:put: and removeKey: put a value      *)
(* where they put its key, so the arrays belong together again when the    *)
(* change is complete, whatever else happens in between.                   *)
(***************************************************************************)
THEOREM HitsAreSound == Spec => []HitIsMethod
<1>1. Init => Sound
  <2> SUFFICES ASSUME Init PROVE Sound OBVIOUS
  <2>1. \A c \in Classes : ImageValues[c] \in Seq(Methods)
    BY MethodCacheAssumption
  <2>2. \A c \in Classes : /\ keys[c] = NamesOf(values[c]) /\ change[c] = NoChange
                           /\ NamesOf(values[c]) \in Seq(Selectors)
    BY <2>1, Names DEF Init
  <2>3. DictionaryTypes
    <3>1. values \in [Classes -> Seq(Methods)] BY MethodCacheAssumption DEF Init
    <3>2. keys \in [Classes -> Seq(Selectors)] BY <2>2 DEF Init
    <3>3. NoChange \in Changes BY DEF NoChange, Changes
    <3>4. change \in [Classes -> Changes] BY <3>3 DEF Init
    <3>5. QED BY <3>1, <3>2, <3>4 DEF DictionaryTypes
  <2>4. DictInv
    BY <2>2, <2>3 DEF DictInv, Matched, Complete, InRange
  <2>5. cache \in [Lines -> Entry]
    BY DEF Init, EmptyEntry, Entry
  <2>6. CacheTypes
    BY <2>5 DEF Init, CacheTypes, Placed
  <2>7. ASSUME NEW s \in Selectors, NEW c \in Classes PROVE ~IsHit(s, c)
    BY <2>6, TypesPlace DEF Init, IsHit, EmptyEntry, Apart, Objects
  <2>8. QED BY <2>4, <2>6, <2>7 DEF Sound, SoundEntries, HitsAreMethods
<1>2. Sound /\ [Next]_vars => Sound'
  BY SoundStep
<1>3. Sound => HitIsMethod
  <2>1. Sound => TypeOK
    BY DEF Sound, DictInv, DictionaryTypes, CacheTypes, Placed, TypeOK
  <2>2. QED BY <2>1 DEF Sound, SoundEntries, HitIsMethod
<1>4. QED
  BY <1>1, <1>2, <1>3, PTL DEF Spec

-----------------------------------------------------------------------------
\* A nonempty set of naturals has a least member.
LEMMA LeastNatural ==
  ASSUME NEW T, T \subseteq Nat, T # {}
  PROVE  \E n \in T : \A i \in T : n <= i
  <1>1. PICK n \in T : \A i \in T : ~(<<i, n>> \in OpToRel(<, Nat))
    BY WFMin, NatLessThanWellFounded
  <1>2. \A i \in T : ~(i < n)
    BY <1>1 DEF OpToRel
  <1>3. QED BY <1>2

\* A set with 0 and the successor of each of its numbers has them all.
LEMMA AllNaturals ==
  ASSUME NEW S, 0 \in S, \A n \in Nat : n \in S => n + 1 \in S
  PROVE  Nat \subseteq S
  <1> SUFFICES ASSUME Nat \ S # {} PROVE FALSE
    OBVIOUS
  <1> DEFINE T == Nat \ S
  <1>1. T \subseteq Nat /\ T # {}
    OBVIOUS
  <1> HIDE DEF T
  <1>2. PICK n \in T : \A i \in T : n <= i
    BY <1>1, LeastNatural
  <1>3. n \in Nat /\ n \notin S /\ n # 0
    BY <1>2 DEF T
  <1>4. n - 1 \in S
    BY <1>2, <1>3 DEF T
  <1>5. QED BY <1>3, <1>4

\* What is written when the first pieces are: g[k] for the first k.
Written(pieces, n, g) ==
  /\ g \in [0 .. n -> Seq(Nat)] /\ g[0] = <<>>
  /\ \A k \in 1 .. n : g[k] = g[k - 1] \o pieces[k]

\* What is written piece by piece exists for any number of pieces.
LEMMA WrittenExists ==
  ASSUME NEW pieces, NEW m \in Nat, \A k \in 1 .. m : pieces[k] \in Seq(Nat)
  PROVE  \E g : Written(pieces, m, g)
  <1> DEFINE S == {n \in Nat : n <= m => \E g : Written(pieces, n, g)}
  <1>1. 0 \in S
    <2>1. PICK g : g = [k \in 0 .. 0 |-> <<>>]
      OBVIOUS
    <2>2. g \in [0 .. 0 -> Seq(Nat)] /\ g[0] = <<>> /\ \A k \in 1 .. 0 : FALSE
      BY <2>1
    <2>3. Written(pieces, 0, g)
      BY <2>2 DEF Written
    <2>4. QED BY <2>3
  <1>2. ASSUME NEW n \in Nat, n \in S, n + 1 <= m PROVE \E h : Written(pieces, n + 1, h)
    <2>1. n <= m
      BY <1>2
    <2>2. PICK g : Written(pieces, n, g)
      BY <1>2, <2>1
    <2>3. /\ g \in [0 .. n -> Seq(Nat)] /\ g[0] = <<>>
          /\ \A k \in 1 .. n : g[k] = g[k - 1] \o pieces[k]
      BY <2>2 DEF Written
    <2>4. PICK more : more = g[n] \o pieces[n + 1]
      OBVIOUS
    <2>5. more \in Seq(Nat)
      <3>1. n + 1 \in 1 .. m /\ n \in 0 .. n
        BY <1>2
      <3>2. pieces[n + 1] \in Seq(Nat) /\ g[n] \in Seq(Nat)
        BY <2>3, <3>1
      <3>3. QED BY <2>4, <3>2, ConcatProperties
    <2>6. PICK h : h = [k \in 0 .. n + 1 |-> IF k = n + 1 THEN more ELSE g[k]]
      OBVIOUS
    <2>7. h \in [0 .. n + 1 -> Seq(Nat)] /\ h[n + 1] = more /\ \A k \in 0 .. n : h[k] = g[k]
      <3>1. \A k \in 0 .. n + 1 : k = n + 1 \/ k \in 0 .. n
        OBVIOUS
      <3>2. n + 1 \in 0 .. n + 1 /\ \A k \in 0 .. n : k \in 0 .. n + 1 /\ k # n + 1
        OBVIOUS
      <3>3. \A k \in 0 .. n : g[k] \in Seq(Nat)
        BY <2>3
      <3>4. QED BY <2>5, <2>6, <3>1, <3>2, <3>3
    <2>8. ASSUME NEW k \in 1 .. n + 1 PROVE h[k] = h[k - 1] \o pieces[k]
      <3>1. k = n + 1 \/ (k \in 1 .. n /\ k \in 0 .. n)
        OBVIOUS
      <3>2. k - 1 \in 0 .. n /\ (n + 1) - 1 = n /\ n \in 0 .. n
        OBVIOUS
      <3>3. h[k - 1] = g[k - 1]
        BY <2>7, <3>2
      <3>4. CASE k = n + 1
        BY <2>4, <2>7, <3>2, <3>3, <3>4
      <3>5. CASE k \in 1 .. n /\ k \in 0 .. n
        BY <2>3, <2>7, <3>3, <3>5
      <3>6. QED BY <3>1, <3>4, <3>5
    <2>9. 0 \in 0 .. n
      OBVIOUS
    <2>10. h[0] = <<>>
      BY <2>3, <2>7, <2>9
    <2>11. Written(pieces, n + 1, h)
      BY <2>7, <2>8, <2>10 DEF Written
    <2>12. QED BY <2>11
  <1>3. \A n \in Nat : n \in S => n + 1 \in S
    BY <1>2
  <1> HIDE DEF S
  <1>4. Nat \subseteq S
    BY <1>1, <1>3, AllNaturals
  <1>5. m \in S
    BY <1>4
  <1>6. QED BY <1>5 DEF S

\* FlattenSeq() writes the pieces behind each other.
LEMMA FlattenIs ==
  ASSUME NEW pieces, NEW n \in Nat, n = Len(pieces), n = 0 => pieces = <<>>,
         \A k \in 1 .. n : pieces[k] \in Seq(Nat), NEW g, Written(pieces, n, g)
  PROVE  FlattenSeq(pieces) = g[n]
  <1> DEFINE Equation(f) == [i \in 1 .. Len(pieces) |->
                               IF i = 1 THEN pieces[i] ELSE f[i - 1] \o pieces[i]]
             flatten == CHOOSE f : f = Equation(f)
             F == [i \in 1 .. Len(pieces) |-> g[i]]
  <1>1. /\ g \in [0 .. n -> Seq(Nat)] /\ g[0] = <<>>
        /\ \A k \in 1 .. n : g[k] = g[k - 1] \o pieces[k]
    BY DEF Written
  <1>2. 1 <= n => g[1] = pieces[1]
    <2>1. SUFFICES ASSUME 1 <= n PROVE g[1] = pieces[1]
      OBVIOUS
    <2>2. 1 \in 1 .. n /\ 1 - 1 = 0
      BY <2>1
    <2>3. g[1] = g[0] \o pieces[1] /\ pieces[1] \in Seq(Nat)
      BY <1>1, <2>2
    <2>4. <<>> \o pieces[1] = pieces[1]
      BY <2>3, ConcatEmptySeq
    <2>5. QED BY <1>1, <2>3, <2>4
  <1>3. CASE n = 0
    <2>1. FlattenSeq(pieces) = pieces
      BY <1>3 DEF FlattenSeq
    <2>2. QED BY <1>1, <1>3, <2>1
  <1>4. CASE n # 0
    <2>1. FlattenSeq(pieces) = flatten[n]
      BY <1>4 DEF FlattenSeq
    <2>2. F = Equation(F)
      <3>1. ASSUME NEW i \in 1 .. n
            PROVE  g[i] = IF i = 1 THEN pieces[i] ELSE F[i - 1] \o pieces[i]
        <4>1. CASE i = 1
          BY <1>2, <4>1
        <4>2. CASE i # 1
          <5>1. i - 1 \in 1 .. n
            BY <4>2
          <5>2. F[i - 1] = g[i - 1]
            BY <5>1
          <5> HIDE DEF F
          <5>3. QED BY <1>1, <4>2, <5>2
        <4>3. QED BY <4>1, <4>2
      <3>2. QED BY <3>1
    <2>3. flatten = Equation(flatten)
      <3> HIDE DEF Equation, F
      <3>1. QED BY <2>2
    <2> HIDE DEF flatten, F
    <2>4. \A i \in 1 .. n : flatten[i] = IF i = 1 THEN pieces[i] ELSE flatten[i - 1] \o pieces[i]
      BY <2>3
    <2> HIDE DEF Equation
    <2> DEFINE S == {i \in Nat : i \in 1 .. n => flatten[i] = g[i]}
    <2>5. 0 \in S
      OBVIOUS
    <2>6. ASSUME NEW i \in Nat, i \in S, i + 1 \in 1 .. n PROVE flatten[i + 1] = g[i + 1]
      <3>1. (i + 1) - 1 = i
        OBVIOUS
      <3>2. CASE i = 0
        <4>1. i + 1 = 1 /\ 1 \in 1 .. n /\ 1 <= n
          BY <2>6, <3>2
        <4>2. flatten[1] = pieces[1]
          BY <2>4, <4>1
        <4>3. QED BY <1>2, <4>1, <4>2
      <3>3. CASE i # 0
        <4>1. i \in 1 .. n /\ i + 1 # 1
          BY <2>6, <3>3
        <4>2. flatten[i] = g[i]
          BY <2>6, <4>1
        <4>3. flatten[i + 1] = flatten[i] \o pieces[i + 1]
          BY <2>4, <2>6, <3>1, <4>1
        <4>4. g[i + 1] = g[i] \o pieces[i + 1]
          BY <1>1, <2>6, <3>1
        <4>5. QED BY <4>2, <4>3, <4>4
      <3>4. QED BY <3>2, <3>3
    <2>7. \A i \in Nat : i \in S => i + 1 \in S
      BY <2>6
    <2> HIDE DEF S
    <2>8. Nat \subseteq S
      BY <2>5, <2>7, AllNaturals
    <2>9. n \in S /\ n \in 1 .. n
      BY <1>4, <2>8
    <2>10. QED BY <2>1, <2>9 DEF S
  <1>5. QED BY <1>3, <1>4

-----------------------------------------------------------------------------
\* Every operation has a number of its own, and half a byte holds it.
LEMMA OpcodeNumbers ==
  /\ \A o \in Operations : Opcode[o] \in 1 .. 15 /\ o \in DOMAIN Opcode
  /\ \A o, q \in DOMAIN Opcode : Opcode[o] = Opcode[q] => o = q
  <1> DEFINE NumberOp == [n \in 0 .. 15 |->
               CASE n = 0 -> "extended" [] n = 1 -> "pushInstance" [] n = 2 -> "pushArgument"
                 [] n = 3 -> "pushTemporary" [] n = 4 -> "pushLiteral" [] n = 5 -> "pushConstant"
                 [] n = 6 -> "assignInstance" [] n = 7 -> "assignTemporary"
                 [] n = 8 -> "markArguments" [] n = 9 -> "sendMessage" [] n = 10 -> "sendUnary"
                 [] n = 11 -> "sendBinary" [] n = 12 -> "pushBlock" [] n = 13 -> "doPrimitive"
                 [] n = 15 -> "doSpecial" [] OTHER -> "none"]
  <1>1. DOMAIN Opcode = {"extended", "pushInstance", "pushArgument", "pushTemporary",
                         "pushLiteral", "pushConstant", "assignInstance", "assignTemporary",
                         "markArguments", "sendMessage", "sendUnary", "sendBinary",
                         "pushBlock", "doPrimitive", "doSpecial"}
    BY DEF Opcode
  <1>2. /\ Opcode.extended = 0 /\ Opcode.pushInstance = 1 /\ Opcode.pushArgument = 2
        /\ Opcode.pushTemporary = 3 /\ Opcode.pushLiteral = 4 /\ Opcode.pushConstant = 5
        /\ Opcode.assignInstance = 6 /\ Opcode.assignTemporary = 7
        /\ Opcode.markArguments = 8 /\ Opcode.sendMessage = 9 /\ Opcode.sendUnary = 10
        /\ Opcode.sendBinary = 11 /\ Opcode.pushBlock = 12 /\ Opcode.doPrimitive = 13
        /\ Opcode.doSpecial = 15
    BY DEF Opcode
  <1>3. \A o \in DOMAIN Opcode : Opcode[o] \in 0 .. 15 /\ NumberOp[Opcode[o]] = o
    <2>1. /\ NumberOp[0] = "extended" /\ NumberOp[1] = "pushInstance" /\ NumberOp[2] = "pushArgument"
          /\ NumberOp[3] = "pushTemporary" /\ NumberOp[4] = "pushLiteral"
          /\ NumberOp[5] = "pushConstant" /\ NumberOp[6] = "assignInstance"
          /\ NumberOp[7] = "assignTemporary" /\ NumberOp[8] = "markArguments"
          /\ NumberOp[9] = "sendMessage" /\ NumberOp[10] = "sendUnary"
          /\ NumberOp[11] = "sendBinary" /\ NumberOp[12] = "pushBlock"
          /\ NumberOp[13] = "doPrimitive" /\ NumberOp[15] = "doSpecial"
      OBVIOUS
    <2> HIDE DEF NumberOp
    <2>2. QED BY <1>1, <1>2, <2>1
  <1> HIDE DEF NumberOp
  <1>4. \A o \in Operations : Opcode[o] \in 1 .. 15 /\ o \in DOMAIN Opcode
    BY <1>1, <1>2 DEF Operations
  <1>5. QED BY <1>3, <1>4

\* The bytes of an instruction.
LEMMA EncodedInstr ==
  ASSUME NEW i \in Encodable
  PROVE  LET e == EncodeInstr(i)
             h == IF i.arg >= 16 THEN 2 ELSE 1
             x == ExtraBytes(i.op, i.arg)
         IN  /\ e \in Seq(Nat) /\ x \in {0, 1, 2} /\ Len(e) = h + x
             /\ h = 2 => e[1] = Opcode[i.op] /\ e[2] = i.arg
             /\ h = 1 => e[1] = Opcode[i.op] * 16 + i.arg
             /\ x = 0 => i.extra = 0
             /\ x = 1 => e[h + 1] = i.extra
             /\ x = 2 => e[h + 1] = i.extra % 256 /\ e[h + 2] = i.extra \div 256
  <1>1. /\ i.op \in Operations /\ i.arg \in Nat /\ i.arg < 256
        /\ i.extra \in Nat /\ i.extra < 256 * 256
        /\ ExtraBytes(i.op, i.arg) = 0 => i.extra = 0
    BY DEF Encodable
  <1>2. PICK x : x = ExtraBytes(i.op, i.arg)
    OBVIOUS
  <1>3. x \in {0, 1, 2}
    BY <1>2 DEF ExtraBytes
  <1>4. PICK head : head = genHigh(i.op, i.arg)
    OBVIOUS
  <1>5. PICK tail : tail = CASE x = 0 -> <<>>
                             [] x = 1 -> <<i.extra>>
                             [] OTHER -> <<i.extra % 256, i.extra \div 256>>
    OBVIOUS
  <1>6. EncodeInstr(i) = head \o tail
    BY <1>2, <1>4, <1>5 DEF EncodeInstr
  <1>7. Opcode[i.op] \in 1 .. 15
    BY <1>1, OpcodeNumbers
  <1>8. /\ head \in Seq(Nat)
        /\ i.arg >= 16 => Len(head) = 2 /\ head[1] = Opcode[i.op] /\ head[2] = i.arg
        /\ ~(i.arg >= 16) => Len(head) = 1 /\ head[1] = Opcode[i.op] * 16 + i.arg
    BY <1>1, <1>4, <1>7 DEF genHigh
  <1>9. /\ tail \in Seq(Nat) /\ Len(tail) = x
        /\ x = 1 => tail[1] = i.extra
        /\ x = 2 => tail[1] = i.extra % 256 /\ tail[2] = i.extra \div 256
    <2>1. i.extra % 256 \in Nat /\ i.extra \div 256 \in Nat /\ i.extra \in Nat
      BY <1>1
    <2>2. CASE x = 0
      BY <1>5, <2>2
    <2>3. CASE x = 1
      BY <1>5, <2>1, <2>3
    <2>4. CASE x = 2
      <3>1. PICK a, b : a = i.extra % 256 /\ b = i.extra \div 256
        OBVIOUS
      <3>2. tail = <<a, b>> /\ a \in Nat /\ b \in Nat
        BY <1>5, <2>1, <2>4, <3>1
      <3>3. tail \in Seq(Nat) /\ Len(tail) = 2 /\ tail[1] = a /\ tail[2] = b
        BY <3>2
      <3>4. QED BY <2>4, <3>1, <3>3
    <2>5. QED BY <1>3, <2>2, <2>3, <2>4
  <1>10. PICK e : e = head \o tail
    OBVIOUS
  <1>11. /\ e \in Seq(Nat) /\ Len(e) = Len(head) + Len(tail)
         /\ \A k \in 1 .. Len(head) + Len(tail) :
              e[k] = IF k <= Len(head) THEN head[k] ELSE tail[k - Len(head)]
    <2>1. head \in Seq(Nat) /\ tail \in Seq(Nat)
      BY <1>8, <1>9
    <2>2. /\ head \o tail \in Seq(Nat) /\ Len(head \o tail) = Len(head) + Len(tail)
          /\ \A k \in 1 .. Len(head) + Len(tail) :
               (head \o tail)[k] = IF k <= Len(head) THEN head[k] ELSE tail[k - Len(head)]
      BY ONLY <2>1, ConcatProperties
    <2>3. QED BY <1>10, <2>2
  <1>12. PICK h : h = IF i.arg >= 16 THEN 2 ELSE 1
    OBVIOUS
  <1>13. Len(head) = h /\ h \in {1, 2} /\ Len(e) = h + x
    BY <1>1, <1>8, <1>9, <1>11, <1>12
  <1>14. /\ \A k \in 1 .. h : e[k] = head[k]
         /\ \A k \in 1 .. x : e[h + k] = tail[k]
    <2>1. ASSUME NEW k \in 1 .. h PROVE e[k] = head[k]
      <3>1. k \in 1 .. Len(head) + Len(tail) /\ k <= Len(head)
        BY <1>3, <1>9, <1>13
      <3>2. QED BY <1>11, <3>1
    <2>2. ASSUME NEW k \in 1 .. x PROVE e[h + k] = tail[k]
      <3>1. h + k \in 1 .. Len(head) + Len(tail) /\ ~(h + k <= Len(head)) /\ (h + k) - Len(head) = k
        BY <1>3, <1>9, <1>13
      <3>2. QED BY <1>11, <3>1
    <2>3. QED BY <2>1, <2>2
  <1>15. /\ h = 2 => e[1] = Opcode[i.op] /\ e[2] = i.arg
         /\ h = 1 => e[1] = Opcode[i.op] * 16 + i.arg
    <2>1. h = 2 => e[1] = head[1] /\ e[2] = head[2]
      BY <1>14
    <2>2. h = 1 => e[1] = head[1]
      BY <1>14
    <2>3. (h = 2 <=> i.arg >= 16) /\ (h = 1 <=> ~(i.arg >= 16))
      BY <1>12
    <2>4. QED BY <1>8, <2>1, <2>2, <2>3
  <1>16. /\ x = 1 => e[h + 1] = i.extra
         /\ x = 2 => e[h + 1] = i.extra % 256 /\ e[h + 2] = i.extra \div 256
    <2>1. x = 1 => e[h + 1] = tail[1]
      BY <1>14
    <2>2. x = 2 => e[h + 1] = tail[1] /\ e[h + 2] = tail[2]
      BY <1>14
    <2>3. QED BY <1>9, <2>1, <2>2
  <1>17. QED BY <1>1, <1>2, <1>3, <1>6, <1>10, <1>11, <1>12, <1>13, <1>15, <1>16

\* The decoder reads an instruction from its bytes.
LEMMA DecodesEncoded ==
  ASSUME NEW i \in Encodable, NEW bytes \in Seq(Nat), NEW p \in Nat,
         p + Len(EncodeInstr(i)) <= Len(bytes),
         \A q \in 1 .. Len(EncodeInstr(i)) : bytes[p + q] = EncodeInstr(i)[q]
  PROVE  decodeAndShiftPointer(bytes, p) = [instr |-> i, next |-> p + Len(EncodeInstr(i))]
  <1>1. PICK e, h, x : /\ e = EncodeInstr(i) /\ h = (IF i.arg >= 16 THEN 2 ELSE 1)
                       /\ x = ExtraBytes(i.op, i.arg)
    OBVIOUS
  <1>2. PICK code : code = Opcode[i.op]
    OBVIOUS
  <1>3. /\ i.op \in Operations /\ i.arg \in Nat /\ i.arg < 256 /\ i.extra \in Nat
        /\ i.extra < 256 * 256
        /\ i = [op |-> i.op, arg |-> i.arg, extra |-> i.extra]
    BY DEF Encodable
  <1>4. code \in 1 .. 15
    BY <1>2, <1>3, OpcodeNumbers
  <1>5. /\ x \in {0, 1, 2} /\ Len(e) = h + x
        /\ h = 2 => e[1] = code /\ e[2] = i.arg
        /\ h = 1 => e[1] = code * 16 + i.arg
        /\ x = 0 => i.extra = 0
        /\ x = 1 => e[h + 1] = i.extra
        /\ x = 2 => e[h + 1] = i.extra % 256 /\ e[h + 2] = i.extra \div 256
    BY <1>1, <1>2, EncodedInstr
  <1>6. h \in {1, 2} /\ (h = 2 => i.arg >= 16) /\ (h = 1 => i.arg < 16)
    BY <1>1, <1>3
  <1> DEFINE byte(a) == IF a < Len(bytes) THEN bytes[a + 1] ELSE 0
             high == byte(p) \div 16
             extended == high = Opcode.extended
             number == IF extended THEN byte(p) % 16 ELSE high
             op == CHOOSE o \in DOMAIN Opcode : Opcode[o] = number
             arg == IF extended THEN byte(p + 1) ELSE byte(p) % 16
             r == IF extended THEN p + 2 ELSE p + 1
             n == ExtraBytes(op, arg)
             extra == CASE n = 0 -> 0 [] n = 1 -> byte(r) [] n = 2 -> byte(r) + 256 * byte(r + 1)
  <1>7. \A q \in 1 .. h + x : byte(p + q - 1) = e[q]
    <2>1. ASSUME NEW q \in 1 .. h + x PROVE byte(p + q - 1) = e[q]
      <3>1. q \in 1 .. Len(e) /\ p + q - 1 < Len(bytes) /\ (p + q - 1) + 1 = p + q
        BY <1>1, <1>5, <1>6
      <3>2. QED BY <1>1, <3>1
    <2>2. QED BY <2>1
  <1>8. Opcode.extended = 0
    BY DEF Opcode
  <1>9. decodeAndShiftPointer(bytes, p) = [instr |-> Instr(op, arg, extra), next |-> r + n]
    BY DEF decodeAndShiftPointer
  <1> HIDE DEF byte
  <1>10. byte(p) = e[1]
    <2>1. 1 \in 1 .. h + x /\ p + 1 - 1 = p
      BY <1>5, <1>6
    <2>2. QED BY <1>7, <2>1
  <1>11. /\ number = code /\ arg = i.arg /\ r = p + h
    <2>1. CASE h = 2
      <3>1. byte(p) = code /\ high = 0 /\ code % 16 = code
        BY <1>4, <1>5, <1>10, <2>1
      <3>2. extended
        BY <1>8, <3>1
      <3>3. byte(p + 1) = i.arg
        <4>1. 2 \in 1 .. h + x /\ p + 2 - 1 = p + 1
          BY <1>5, <2>1
        <4>2. byte(p + 1) = e[2]
          BY <1>7, <4>1
        <4>3. QED BY <1>5, <2>1, <4>2
      <3>4. QED BY <2>1, <3>1, <3>2, <3>3
    <2>2. CASE h = 1
      <3>1. byte(p) = code * 16 + i.arg
        BY <1>5, <1>10, <2>2
      <3>2. high = code /\ byte(p) % 16 = i.arg
        <4>1. PICK a : a = i.arg
          OBVIOUS
        <4>2. a \in Nat /\ a < 16
          BY <1>3, <1>6, <2>2, <4>1
        <4>3. PICK v, d, m : v = code * 16 + a /\ d = v \div 16 /\ m = v % 16
          OBVIOUS
        <4>4. v \in Nat /\ d \in Int /\ m \in 0 .. 15 /\ v = d * 16 + m
          BY <1>4, <4>2, <4>3
        <4>5. d = code /\ m = a
          BY <1>4, <4>2, <4>3, <4>4
        <4>6. byte(p) = v
          BY <3>1, <4>1, <4>3
        <4>7. QED BY <4>1, <4>3, <4>5, <4>6
      <3>3. ~extended
        BY <1>4, <1>8, <3>2
      <3>4. QED BY <2>2, <3>2, <3>3
    <2>3. QED BY <1>6, <2>1, <2>2
  <1> HIDE DEF high, extended, number, arg, r
  <1>12. op = i.op
    <2>1. i.op \in DOMAIN Opcode /\ Opcode[i.op] = number
      BY <1>2, <1>3, <1>11, OpcodeNumbers
    <2>2. \A o \in DOMAIN Opcode : Opcode[o] = number => o = i.op
      BY <2>1, OpcodeNumbers
    <2>3. op \in DOMAIN Opcode /\ Opcode[op] = number
      BY <2>1
    <2>4. QED BY <2>2, <2>3
  <1> HIDE DEF op
  <1>13. n = x
    BY <1>1, <1>11, <1>12
  <1> HIDE DEF n
  <1>14. extra = i.extra
    <2>1. CASE x = 0
      BY <1>5, <1>13, <2>1
    <2>2. CASE x = 1
      <3>1. h + 1 \in 1 .. h + x /\ p + (h + 1) - 1 = p + h
        BY <1>6, <2>2
      <3>2. byte(p + h) = i.extra
        BY <1>5, <1>7, <2>2, <3>1
      <3>3. QED BY <1>11, <1>13, <2>2, <3>2
    <2>3. CASE x = 2
      <3>1. /\ h + 1 \in 1 .. h + x /\ p + (h + 1) - 1 = p + h
            /\ h + 2 \in 1 .. h + x /\ p + (h + 2) - 1 = p + h + 1
        BY <1>6, <2>3
      <3>2. byte(p + h) = i.extra % 256 /\ byte(p + h + 1) = i.extra \div 256
        BY <1>5, <1>7, <2>3, <3>1
      <3>3. (i.extra % 256) + 256 * (i.extra \div 256) = i.extra
        BY <1>3
      <3>4. extra = byte(r) + 256 * byte(r + 1)
        BY <1>13, <2>3
      <3>5. QED BY <1>11, <3>2, <3>3, <3>4
    <2>4. QED BY <1>5, <2>1, <2>2, <2>3
  <1> HIDE DEF extra
  <1>15. Instr(op, arg, extra) = i
    <2>1. Instr(op, arg, extra) = [op |-> i.op, arg |-> i.arg, extra |-> i.extra]
      BY <1>11, <1>12, <1>14, Zenon DEF Instr
    <2>2. QED BY <1>3, <2>1
  <1>16. r + n = p + Len(EncodeInstr(i))
    BY <1>1, <1>5, <1>6, <1>11, <1>13
  <1>17. QED BY <1>9, <1>15, <1>16

\* Behind the code there are zeros, and the decoder reads two at a time.
LEMMA DecodesZeros ==
  ASSUME NEW bytes \in Seq(Nat), NEW p \in Nat,
         \A q \in Nat : p < q /\ q <= Len(bytes) => bytes[q] = 0
  PROVE  decodeAndShiftPointer(bytes, p) = [instr |-> Instr("extended", 0, 0), next |-> p + 2]
  <1> DEFINE byte(a) == IF a < Len(bytes) THEN bytes[a + 1] ELSE 0
             high == byte(p) \div 16
             extended == high = Opcode.extended
             number == IF extended THEN byte(p) % 16 ELSE high
             op == CHOOSE o \in DOMAIN Opcode : Opcode[o] = number
             arg == IF extended THEN byte(p + 1) ELSE byte(p) % 16
             r == IF extended THEN p + 2 ELSE p + 1
             n == ExtraBytes(op, arg)
             extra == CASE n = 0 -> 0 [] n = 1 -> byte(r) [] n = 2 -> byte(r) + 256 * byte(r + 1)
  <1>1. byte(p) = 0 /\ byte(p + 1) = 0
    <2>1. \A a \in Nat : p <= a => byte(a) = 0
      <3>1. ASSUME NEW a \in Nat, p <= a, a < Len(bytes) PROVE bytes[a + 1] = 0
        <4>1. a + 1 \in Nat /\ p < a + 1 /\ a + 1 <= Len(bytes)
          BY <3>1
        <4>2. QED BY <4>1
      <3>2. QED BY <3>1
    <2>2. QED BY <2>1
  <1>2. Opcode.extended = 0
    BY DEF Opcode
  <1>3. decodeAndShiftPointer(bytes, p) = [instr |-> Instr(op, arg, extra), next |-> r + n]
    BY DEF decodeAndShiftPointer
  <1> HIDE DEF byte
  <1>4. high = 0
    BY <1>1
  <1>5. extended
    BY <1>2, <1>4
  <1>6. number = 0 /\ arg = 0 /\ r = p + 2
    BY <1>1, <1>5
  <1> HIDE DEF high, extended, number, arg, r
  <1>7. op = "extended"
    <2>1. "extended" \in DOMAIN Opcode
      BY DEF Opcode
    <2>2. Opcode["extended"] = 0
      BY DEF Opcode
    <2>3. \A o \in DOMAIN Opcode : Opcode[o] = number => o = "extended"
      BY <1>6, <2>1, <2>2, OpcodeNumbers
    <2>4. op \in DOMAIN Opcode /\ Opcode[op] = number
      BY <1>6, <2>1, <2>2
    <2>5. QED BY <2>3, <2>4
  <1> HIDE DEF op
  <1>8. n = 0
    <2>1. ExtraBytes("extended", 0) = 0
      BY DEF ExtraBytes, isBranch, IsSpecial, Instr
    <2>2. QED BY <1>6, <1>7, <2>1
  <1> HIDE DEF n
  <1>9. extra = 0
    BY <1>8
  <1> HIDE DEF extra
  <1>10. QED BY <1>3, <1>6, <1>7, <1>8, <1>9

-----------------------------------------------------------------------------
\* The bytes of the first instructions.
LEMMA EncodedFirst ==
  ASSUME NEW code \in Seq(Encodable), NEW n \in Nat, n = Len(code),
         NEW pieces, pieces = [k \in 1 .. n |-> EncodeInstr(code[k])],
         NEW g, Written(pieces, n, g), NEW j \in 0 .. n
  PROVE  Encode(SubSeq(code, 1, j)) = g[j]
  <1>1. PICK first : first = SubSeq(code, 1, j)
    OBVIOUS
  <1>2. first \in Seq(Encodable) /\ Len(first) = j /\ DOMAIN first = 1 .. j
        /\ \A k \in 1 .. j : first[k] = code[k]
    <2>1. 1 \in Nat /\ j \in Nat /\ j <= n /\ \A k \in 1 .. j : k \in 1 .. n
      OBVIOUS
    <2>2. QED BY <1>1, <2>1
  <1>3. PICK part : part = [k \in DOMAIN first |-> EncodeInstr(first[k])]
    OBVIOUS
  <1>4. /\ DOMAIN part = 1 .. j /\ Len(part) = j
        /\ \A k \in 1 .. j : part[k] = pieces[k] /\ part[k] \in Seq(Nat)
    <2>1. part = [k \in 1 .. j |-> EncodeInstr(first[k])]
      BY <1>2, <1>3
    <2>2. DOMAIN part = 1 .. j /\ Len(part) = j
      BY <2>1
    <2>3. ASSUME NEW k \in 1 .. j PROVE part[k] = pieces[k] /\ part[k] \in Seq(Nat)
      <3>1. k \in 1 .. n /\ code[k] \in Encodable /\ first[k] = code[k]
        BY <1>2
      <3>2. part[k] = EncodeInstr(code[k]) /\ pieces[k] = EncodeInstr(code[k])
        BY <2>1, <3>1
      <3>3. QED BY <3>1, <3>2, EncodedInstr
    <2>4. QED BY <2>2, <2>3
  <1>5. PICK h : h = [k \in 0 .. j |-> g[k]]
    OBVIOUS
  <1>6. Written(part, j, h)
    <2>1. /\ g \in [0 .. n -> Seq(Nat)] /\ g[0] = <<>>
          /\ \A k \in 1 .. n : g[k] = g[k - 1] \o pieces[k]
      BY DEF Written
    <2>2. h \in [0 .. j -> Seq(Nat)] /\ h[0] = <<>>
      <3>1. 0 \in 0 .. j /\ \A k \in 0 .. j : k \in 0 .. n
        OBVIOUS
      <3>2. \A k \in 0 .. j : h[k] = g[k] /\ g[k] \in Seq(Nat)
        BY <1>5, <2>1, <3>1
      <3>3. QED BY <1>5, <2>1, <3>1, <3>2
    <2>3. ASSUME NEW k \in 1 .. j PROVE h[k] = h[k - 1] \o part[k]
      <3>1. k \in 1 .. n /\ k \in 0 .. j /\ k - 1 \in 0 .. j
        OBVIOUS
      <3>2. h[k] = g[k] /\ h[k - 1] = g[k - 1] /\ part[k] = pieces[k]
        BY <1>4, <1>5, <3>1
      <3>3. QED BY <2>1, <3>1, <3>2
    <2>4. QED BY <2>2, <2>3 DEF Written
  <1>7. j = 0 => part = <<>>
    BY <1>2, <1>3
  <1>8. FlattenSeq(part) = h[j]
    <2>1. j \in Nat
      OBVIOUS
    <2>2. j = Len(part) /\ \A k \in 1 .. j : part[k] \in Seq(Nat)
      BY <1>4
    <2>3. QED BY <1>6, <1>7, <2>1, <2>2, FlattenIs
  <1>9. h[j] = g[j]
    BY <1>5
  <1>10. QED BY <1>1, <1>3, <1>8, <1>9 DEF Encode

InPlace(pieces, n, g) ==
  /\ \A k \in 0 .. n : g[k] \in Seq(Nat) /\ Len(g[k]) \in Nat
  /\ \A k \in 1 .. n : /\ Len(g[k]) = Len(g[k - 1]) + Len(pieces[k])
                       /\ \A q \in 1 .. Len(pieces[k]) :
                            g[k][Len(g[k - 1]) + q] = pieces[k][q]
  /\ \A j, k \in 0 .. n : j < k =>
       /\ Len(g[j]) < Len(g[k])
       /\ \A p \in 1 .. Len(g[j]) : g[k][p] = g[j][p]

\* What is written stays in place.
LEMMA WrittenStays ==
  ASSUME NEW pieces, NEW n \in Nat, NEW g, Written(pieces, n, g),
         \A k \in 1 .. n : pieces[k] \in Seq(Nat) /\ Len(pieces[k]) > 0
  PROVE  InPlace(pieces, n, g)
  <1>1. /\ g \in [0 .. n -> Seq(Nat)] /\ g[0] = <<>>
        /\ \A k \in 1 .. n : g[k] = g[k - 1] \o pieces[k]
    BY DEF Written
  <1>2. \A k \in 0 .. n : g[k] \in Seq(Nat) /\ Len(g[k]) \in Nat
    BY <1>1
  <1>3. ASSUME NEW k \in 1 .. n
        PROVE  /\ Len(g[k]) = Len(g[k - 1]) + Len(pieces[k])
               /\ \A q \in 1 .. Len(pieces[k]) : g[k][Len(g[k - 1]) + q] = pieces[k][q]
               /\ \A p \in 1 .. Len(g[k - 1]) : g[k][p] = g[k - 1][p]
               /\ Len(g[k - 1]) < Len(g[k])
    <2>1. PICK a, b, c : a = g[k - 1] /\ b = pieces[k] /\ c = g[k]
      OBVIOUS
    <2>2. a \in Seq(Nat) /\ b \in Seq(Nat) /\ Len(b) > 0 /\ c = a \o b
      <3>1. k - 1 \in 0 .. n
        OBVIOUS
      <3>2. QED BY <1>1, <1>2, <2>1, <3>1
    <2>3. /\ Len(c) = Len(a) + Len(b) /\ Len(a) \in Nat /\ Len(b) \in Nat
          /\ \A i \in 1 .. Len(a) + Len(b) : c[i] = IF i <= Len(a) THEN a[i] ELSE b[i - Len(a)]
      BY <2>2, ConcatProperties
    <2>4. \A p \in 1 .. Len(a) : c[p] = a[p]
      <3>1. \A p \in 1 .. Len(a) : p \in 1 .. Len(a) + Len(b) /\ p <= Len(a)
        BY <2>3
      <3>2. QED BY <2>3, <3>1
    <2>5. \A q \in 1 .. Len(b) : c[Len(a) + q] = b[q]
      <3>1. \A q \in 1 .. Len(b) : /\ Len(a) + q \in 1 .. Len(a) + Len(b) /\ ~(Len(a) + q <= Len(a))
                                   /\ (Len(a) + q) - Len(a) = q
        BY <2>3
      <3>2. QED BY <2>3, <3>1
    <2>6. Len(a) < Len(c)
      BY <2>2, <2>3
    <2>7. QED BY <2>1, <2>3, <2>4, <2>5, <2>6
  <1> DEFINE Kept(j, k) == /\ Len(g[j]) < Len(g[k])
                           /\ \A p \in 1 .. Len(g[j]) : g[k][p] = g[j][p]
             S == {k \in Nat : \A j \in Nat : j < k /\ k <= n => Kept(j, k)}
  <1> HIDE DEF Kept, S
  <1>4. 0 \in S
    BY DEF S
  <1>5. ASSUME NEW k \in Nat, k \in S, NEW j \in Nat, j < k + 1, k + 1 <= n
        PROVE  Kept(j, k + 1)
    <2>1. k + 1 \in 1 .. n /\ (k + 1) - 1 = k
      BY <1>5
    <2>2. Kept(k, k + 1)
      <3>1. /\ Len(g[k]) < Len(g[k + 1])
            /\ \A p \in 1 .. Len(g[k]) : g[k + 1][p] = g[k][p]
        <4>1. PICK m \in 1 .. n : m = k + 1
          BY <2>1
        <4>2. /\ Len(g[m - 1]) < Len(g[m])
              /\ \A p \in 1 .. Len(g[m - 1]) : g[m][p] = g[m - 1][p]
          BY <1>3
        <4>3. m - 1 = k
          BY <4>1
        <4>4. QED BY <4>1, <4>2, <4>3
      <3>2. QED BY <3>1 DEF Kept
    <2>3. CASE j = k
      BY <2>2, <2>3
    <2>4. CASE j # k
      <3>1. Kept(j, k)
        <4>1. j < k /\ k <= n
          BY <1>5, <2>4
        <4>2. QED BY <1>5, <4>1 DEF S
      <3>2. Len(g[j]) \in Nat /\ Len(g[k]) \in Nat /\ Len(g[k + 1]) \in Nat
        <4>1. j \in 0 .. n /\ k \in 0 .. n /\ k + 1 \in 0 .. n
          BY <1>5
        <4>2. QED BY <1>2, <4>1
      <3>3. QED BY <2>2, <3>1, <3>2 DEF Kept
    <2>5. QED BY <2>3, <2>4
  <1>6. ASSUME NEW k \in Nat, k \in S PROVE k + 1 \in S
    <2>1. \A j \in Nat : j < k + 1 /\ k + 1 <= n => Kept(j, k + 1)
      BY <1>5, <1>6
    <2>2. k + 1 \in Nat
      OBVIOUS
    <2>3. QED BY <2>1, <2>2 DEF S
  <1>7. Nat \subseteq S
    BY <1>4, <1>6, AllNaturals
  <1>8. \A j, k \in 0 .. n : j < k => Kept(j, k)
    <2>1. ASSUME NEW j \in 0 .. n, NEW k \in 0 .. n, j < k PROVE Kept(j, k)
      <3>1. k \in S /\ j \in Nat /\ k <= n
        BY <1>7
      <3>2. QED BY <2>1, <3>1 DEF S
    <2>2. QED BY <2>1
  <1>9. QED BY <1>2, <1>3, <1>8 DEF Kept, InPlace

\* Where the instructions are, and where the code ends.
Places(code) == [k \in 1 .. Len(code) + 1 |-> SizeOf(SubSeq(code, 1, k - 1))]

\* The bytes hold the instructions at their places, and nothing behind them.
Holds(bytes, code, place, n) ==
  /\ place \in [1 .. n + 1 -> Nat]
  /\ \A j, k \in 1 .. n + 1 : j < k => place[j] < place[k]
  /\ Len(bytes) = place[n + 1] + Padding
  /\ \A k \in 1 .. n : decodeAndShiftPointer(bytes, place[k])
                         = [instr |-> code[k], next |-> place[k + 1]]
  /\ \A p \in Nat : p >= place[n + 1] =>
       decodeAndShiftPointer(bytes, p) = [instr |-> Instr("extended", 0, 0), next |-> p + 2]

\* The bytes of a method hold its instructions where Places() says: the decoder
\* inverts the encoder.
LEMMA CodePlaces ==
  ASSUME NEW code \in Seq(Encodable), NEW n \in Nat, n = Len(code),
         NEW place, place = Places(code), NEW bytes, bytes = ByteCodes(code)
  PROVE  Holds(bytes, code, place, n)
  <1>1. PICK pieces : pieces = [k \in 1 .. n |-> EncodeInstr(code[k])]
    OBVIOUS
  <1>2. \A k \in 1 .. n : /\ code[k] \in Encodable /\ pieces[k] = EncodeInstr(code[k])
                          /\ pieces[k] \in Seq(Nat) /\ Len(pieces[k]) > 0
    <2>1. ASSUME NEW k \in 1 .. n
          PROVE  /\ code[k] \in Encodable /\ pieces[k] = EncodeInstr(code[k])
                 /\ pieces[k] \in Seq(Nat) /\ Len(pieces[k]) > 0
      <3>1. code[k] \in Encodable
        OBVIOUS
      <3>2. PICK i \in Encodable : i = code[k]
        BY <3>1
      <3>3. pieces[k] = EncodeInstr(i)
        BY <1>1, <3>2
      <3>4. /\ EncodeInstr(i) \in Seq(Nat) /\ ExtraBytes(i.op, i.arg) \in {0, 1, 2}
            /\ Len(EncodeInstr(i)) = (IF i.arg >= 16 THEN 2 ELSE 1) + ExtraBytes(i.op, i.arg)
        BY EncodedInstr
      <3>5. QED BY <3>1, <3>2, <3>3, <3>4
    <2>2. QED BY <2>1
  <1>3. PICK g : Written(pieces, n, g)
    BY <1>2, WrittenExists
  <1>4. \A j \in 0 .. n : Encode(SubSeq(code, 1, j)) = g[j]
    BY <1>1, <1>3, EncodedFirst
  <1>5. /\ \A k \in 0 .. n : g[k] \in Seq(Nat) /\ Len(g[k]) \in Nat
        /\ \A k \in 1 .. n : /\ Len(g[k]) = Len(g[k - 1]) + Len(pieces[k])
                             /\ \A q \in 1 .. Len(pieces[k]) :
                                  g[k][Len(g[k - 1]) + q] = pieces[k][q]
        /\ \A j, k \in 0 .. n : j < k => /\ Len(g[j]) < Len(g[k])
                                         /\ \A p \in 1 .. Len(g[j]) : g[k][p] = g[j][p]
    <2>1. \A k \in 1 .. n : pieces[k] \in Seq(Nat) /\ Len(pieces[k]) > 0
      BY <1>2
    <2>2. InPlace(pieces, n, g)
      BY <1>3, <2>1, WrittenStays
    <2>3. QED BY <2>2 DEF InPlace
  <1>6. DOMAIN place = 1 .. n + 1 /\ \A k \in 1 .. n + 1 : place[k] = Len(g[k - 1])
    <2>1. ASSUME NEW k \in 1 .. n + 1 PROVE place[k] = Len(g[k - 1])
      <3>1. k - 1 \in 0 .. n
        OBVIOUS
      <3>2. SizeOf(SubSeq(code, 1, k - 1)) = Len(g[k - 1])
        BY <1>4, <3>1 DEF SizeOf
      <3>3. QED BY <3>2 DEF Places
    <2>2. QED BY <2>1 DEF Places
  <1>7. \A k \in 1 .. n + 1 : k - 1 \in 0 .. n /\ place[k] \in Nat
    <2>1. \A k \in 1 .. n + 1 : k - 1 \in 0 .. n
      OBVIOUS
    <2>2. QED BY <1>5, <1>6, <2>1
  <1>8. place \in [1 .. n + 1 -> Nat]
    <2>1. place = [k \in 1 .. n + 1 |-> place[k]]
      BY DEF Places
    <2>2. QED BY <1>7, <2>1
  <1>9. ASSUME NEW j \in 1 .. n + 1, NEW k \in 1 .. n + 1, j < k PROVE place[j] < place[k]
    <2>1. j - 1 \in 0 .. n /\ k - 1 \in 0 .. n /\ j - 1 < k - 1
      BY <1>9
    <2>2. Len(g[j - 1]) < Len(g[k - 1])
      BY <1>5, <2>1
    <2>3. QED BY <1>6, <2>2
  <1>10. PICK zeros : zeros = [k \in 1 .. Padding |-> 0]
    OBVIOUS
  <1>11. zeros \in Seq(Nat) /\ Len(zeros) = Padding /\ \A k \in 1 .. Padding : zeros[k] = 0
    BY <1>10, PaddingAssumption
  <1>12. Encode(code) = g[n]
    <2>1. SubSeq(code, 1, n) = code
      OBVIOUS
    <2>2. n \in 0 .. n
      OBVIOUS
    <2>3. QED BY <1>4, <2>1, <2>2
  <1>13. PICK all : all = g[n]
    OBVIOUS
  <1>14. all \in Seq(Nat) /\ Len(all) \in Nat /\ Len(all) = place[n + 1] /\ bytes = all \o zeros
    <2>1. n \in 0 .. n /\ n + 1 \in 1 .. n + 1 /\ (n + 1) - 1 = n
      OBVIOUS
    <2>2. all \in Seq(Nat) /\ Len(all) \in Nat
      BY <1>5, <1>13, <2>1
    <2>3. place[n + 1] = Len(g[n])
      <3>1. PICK m \in 1 .. n + 1 : m = n + 1
        BY <2>1
      <3>2. place[m] = Len(g[m - 1]) /\ m - 1 = n
        BY <1>6, <3>1
      <3>3. QED BY <3>1, <3>2
    <2>4. bytes = all \o zeros
      BY <1>10, <1>12, <1>13 DEF ByteCodes
    <2>5. QED BY <1>13, <2>2, <2>3, <2>4
  <1>15. /\ bytes \in Seq(Nat) /\ Len(bytes) = Len(all) + Padding
         /\ \A p \in 1 .. Len(all) : bytes[p] = all[p]
         /\ \A q \in Nat : Len(all) < q /\ q <= Len(bytes) => bytes[q] = 0
    <2>1. /\ bytes \in Seq(Nat) /\ Len(bytes) = Len(all) + Len(zeros)
          /\ \A p \in 1 .. Len(all) + Len(zeros) :
               bytes[p] = IF p <= Len(all) THEN all[p] ELSE zeros[p - Len(all)]
      BY <1>11, <1>14, ConcatProperties
    <2>2. \A p \in 1 .. Len(all) : bytes[p] = all[p]
      <3>1. \A p \in 1 .. Len(all) : p \in 1 .. Len(all) + Len(zeros) /\ p <= Len(all)
        BY <1>11, <1>14, PaddingAssumption
      <3>2. QED BY <2>1, <3>1
    <2>3. ASSUME NEW q \in Nat, Len(all) < q, q <= Len(bytes) PROVE bytes[q] = 0
      <3>1. /\ q \in 1 .. Len(all) + Len(zeros) /\ ~(q <= Len(all))
            /\ q - Len(all) \in 1 .. Padding
        BY <1>11, <1>14, <2>1, <2>3, PaddingAssumption
      <3>2. bytes[q] = zeros[q - Len(all)]
        BY <2>1, <3>1
      <3>3. QED BY <1>11, <3>1, <3>2
    <2>4. QED BY <1>11, <2>1, <2>2, <2>3
  <1>16. ASSUME NEW k \in 1 .. n
         PROVE  decodeAndShiftPointer(bytes, place[k]) = [instr |-> code[k], next |-> place[k + 1]]
    <2>1. PICK i \in Encodable : i = code[k] /\ pieces[k] = EncodeInstr(i)
      BY <1>2
    <2>2. PICK e : e = EncodeInstr(i)
      OBVIOUS
    <2>3. PICK j, m : j = k - 1 /\ m = k + 1
      OBVIOUS
    <2>4. /\ j \in 0 .. n /\ k \in 0 .. n /\ n \in 0 .. n /\ k \in 1 .. n + 1 /\ m \in 1 .. n + 1
          /\ m - 1 = k
      BY <2>3
    <2>5. PICK before, after : before = g[j] /\ after = g[k]
      OBVIOUS
    <2>6. place[k] = Len(before) /\ place[m] = Len(after)
      <3>1. place[k] = Len(g[k - 1]) /\ place[m] = Len(g[m - 1])
        BY <1>6, <2>4
      <3>2. QED BY <2>3, <2>4, <2>5, <3>1
    <2>7. e \in Seq(Nat) /\ Len(e) \in Nat /\ Len(before) \in Nat /\ Len(after) \in Nat
      <3>1. e \in Seq(Nat)
        BY <2>2, EncodedInstr
      <3>2. Len(before) \in Nat /\ Len(after) \in Nat
        BY <1>5, <2>4, <2>5
      <3>3. QED BY <3>1, <3>2
    <2>8. Len(after) = Len(before) + Len(e) /\ \A q \in 1 .. Len(e) : after[Len(before) + q] = e[q]
      <3>1. /\ Len(g[k]) = Len(g[k - 1]) + Len(pieces[k])
            /\ \A q \in 1 .. Len(pieces[k]) : g[k][Len(g[k - 1]) + q] = pieces[k][q]
        BY <1>5
      <3>2. pieces[k] = e /\ g[k - 1] = before /\ g[k] = after
        BY <2>1, <2>2, <2>3, <2>5
      <3>3. QED BY <3>1, <3>2
    <2>9. Len(after) <= Len(all) /\ \A p \in 1 .. Len(after) : all[p] = after[p]
      <3>1. CASE k = n
        BY <1>13, <2>5, <2>7, <3>1
      <3>2. CASE k # n
        <4>1. k < n
          BY <3>2
        <4>2. Len(g[k]) < Len(g[n]) /\ \A p \in 1 .. Len(g[k]) : g[n][p] = g[k][p]
          BY <1>5, <2>4, <4>1
        <4>3. Len(after) < Len(all) /\ \A p \in 1 .. Len(after) : all[p] = after[p]
          BY <1>13, <2>5, <4>2
        <4>4. QED BY <1>14, <2>7, <4>3
      <3>3. QED BY <3>1, <3>2
    <2>10. ASSUME NEW q \in 1 .. Len(e) PROVE bytes[Len(before) + q] = e[q]
      <3>1. PICK p : p = Len(before) + q
        OBVIOUS
      <3>2. p \in 1 .. Len(after) /\ p \in 1 .. Len(all)
        BY <1>14, <2>7, <2>8, <2>9, <3>1
      <3>3. bytes[p] = all[p] /\ all[p] = after[p]
        BY <1>15, <2>9, <3>2
      <3>4. after[p] = e[q]
        BY <2>8, <3>1
      <3>5. QED BY <3>1, <3>3, <3>4
    <2>11. decodeAndShiftPointer(bytes, Len(before)) = [instr |-> i, next |-> Len(before) + Len(e)]
      <3>1. PICK p \in Nat : p = Len(before)
        BY <2>7
      <3>2. p + Len(EncodeInstr(i)) <= Len(bytes)
        BY <1>14, <1>15, <2>2, <2>7, <2>8, <2>9, <3>1, PaddingAssumption
      <3>3. \A q \in 1 .. Len(EncodeInstr(i)) : bytes[p + q] = EncodeInstr(i)[q]
        BY <2>2, <2>10, <3>1
      <3>4. decodeAndShiftPointer(bytes, p) = [instr |-> i, next |-> p + Len(EncodeInstr(i))]
        BY <1>15, <3>2, <3>3, DecodesEncoded
      <3>5. QED BY <2>2, <3>1, <3>4
    <2>12. QED BY <2>1, <2>3, <2>6, <2>8, <2>11
  <1>17. ASSUME NEW p \in Nat, p >= place[n + 1]
         PROVE  decodeAndShiftPointer(bytes, p) = [instr |-> Instr("extended", 0, 0), next |-> p + 2]
    <2>1. \A q \in Nat : p < q /\ q <= Len(bytes) => bytes[q] = 0
      BY <1>14, <1>15, <1>17
    <2>2. QED BY <1>15, <2>1, DecodesZeros
  <1>18. Len(bytes) = place[n + 1] + Padding
    BY <1>14, <1>15
  <1>19. QED BY <1>8, <1>9, <1>16, <1>17, <1>18 DEF Holds

-----------------------------------------------------------------------------
Jumps(i) == IsSpecial(i, {"branch"})
Splits(i) == IsSpecial(i, {"branchIfTrue", "branchIfFalse"})
Returns(i) == isTerminator(i) /\ ~isBranch(i)

\* The offsets where control may go on behind an instruction that branches,
\* next being the one behind it.
Aims(i, next) ==
  IF Splits(i) THEN {next, i.extra} ELSE IF Jumps(i) THEN {i.extra} ELSE {}

(***************************************************************************)
(* A unit as it was emitted: place gives the offsets of the instructions   *)
(* and the one behind the last, those from lo to hi are the unit's, and    *)
(* outer are those of them that are not in a block nested in it.           *)
(***************************************************************************)
Laid(m, u, place, outer, lo, hi) ==
  LET code  == m.code
      n     == Len(code)
      behind(k) == [instr |-> code[k], next |-> place[k + 1]]
  IN  /\ n \in Nat /\ lo \in 1 .. n /\ hi \in 1 .. n /\ DOMAIN code = 1 .. n
      /\ place \in [1 .. n + 1 -> Nat]
      /\ \A j, k \in 1 .. n + 1 : j < k => place[j] < place[k]
      /\ \A k \in 1 .. n : m.starts[k] = place[k]
      /\ u[1] = place[lo]
      /\ \/ u[2] = 0 /\ hi = n
         \/ u[2] = place[hi + 1] /\ hi < n
      /\ Len(m.byteCodes) = place[n + 1] + Padding
      /\ \A k \in 1 .. n : decodeAndShiftPointer(m.byteCodes, place[k]) = behind(k)
      /\ \A p \in Nat : p >= place[n + 1] =>
           decodeAndShiftPointer(m.byteCodes, p) = [instr |-> Instr("extended", 0, 0), next |-> p + 2]
      /\ outer \subseteq lo .. hi /\ lo \in outer /\ hi \in outer /\ Returns(code[hi])
      /\ \A k \in outer :
           /\ k # hi /\ code[k].op # "pushBlock" => k + 1 \in outer
           /\ code[k].op = "pushBlock" =>
                \E j \in outer : /\ k < j /\ code[k].extra = place[j]
                                 /\ \A i \in outer : i <= k \/ j <= i
           /\ isBranch(code[k]) =>
                /\ \E t \in outer : code[k].extra = place[t]
                /\ \E c \in outer : place[k + 1] \in Aims(code[c], place[c + 1])
      /\ \A b, e \in outer :
           /\ b <= e /\ Splits(code[e])
           /\ \A k \in outer : b <= k /\ k < e => ~isTerminator(code[k])
           => Behind(m, place[b]) = place[e + 1]

\* The decoder is at an instruction of the unit or in the padding.
InStep(place, lo, hi) ==
  /\ pointer \in Nat
  /\ \/ \E k \in lo .. hi + 1 : pointer = place[k]
     \/ stopOffset = 0 /\ pointer > place[hi + 1]

\* Basic blocks begin at instructions of the unit.
BlocksOf(place, outer) ==
  /\ blocks \in Seq(Nat) /\ IsInjective(blocks)
  /\ \A b \in ToSet(blocks) : \E k \in outer : b = place[k]

\* Phase 1: the targets met are known.
Collecting(place, outer, lo, hi) ==
  /\ InStep(place, lo, hi) /\ BlocksOf(place, outer)
  /\ \A k \in 1 .. hi : pointer = place[k] => k \in outer
  /\ \A k \in outer : place[k] < pointer =>
       Aims(method.code[k], place[k + 1]) \subseteq ToSet(blocks)
  /\ current = startOffset /\ ~dead

\* All targets are known.
Divided(place, outer) ==
  /\ BlocksOf(place, outer) /\ startOffset \in ToSet(blocks)
  /\ \A k \in outer : Aims(method.code[k], place[k + 1]) \subseteq ToSet(blocks)

\* The instructions of a method, and the branches into the next block.
Emitted(m) ==
  {m.code[k] : k \in 1 .. Len(m.code)} \cup {Instr("doSpecial", Special.branch, p) : p \in Nat}

\* Tables of the blocks there are.
Tables ==
  /\ DOMAIN body = ToSet(blocks) /\ DOMAIN referers = ToSet(blocks)
  /\ \A b \in ToSet(blocks) :
       /\ body[b] \in Seq(Emitted(method))
       /\ \A k \in 1 .. Len(body[b]) - 1 : ~isTerminator(body[b][k])

\* A block that is complete.
Ended(b) ==
  /\ HasTerminator(body[b])
  /\ Successors(b) \subseteq ToSet(blocks)
  /\ Splits(Last(body[b])) => getNextBlockOffset(b, stopPointer) = Behind(method, b)

Populating(place, outer, lo, hi) ==
  /\ Divided(place, outer) /\ Tables /\ InStep(place, lo, hi)
  /\ pointer >= startOffset
  /\ ~dead => \E k \in outer : /\ pointer = place[k]
                               /\ \A j \in outer : current <= place[j] /\ j < k =>
                                    ~isTerminator(method.code[j])
  /\ current \in ToSet(blocks) /\ current <= pointer
  /\ current = pointer => pointer = startOffset
  /\ \A b \in ToSet(blocks) : ~(current < b /\ b < pointer)
  /\ dead <=> HasTerminator(body[current])
  /\ \A b \in ToSet(blocks) :
       /\ b > current => body[b] = <<>>
       /\ b < current => Ended(b)
       /\ referers[b] = {c \in ToSet(blocks) : c < current /\ b \in Successors(c)}
  /\ dead => /\ Ended(current)
             /\ isBranch(Last(body[current])) => \E b \in ToSet(blocks) : current < b

Wiping(place, outer) ==
  /\ BlocksOf(place, outer) /\ startOffset \in ToSet(blocks) /\ Tables
  /\ \A b \in ToSet(blocks) :
       /\ Ended(b)
       /\ referers[b] \cap ToSet(blocks) = {c \in ToSet(blocks) : b \in Successors(c)}
       /\ stopOffset # 0 => referers[b] \subseteq ToSet(blocks)

Divides(place, outer, lo, hi) ==
  /\ Laid(method, unit, place, outer, lo, hi)
  /\ phase = "collect" => Collecting(place, outer, lo, hi)
  /\ phase = "populate" => Populating(place, outer, lo, hi)
  /\ phase \notin {"collect", "populate"} => Wiping(place, outer)

ParseInv ==
  /\ \E place, outer, lo, hi : Divides(place, outer, lo, hi)
  /\ phase = "wipe" => cursor \in Nat \ {0}

-----------------------------------------------------------------------------
\* The numbers of the branches and returns.
LEMMA SpecialNumbers ==
  ASSUME NEW i
  PROVE  /\ Jumps(i) <=> i.op = "doSpecial" /\ i.arg = 6
         /\ Splits(i) <=> i.op = "doSpecial" /\ i.arg \in {7, 8}
         /\ isBranch(i) <=> i.op = "doSpecial" /\ i.arg \in {6, 7, 8}
         /\ Returns(i) <=> i.op = "doSpecial" /\ i.arg \in {1, 2, 3}
  <1>1. /\ Special.branch = 6 /\ Special.branchIfTrue = 7 /\ Special.branchIfFalse = 8
        /\ Special.stackReturn = 2 /\ Special.selfReturn = 1 /\ Special.blockReturn = 3
    BY DEF Special
  <1>2. QED BY <1>1 DEF Jumps, Splits, Returns, isTerminator, isBranch, IsSpecial

\* A terminator is a branch or a return, and a branch is of one kind.
LEMMA Kinds ==
  ASSUME NEW i
  PROVE  /\ isBranch(i) <=> Jumps(i) \/ Splits(i)
         /\ ~(Jumps(i) /\ Splits(i))
         /\ isTerminator(i) <=> isBranch(i) \/ Returns(i)
         /\ ~(isBranch(i) /\ Returns(i))
         /\ isTerminator(i) => i.op = "doSpecial"
  <1>1. isTerminator(i) <=> isBranch(i) \/ Returns(i)
    BY DEF isTerminator, Returns
  <1>2. QED BY <1>1, SpecialNumbers

\* What Successors() says of the kinds of terminators.
LEMMA SuccessorsOf ==
  ASSUME NEW b, HasTerminator(body[b])
  PROVE  /\ Jumps(Last(body[b])) => Successors(b) = {Last(body[b]).extra}
         /\ Splits(Last(body[b])) =>
              Successors(b) = {Last(body[b]).extra, getNextBlockOffset(b, stopPointer)}
         /\ ~isBranch(Last(body[b])) => Successors(b) = {}
  <1>1. PICK t : t = Last(body[b])
    OBVIOUS
  <1>2. Successors(b) = CASE Jumps(t) -> {t.extra}
                          [] Splits(t) -> {t.extra, getNextBlockOffset(b, stopPointer)}
                          [] OTHER -> {}
    BY <1>1, Zenon DEF Successors, Jumps, Splits
  <1>3. QED BY <1>1, <1>2, Kinds

-----------------------------------------------------------------------------
\* Where control stops, and what the decoder reads before it gets there.
LEMMA StopsBehind ==
  ASSUME NEW place, NEW outer, NEW lo, NEW hi, Laid(method, unit, place, outer, lo, hi)
  PROVE  /\ stopPointer \in Nat /\ place[hi + 1] <= stopPointer
         /\ stopOffset # 0 => stopPointer = place[hi + 1]
         /\ stopPointer = stopOffset <=> stopOffset # 0
         /\ startOffset = place[lo] /\ lo \in 1 .. hi /\ hi \in Nat /\ hi + 1 \in 1 .. Len(method.code) + 1
         /\ \A k \in 1 .. hi + 1 : place[k] \in Nat
         /\ \A j, k \in 1 .. hi + 1 : j < k => place[j] < place[k]
         /\ outer \subseteq lo .. hi /\ lo \in outer /\ hi \in outer
  <1> DEFINE n == Len(method.code)
  <1>1. /\ n \in Nat /\ lo \in 1 .. n /\ hi \in 1 .. n
        /\ place \in [1 .. n + 1 -> Nat]
        /\ \A j, k \in 1 .. n + 1 : j < k => place[j] < place[k]
        /\ unit[1] = place[lo]
        /\ \/ unit[2] = 0 /\ hi = n
           \/ unit[2] = place[hi + 1] /\ hi < n
        /\ Len(method.byteCodes) = place[n + 1] + Padding
        /\ outer \subseteq lo .. hi /\ lo \in outer /\ hi \in outer
    BY DEF Laid
  <1>2. hi + 1 \in 1 .. n + 1 /\ \A k \in 1 .. hi + 1 : k \in 1 .. n + 1
    BY <1>1
  <1>3. \A k \in 1 .. hi + 1 : place[k] \in Nat
    BY <1>1, <1>2
  <1>4. place[1] < place[hi + 1] /\ place[hi + 1] # 0 /\ n + 1 \in 1 .. n + 1
    <2>1. 1 \in 1 .. n + 1 /\ 1 < hi + 1 /\ 1 \in 1 .. hi + 1 /\ hi + 1 \in 1 .. hi + 1
      BY <1>1
    <2>2. QED BY <1>1, <1>2, <1>3, <2>1
  <1>5. CASE unit[2] = 0 /\ hi = n
    <2>1. stopOffset = 0 /\ stopPointer = place[n + 1] + Padding
      BY <1>1, <1>5 DEF stopOffset, stopPointer, Bytes
    <2>2. place[n + 1] \in Nat
      BY <1>1, <1>4
    <2>3. stopPointer # 0
      BY <1>4, <1>5, <2>1, <2>2, PaddingAssumption
    <2>4. QED BY <1>1, <1>2, <1>3, <1>5, <2>1, <2>2, <2>3, PaddingAssumption DEF startOffset
  <1>6. CASE unit[2] = place[hi + 1] /\ hi < n
    <2>1. stopOffset = place[hi + 1] /\ stopPointer = place[hi + 1]
      BY <1>4, <1>6 DEF stopOffset, stopPointer
    <2>2. QED BY <1>1, <1>2, <1>3, <1>4, <2>1 DEF startOffset
  <1>7. QED BY <1>1, <1>5, <1>6

\* The offsets ascend with the instructions.
LEMMA PlacesAscend ==
  ASSUME NEW place, NEW outer, NEW lo, NEW hi, Laid(method, unit, place, outer, lo, hi),
         NEW j \in 1 .. hi + 1, NEW k \in 1 .. hi + 1
  PROVE  /\ place[j] \in Nat /\ place[k] \in Nat
         /\ place[j] = place[k] <=> j = k
         /\ place[j] < place[k] <=> j < k
         /\ place[j] <= place[k] <=> j <= k
  <1>1. PICK p, q : p = place[j] /\ q = place[k]
    OBVIOUS
  <1>2. /\ p \in Nat /\ q \in Nat /\ hi \in Nat
        /\ j < k => p < q
        /\ k < j => q < p
    BY <1>1, StopsBehind
  <1>3. j = k => p = q
    BY <1>1
  <1>4. QED BY <1>1, <1>2, <1>3

\* What decodeAndShiftPointer() reads in a unit: its instruction, or zeros behind it.
LEMMA DecodedHere ==
  ASSUME NEW place, NEW outer, NEW lo, NEW hi, Laid(method, unit, place, outer, lo, hi),
         InStep(place, lo, hi), pointer < stopPointer
  PROVE  \/ \E k \in lo .. hi : /\ pointer = place[k] /\ Decoded.instr = method.code[k]
                                /\ Decoded.next = place[k + 1]
         \/ /\ stopOffset = 0 /\ pointer >= place[hi + 1]
            /\ Decoded.instr = Instr("extended", 0, 0) /\ Decoded.next = pointer + 2
  <1> DEFINE n == Len(method.code)
  <1>1. /\ lo \in 1 .. n /\ hi \in 1 .. n
        /\ \A k \in 1 .. n : decodeAndShiftPointer(method.byteCodes, place[k])
                               = [instr |-> method.code[k], next |-> place[k + 1]]
        /\ \A p \in Nat : p >= place[n + 1] =>
             decodeAndShiftPointer(method.byteCodes, p)
               = [instr |-> Instr("extended", 0, 0), next |-> p + 2]
        /\ unit[2] = 0 => hi = n
    <2>1. n \in Nat
      BY DEF Laid
    <2>2. unit[2] # 0 \/ hi = n
      <3>1. place[hi + 1] # 0
        <4>1. /\ lo \in 1 .. hi /\ hi \in Nat /\ \A k \in 1 .. hi + 1 : place[k] \in Nat
              /\ \A j, k \in 1 .. hi + 1 : j < k => place[j] < place[k]
          BY StopsBehind
        <4>2. lo \in 1 .. hi + 1 /\ hi + 1 \in 1 .. hi + 1 /\ lo < hi + 1
          BY <4>1
        <4>3. QED BY <4>1, <4>2
      <3>2. QED BY <3>1 DEF Laid
    <2>3. QED BY <2>1, <2>2 DEF Laid
  <1>2. Decoded = decodeAndShiftPointer(method.byteCodes, pointer)
    BY DEF Decoded, Bytes
  <1>3. CASE \E k \in lo .. hi : pointer = place[k]
    <2>1. PICK k \in lo .. hi : pointer = place[k]
      BY <1>3
    <2>2. k \in 1 .. n
      BY <1>1
    <2>3. Decoded = [instr |-> method.code[k], next |-> place[k + 1]]
      BY <1>1, <1>2, <2>1, <2>2
    <2>4. QED BY <2>1, <2>3
  <1>4. CASE ~\E k \in lo .. hi : pointer = place[k]
    <2>1. pointer \in Nat /\ (pointer = place[hi + 1] \/ (stopOffset = 0 /\ pointer > place[hi + 1]))
      <3>1. \A k \in lo .. hi + 1 : k \in lo .. hi \/ k = hi + 1
        BY StopsBehind
      <3>1a. pointer \in Nat
        BY DEF InStep
      <3>2. CASE \E k \in lo .. hi + 1 : pointer = place[k]
        <4>1. PICK k \in lo .. hi + 1 : pointer = place[k]
          BY <3>2
        <4>2. k = hi + 1
          BY <1>4, <3>1, <4>1
        <4>3. QED BY <3>1a, <4>1, <4>2
      <3>3. QED BY <3>1a, <3>2 DEF InStep
    <2>2. stopOffset = 0
      BY <2>1, StopsBehind
    <2>3. hi = n /\ place[n + 1] \in Nat
      <3>1. hi = n
        BY <1>1, <2>2 DEF stopOffset
      <3>2. hi + 1 \in 1 .. hi + 1
        BY <1>1
      <3>3. QED BY <3>1, <3>2, StopsBehind
    <2>4. pointer >= place[n + 1]
      BY <2>1, <2>3
    <2>5. Decoded = [instr |-> Instr("extended", 0, 0), next |-> pointer + 2]
      BY <1>1, <1>2, <2>1, <2>4
    <2>6. QED BY <2>2, <2>3, <2>4, <2>5
  <1>5. QED BY <1>3, <1>4

\* Where control goes on in the unit behind an instruction that is no branch.
LEMMA NextOuter ==
  ASSUME NEW place, NEW outer, NEW lo, NEW hi, Laid(method, unit, place, outer, lo, hi),
         NEW k \in outer
  PROVE  \E q \in lo .. hi + 1 :
           /\ k < q /\ \A i \in outer : i <= k \/ q <= i
           /\ q \in outer \/ (k = hi /\ q = hi + 1)
           /\ place[q] = IF method.code[k].op = "pushBlock" THEN method.code[k].extra
                         ELSE place[k + 1]
  <1>1. /\ lo \in 1 .. hi /\ hi \in Nat /\ outer \subseteq lo .. hi
    BY StopsBehind
  <1>2. CASE method.code[k].op = "pushBlock"
    <2>1. PICK j \in outer : /\ k < j /\ method.code[k].extra = place[j]
                             /\ \A i \in outer : i <= k \/ j <= i
      BY <1>2 DEF Laid
    <2>2. QED BY <1>1, <1>2, <2>1
  <1>3. CASE method.code[k].op # "pushBlock"
    <2>1. k # hi => k + 1 \in outer
      BY <1>3 DEF Laid
    <2>2. k \in Nat /\ k + 1 \in lo .. hi + 1 /\ k < k + 1 /\ \A i \in outer : i <= k \/ k + 1 <= i
      BY <1>1
    <2>3. QED BY <1>3, <2>1, <2>2
  <1>4. QED BY <1>2, <1>3

\* Branches lead to instructions of the unit, and so do the ways past them.
LEMMA AimsOuter ==
  ASSUME NEW place, NEW outer, NEW lo, NEW hi, Laid(method, unit, place, outer, lo, hi),
         NEW k \in outer, NEW b \in Aims(method.code[k], place[k + 1])
  PROVE  \E t \in outer : b = place[t]
  <1> DEFINE i == method.code[k]
  <1>1. isBranch(i)
    BY Kinds DEF Aims
  <1>2. \E t \in outer : i.extra = place[t]
    BY <1>1 DEF Laid
  <1>3. k # hi /\ i.op # "pushBlock"
    <2>1. Returns(method.code[hi])
      BY DEF Laid
    <2>2. QED BY <1>1, <2>1, SpecialNumbers
  <1>4. k + 1 \in outer
    BY <1>3 DEF Laid
  <1>5. b = i.extra \/ b = place[k + 1]
    BY DEF Aims
  <1>6. QED BY <1>2, <1>4, <1>5

\* createBasicBlock() adds an offset once.
LEMMA CreatedBlock ==
  ASSUME NEW list \in Seq(Nat), IsInjective(list), NEW offset \in Nat
  PROVE  LET created == createBasicBlock(list, offset)
         IN  /\ created \in Seq(Nat) /\ IsInjective(created)
             /\ ToSet(created) = ToSet(list) \cup {offset}
  <1>1. CASE offset \in ToSet(list)
    BY <1>1 DEF createBasicBlock
  <1>2. CASE offset \notin ToSet(list)
    <2>1. PICK s : s = Append(list, offset)
      OBVIOUS
    <2>2. /\ s \in Seq(Nat) /\ Len(s) = Len(list) + 1 /\ s[Len(list) + 1] = offset
          /\ DOMAIN s = 1 .. Len(list) + 1 /\ DOMAIN list = 1 .. Len(list) /\ Len(list) \in Nat
          /\ \A k \in 1 .. Len(list) : s[k] = list[k]
      BY <2>1
    <2>3. \A k \in 1 .. Len(list) : s[k] # offset
      BY <1>2, <2>2 DEF ToSet
    <2>4. IsInjective(s)
      <3>1. ASSUME NEW a \in DOMAIN s, NEW c \in DOMAIN s, s[a] = s[c] PROVE a = c
        <4>1. (a \in 1 .. Len(list) \/ a = Len(list) + 1) /\ (c \in 1 .. Len(list) \/ c = Len(list) + 1)
          BY <2>2
        <4>2. \A x, y \in 1 .. Len(list) : list[x] = list[y] => x = y
          BY <2>2 DEF IsInjective
        <4>3. QED BY <2>2, <2>3, <3>1, <4>1, <4>2
      <3>2. QED BY <3>1 DEF IsInjective
    <2>5. ToSet(s) = ToSet(list) \cup {offset}
      <3>1. \A x \in ToSet(s) : x \in ToSet(list) \cup {offset}
        BY <2>2 DEF ToSet
      <3>2. \A x \in ToSet(list) : x \in ToSet(s)
        BY <2>2 DEF ToSet
      <3>3. offset \in ToSet(s)
        BY <2>2 DEF ToSet
      <3>4. QED BY <3>1, <3>2, <3>3
    <2>6. QED BY <1>2, <2>1, <2>2, <2>4, <2>5 DEF createBasicBlock
  <1>3. QED BY <1>1, <1>2

\* The parser begins with no blocks and the first instruction.
LEMMA ParseInitDivides ==
  ASSUME NEW place, NEW outer, NEW lo, NEW hi, Laid(method, unit, place, outer, lo, hi),
         ParseInit
  PROVE  Divides(place, outer, lo, hi)
  <1>1. /\ phase = "collect" /\ pointer = place[lo] /\ blocks = <<>>
        /\ current = startOffset /\ dead = FALSE
    BY StopsBehind DEF ParseInit, startOffset
  <1>2. /\ startOffset = place[lo] /\ lo \in 1 .. hi /\ hi \in Nat
        /\ \A k \in 1 .. hi + 1 : place[k] \in Nat
        /\ \A j, k \in 1 .. hi + 1 : j < k => place[j] < place[k]
        /\ outer \subseteq lo .. hi /\ lo \in outer
    BY StopsBehind
  <1>3. InStep(place, lo, hi)
    BY <1>1, <1>2 DEF InStep
  <1>4. BlocksOf(place, outer)
    BY <1>1 DEF BlocksOf, IsInjective, ToSet
  <1>5. ASSUME NEW k \in 1 .. hi, pointer = place[k] PROVE k \in outer
    <2>1. k \in 1 .. hi + 1 /\ lo \in 1 .. hi + 1 /\ (k = lo \/ k < lo \/ lo < k)
      BY <1>2
    <2>2. place[k] = place[lo] <=> k = lo
      BY <2>1, PlacesAscend
    <2>2a. k = lo
      BY <1>1, <1>5, <2>2
    <2>3. QED BY <1>2, <2>2a
  <1>6. ASSUME NEW k \in outer PROVE ~(place[k] < pointer)
    <2>1. k \in 1 .. hi + 1 /\ lo \in 1 .. hi + 1 /\ (k = lo \/ lo < k)
      BY <1>2
    <2>2. QED BY <1>1, <1>2, <2>1
  <1>7. Collecting(place, outer, lo, hi)
    BY <1>1, <1>3, <1>4, <1>5, <1>6 DEF Collecting
  <1>8. QED BY <1>1, <1>7 DEF Divides

\* A turn of the loop of phase 1 adds the targets of the instruction it passes.
LEMMA CollectStep ==
  ASSUME NEW place, NEW outer, NEW lo, NEW hi, Divides(place, outer, lo, hi), Collect
  PROVE  Divides(place, outer, lo, hi)'
  <1> DEFINE i == Decoded.instr
             known == ToSet(blocks)
  <1>1. /\ phase = "collect" /\ phase' = "collect" /\ pointer < stopPointer
        /\ pointer' = IF i.op = "pushBlock" THEN i.extra ELSE Decoded.next
        /\ blocks' = IF Splits(i)
                     THEN createBasicBlock(createBasicBlock(blocks, Decoded.next), i.extra)
                     ELSE IF Jumps(i) THEN createBasicBlock(blocks, i.extra) ELSE blocks
        /\ method' = method /\ unit' = unit /\ current' = current /\ dead' = dead
    <2>1. blocks' = CASE Splits(i) -> createBasicBlock(createBasicBlock(blocks, Decoded.next), i.extra)
                      [] Jumps(i) -> createBasicBlock(blocks, i.extra)
                      [] OTHER -> blocks
      BY Zenon DEF Collect, Splits, Jumps
    <2>2. QED BY <2>1, Kinds DEF Collect
  <1>2. Laid(method, unit, place, outer, lo, hi) /\ Collecting(place, outer, lo, hi)
    BY <1>1 DEF Divides
  <1>3. Laid(method', unit', place, outer, lo, hi)
    BY <1>1, <1>2
  <1>4. startOffset' = startOffset /\ stopOffset' = stopOffset
    BY <1>1 DEF startOffset, stopOffset
  <1>5. /\ lo \in 1 .. hi /\ hi \in Nat
        /\ \A k \in 1 .. hi + 1 : place[k] \in Nat
        /\ \A j, k \in 1 .. hi + 1 : j < k => place[j] < place[k]
        /\ outer \subseteq lo .. hi /\ lo \in outer
    BY <1>2, StopsBehind
  <1>6. /\ InStep(place, lo, hi) /\ BlocksOf(place, outer)
        /\ \A k \in 1 .. hi : pointer = place[k] => k \in outer
        /\ \A k \in outer : place[k] < pointer =>
             Aims(method.code[k], place[k + 1]) \subseteq known
        /\ current = startOffset /\ ~dead
    BY <1>2 DEF Collecting
  <1>7. CASE \E k \in lo .. hi : /\ pointer = place[k] /\ i = method.code[k]
                                 /\ Decoded.next = place[k + 1]
    <2>1. PICK k \in lo .. hi : pointer = place[k] /\ i = method.code[k] /\ Decoded.next = place[k + 1]
      BY <1>7
    <2>2. k \in outer
      BY <1>5, <1>6, <2>1
    <2>3. PICK q \in lo .. hi + 1 :
            /\ k < q /\ \A j \in outer : j <= k \/ q <= j
            /\ q \in outer \/ (k = hi /\ q = hi + 1)
            /\ place[q] = IF method.code[k].op = "pushBlock" THEN method.code[k].extra
                          ELSE place[k + 1]
      BY <1>2, <2>2, NextOuter
    <2>4. pointer' = place[q] /\ q \in 1 .. hi + 1 /\ k \in 1 .. hi + 1
      BY <1>1, <1>5, <2>1, <2>3
    <2>5. InStep(place, lo, hi)'
      BY <1>5, <2>3, <2>4 DEF InStep
    <2>6. ASSUME NEW j \in 1 .. hi, pointer' = place[j] PROVE j \in outer
      <3>1. j \in 1 .. hi + 1 /\ (j = q \/ j < q \/ q < j)
        BY <1>5, <2>3
      <3>1a. place[j] = place[q] <=> j = q
        BY <1>2, <2>4, <3>1, PlacesAscend
      <3>2. j = q
        BY <2>4, <2>6, <3>1a
      <3>3. QED BY <1>5, <2>3, <3>2
    <2>7. Aims(i, Decoded.next) \subseteq {b \in Nat : \E t \in outer : b = place[t]}
      <3>1. ASSUME NEW b \in Aims(i, Decoded.next) PROVE b \in Nat /\ \E t \in outer : b = place[t]
        <4>1. PICK t \in outer : b = place[t]
          <5>1. b \in Aims(method.code[k], place[k + 1])
            BY <2>1, <3>1
          <5>2. QED BY <1>2, <2>2, <5>1, AimsOuter
        <4>2. t \in 1 .. hi + 1
          BY <1>5
        <4>3. QED BY <1>5, <4>1, <4>2
      <3>2. QED BY <3>1
    <2>8. /\ blocks' \in Seq(Nat) /\ IsInjective(blocks')
          /\ ToSet(blocks') = known \cup Aims(i, Decoded.next)
      <3>0. blocks \in Seq(Nat) /\ IsInjective(blocks)
        BY <1>6 DEF BlocksOf
      <3>1. CASE Splits(i)
        <4>1. Aims(i, Decoded.next) = {Decoded.next, i.extra}
          BY <3>1 DEF Aims
        <4>2. Decoded.next \in Nat /\ i.extra \in Nat
          BY <2>7, <4>1
        <4>3. PICK list : list = createBasicBlock(blocks, Decoded.next)
          OBVIOUS
        <4>4. /\ list \in Seq(Nat) /\ IsInjective(list)
              /\ ToSet(list) = known \cup {Decoded.next}
          BY <3>0, <4>2, <4>3, CreatedBlock
        <4>5. blocks' = createBasicBlock(list, i.extra)
          BY <1>1, <3>1, <4>3
        <4>6. /\ blocks' \in Seq(Nat) /\ IsInjective(blocks')
              /\ ToSet(blocks') = ToSet(list) \cup {i.extra}
          BY <4>2, <4>4, <4>5, CreatedBlock
        <4>7. QED BY <4>1, <4>4, <4>6
      <3>2. CASE Jumps(i) /\ ~Splits(i)
        <4>1. Aims(i, Decoded.next) = {i.extra}
          BY <3>2 DEF Aims
        <4>2. i.extra \in Nat
          BY <2>7, <4>1
        <4>3. QED BY <1>1, <3>0, <3>2, <4>1, <4>2, CreatedBlock
      <3>3. CASE ~Jumps(i) /\ ~Splits(i)
        <4>1. Aims(i, Decoded.next) = {}
          BY <3>3 DEF Aims
        <4>2. QED BY <1>1, <3>0, <3>3, <4>1
      <3>4. QED BY <3>1, <3>2, <3>3
    <2>9. BlocksOf(place, outer)'
      BY <1>6, <2>7, <2>8 DEF BlocksOf
    <2>10. ASSUME NEW j \in outer, place[j] < pointer'
           PROVE  Aims(method.code[j], place[j + 1]) \subseteq ToSet(blocks')
      <3>1. j \in 1 .. hi + 1 /\ (j < k \/ j = k \/ q <= j)
        BY <1>5, <2>3
      <3>2. j < k \/ j = k
        <4>1. ~(q <= j)
          <5>1. q <= j => q = j \/ q < j
            BY <1>5, <2>3, <3>1
          <5>2. place[j] \in Nat /\ place[q] \in Nat
            BY <1>5, <2>4, <3>1
          <5>3. QED BY <1>5, <2>4, <2>10, <3>1, <5>1, <5>2
        <4>2. QED BY <3>1, <4>1
      <3>3. CASE j < k
        <4>1. place[j] < pointer
          BY <1>5, <2>1, <2>4, <3>1, <3>3
        <4>2. QED BY <1>6, <2>8, <4>1
      <3>4. CASE j = k
        BY <2>1, <2>8, <3>4
      <3>5. QED BY <3>2, <3>3, <3>4
    <2>11. Collecting(place, outer, lo, hi)'
      BY <1>1, <1>4, <1>6, <2>5, <2>6, <2>9, <2>10 DEF Collecting
    <2>12. QED BY <1>1, <1>3, <2>11 DEF Divides
  <1>8. CASE /\ stopOffset = 0 /\ pointer >= place[hi + 1]
             /\ i = Instr("extended", 0, 0) /\ Decoded.next = pointer + 2
    <2>1. i.op = "extended" /\ ~Splits(i) /\ ~Jumps(i)
      BY <1>8, SpecialNumbers DEF Instr
    <2>2. pointer' = pointer + 2 /\ blocks' = blocks /\ pointer \in Nat
      BY <1>1, <1>6, <1>8, <2>1 DEF InStep
    <2>3. place[hi + 1] \in Nat /\ pointer' > place[hi + 1] /\ pointer' \in Nat
      <3>1. hi + 1 \in 1 .. hi + 1
        BY <1>5
      <3>2. QED BY <1>5, <1>8, <2>2, <3>1
    <2>4. InStep(place, lo, hi)'
      BY <1>4, <1>8, <2>3 DEF InStep
    <2>5. \A k \in 1 .. hi : place[k] < place[hi + 1] /\ place[k] \in Nat /\ place[k] < pointer
      <3>1. ASSUME NEW k \in 1 .. hi PROVE place[k] < place[hi + 1] /\ place[k] \in Nat
        <4>1. k \in 1 .. hi + 1 /\ hi + 1 \in 1 .. hi + 1 /\ k < hi + 1
          BY <1>5
        <4>2. QED BY <1>5, <4>1
      <3>2. QED BY <1>8, <2>2, <2>3, <3>1
    <2>6. \A k \in 1 .. hi : pointer' # place[k]
      BY <2>2, <2>5
    <2>7. \A k \in outer : Aims(method.code[k], place[k + 1]) \subseteq known
      <3>1. \A k \in outer : k \in 1 .. hi
        BY <1>5
      <3>2. QED BY <1>6, <2>5, <3>1
    <2>8. BlocksOf(place, outer)'
      BY <1>6, <2>2 DEF BlocksOf
    <2>9. Collecting(place, outer, lo, hi)'
      BY <1>1, <1>4, <1>6, <2>2, <2>4, <2>6, <2>7, <2>8 DEF Collecting
    <2>10. QED BY <1>1, <1>3, <2>9 DEF Divides
  <1>9. QED BY <1>1, <1>2, <1>6, <1>7, <1>8, DecodedHere

\* A block put in front of the list.
LEMMA PrependedBlock ==
  ASSUME NEW list \in Seq(Nat), IsInjective(list), NEW offset \in Nat, offset \notin ToSet(list)
  PROVE  /\ <<offset>> \o list \in Seq(Nat) /\ IsInjective(<<offset>> \o list)
         /\ ToSet(<<offset>> \o list) = ToSet(list) \cup {offset}
  <1>1. PICK s : s = <<offset>> \o list
    OBVIOUS
  <1>2. /\ s \in Seq(Nat) /\ Len(s) = Len(list) + 1 /\ s[1] = offset
        /\ DOMAIN s = 1 .. Len(list) + 1 /\ DOMAIN list = 1 .. Len(list) /\ Len(list) \in Nat
        /\ \A k \in 1 .. Len(list) : s[k + 1] = list[k]
    BY <1>1
  <1>3. \A k \in DOMAIN s : k = 1 \/ (k - 1 \in 1 .. Len(list) /\ s[k] = list[k - 1])
    <2>1. ASSUME NEW k \in DOMAIN s, k # 1 PROVE k - 1 \in 1 .. Len(list) /\ s[k] = list[k - 1]
      <3>1. k - 1 \in 1 .. Len(list) /\ (k - 1) + 1 = k
        BY <1>2, <2>1
      <3>2. s[(k - 1) + 1] = list[k - 1]
        BY <1>2, <3>1
      <3>3. QED BY <3>1, <3>2
    <2>2. QED BY <2>1
  <1>4. \A k \in 1 .. Len(list) : list[k] # offset
    BY <1>2 DEF ToSet
  <1>5. IsInjective(s)
    <2>1. ASSUME NEW a \in DOMAIN s, NEW c \in DOMAIN s, s[a] = s[c] PROVE a = c
      <3>1. \A x, y \in 1 .. Len(list) : list[x] = list[y] => x = y
        BY <1>2 DEF IsInjective
      <3>2. a \in Int /\ c \in Int
        BY <1>2
      <3>3. (a = 1 /\ c = 1) \/ (a # 1 /\ c # 1)
        BY <1>2, <1>3, <1>4, <2>1
      <3>4. CASE a # 1 /\ c # 1
        <4>1. a - 1 = c - 1
          BY <1>3, <2>1, <3>1, <3>4
        <4>2. QED BY <3>2, <4>1
      <3>5. QED BY <3>3, <3>4
    <2>2. QED BY <2>1 DEF IsInjective
  <1>6. ToSet(s) = ToSet(list) \cup {offset}
    <2>1. \A x \in ToSet(s) : x \in ToSet(list) \cup {offset}
      <3>1. ASSUME NEW k \in DOMAIN s PROVE s[k] \in ToSet(list) \cup {offset}
        BY <1>2, <1>3 DEF ToSet
      <3>2. QED BY <3>1 DEF ToSet
    <2>2. \A x \in ToSet(list) : x \in ToSet(s)
      <3>1. ASSUME NEW k \in 1 .. Len(list) PROVE list[k] \in ToSet(s)
        <4>1. k + 1 \in DOMAIN s
          BY <1>2
        <4>2. QED BY <1>2, <4>1 DEF ToSet
      <3>2. QED BY <1>2, <3>1 DEF ToSet
    <2>3. offset \in ToSet(s)
      BY <1>2 DEF ToSet
    <2>4. QED BY <2>1, <2>2, <2>3
  <1>7. QED BY <1>1, <1>2, <1>5, <1>6

\* When phase 1 is over all targets are known, and the unit's own start.
LEMMA StartPopulatingStep ==
  ASSUME NEW place, NEW outer, NEW lo, NEW hi, Divides(place, outer, lo, hi), StartPopulating
  PROVE  Divides(place, outer, lo, hi)'
  <1>1. /\ phase = "collect" /\ phase' = "populate" /\ pointer >= stopPointer
        /\ pointer' = startOffset
        /\ blocks' = IF startOffset \in ToSet(blocks) THEN blocks ELSE <<startOffset>> \o blocks
        /\ body' = [b \in ToSet(blocks') |-> <<>>]
        /\ referers' = [b \in ToSet(blocks') |-> {}]
        /\ method' = method /\ unit' = unit /\ current' = current /\ dead' = dead
    BY DEF StartPopulating, Known
  <1>2. Laid(method, unit, place, outer, lo, hi) /\ Collecting(place, outer, lo, hi)
    BY <1>1 DEF Divides
  <1>3. Laid(method', unit', place, outer, lo, hi)
    BY <1>1, <1>2
  <1>4. startOffset' = startOffset /\ stopOffset' = stopOffset
    BY <1>1 DEF startOffset, stopOffset
  <1>5. /\ lo \in 1 .. hi /\ hi \in Nat /\ startOffset = place[lo]
        /\ \A k \in 1 .. hi + 1 : place[k] \in Nat
        /\ outer \subseteq lo .. hi /\ lo \in outer
        /\ stopPointer \in Nat /\ place[hi + 1] <= stopPointer
    BY <1>2, StopsBehind
  <1>6. /\ pointer \in Nat /\ BlocksOf(place, outer)
        /\ \A k \in outer : place[k] < pointer =>
             Aims(method.code[k], place[k + 1]) \subseteq ToSet(blocks)
        /\ current = startOffset /\ ~dead
    BY <1>2 DEF Collecting, InStep
  <1>7. \A k \in outer : k \in 1 .. hi + 1 /\ lo \in 1 .. hi + 1 /\ hi + 1 \in 1 .. hi + 1
                         /\ k < hi + 1 /\ ~(k < lo)
    BY <1>5
  <1>8. \A k \in outer : place[k] < place[hi + 1] /\ ~(place[k] < place[lo])
    BY <1>2, <1>7, PlacesAscend
  <1>9. \A k \in outer : Aims(method.code[k], place[k + 1]) \subseteq ToSet(blocks)
    <2>1. \A k \in outer : place[k] < pointer
      <3>1. place[hi + 1] \in Nat /\ \A k \in outer : place[k] \in Nat
        BY <1>5, <1>7
      <3>2. QED BY <1>1, <1>5, <1>6, <1>8, <3>1
    <2>2. QED BY <1>6, <2>1
  <1>10. startOffset \in Nat
    BY <1>5, <1>7
  <1>11. /\ blocks' \in Seq(Nat) /\ IsInjective(blocks')
         /\ ToSet(blocks') = ToSet(blocks) \cup {startOffset}
    <2>1. blocks \in Seq(Nat) /\ IsInjective(blocks)
      BY <1>6 DEF BlocksOf
    <2>2. CASE startOffset \in ToSet(blocks)
      BY <1>1, <2>1, <2>2
    <2>3. CASE startOffset \notin ToSet(blocks)
      BY <1>1, <1>10, <2>1, <2>3, PrependedBlock
    <2>4. QED BY <2>2, <2>3
  <1>12. BlocksOf(place, outer)'
    BY <1>5, <1>6, <1>11 DEF BlocksOf
  <1>13. Divided(place, outer)'
    BY <1>1, <1>4, <1>9, <1>11, <1>12 DEF Divided
  <1>14. Tables'
    <2>1. \A b \in ToSet(blocks') : body'[b] = <<>>
      BY <1>1
    <2>2. <<>> \in Seq(Emitted(method')) /\ Len(<<>>) = 0
      OBVIOUS
    <2>3. QED BY <1>1, <2>1, <2>2 DEF Tables
  <1>15. InStep(place, lo, hi)'
    <2>1. lo \in lo .. hi + 1
      BY <1>5
    <2>2. QED BY <1>1, <1>5, <1>10, <2>1 DEF InStep
  <1>16. \A b \in ToSet(blocks') : ~(b < current')
    <2>1. ASSUME NEW b \in ToSet(blocks') PROVE ~(b < current')
      <3>1. PICK k \in outer : b = place[k]
        BY <1>12 DEF BlocksOf
      <3>2. QED BY <1>1, <1>5, <1>6, <1>8, <3>1
    <2>2. QED BY <2>1
  <1>17. \A j \in outer : ~(j < lo)
    BY <1>5
  <1>18. Populating(place, outer, lo, hi)'
    <2>1. ~dead' => \E k \in outer : /\ pointer' = place[k]
                                     /\ \A j \in outer : current' <= place[j] /\ j < k =>
                                          ~isTerminator(method'.code[j])
      BY <1>1, <1>5, <1>17
    <2>2. current' \in ToSet(blocks') /\ current' <= pointer' /\ pointer' = startOffset'
      BY <1>1, <1>4, <1>6, <1>10, <1>11
    <2>3. body'[current'] = <<>> /\ ~HasTerminator(body'[current'])
      BY <1>1, <2>2 DEF HasTerminator
    <2>4. \A b \in ToSet(blocks') : ~(current' < b /\ b < pointer')
      <3>1. \A b \in ToSet(blocks') : b \in Nat
        BY <1>5, <1>7, <1>12 DEF BlocksOf
      <3>2. current' = pointer' /\ current' \in Nat
        BY <1>1, <1>6, <1>10
      <3>3. QED BY <3>1, <3>2
    <2>5. ~dead'
      BY <1>1, <1>6
    <2>6. \A b \in ToSet(blocks') :
            /\ b > current' => body'[b] = <<>>
            /\ b < current' => Ended(b)'
            /\ referers'[b] = {c \in ToSet(blocks') : c < current' /\ b \in Successors(c)'}
      BY <1>1, <1>16
    <2>7. pointer' >= startOffset'
      BY <1>1, <1>4, <1>10
    <2>8. QED BY <1>13, <1>14, <1>15, <2>1, <2>2, <2>3, <2>4, <2>5, <2>6, <2>7 DEF Populating
  <1>19. QED BY <1>1, <1>3, <1>18 DEF Divides

-----------------------------------------------------------------------------
\* The block behind another is the next one if none lies between.
LEMMA NextBlockIs ==
  ASSUME NEW b \in Nat, NEW x \in ToSet(blocks), NEW limit \in Nat, x \in Nat, b < x, x < limit,
         \A c \in ToSet(blocks) : c \in Nat /\ ~(b < c /\ c < x)
  PROVE  getNextBlockOffset(b, limit) = x
  <1> DEFINE after == {c \in ToSet(blocks) : b < c /\ c < limit}
  <1>1. x \in after /\ \A c \in after : x <= c
    OBVIOUS
  <1>2. \A y \in after : (\A c \in after : y <= c) => y = x
    BY <1>1
  <1>3. x = CHOOSE y \in after : \A c \in after : y <= c
    BY <1>1, <1>2
  <1>4. after # {}
    BY <1>1
  <1>5. QED BY <1>3, <1>4 DEF getNextBlockOffset

\* What is said of a block stays true while neither it nor the list changes.
LEMMA BlockKept ==
  ASSUME NEW b, body'[b] = body[b], blocks' = blocks, method' = method, unit' = unit
  PROVE  /\ Successors(b)' = Successors(b)
         /\ HasTerminator(body[b])' = HasTerminator(body[b])
         /\ Ended(b) => Ended(b)'
  <1>1. stopPointer' = stopPointer
    BY DEF stopPointer, stopOffset, Bytes
  <1>2. \A limit : getNextBlockOffset(b, limit)' = getNextBlockOffset(b, limit)
    BY DEF getNextBlockOffset
  <1>3. getNextBlockOffset(b, stopPointer)' = getNextBlockOffset(b, stopPointer)
    BY <1>1 DEF getNextBlockOffset
  <1>4. HasTerminator(body[b])' = HasTerminator(body[b])
    BY DEF HasTerminator
  <1>5. Successors(b)' = Successors(b)
    BY <1>3, <1>4 DEF Successors
  <1>6. QED BY <1>3, <1>4, <1>5 DEF Ended

\* The last of some instructions.
LEMMA AppendedLast ==
  ASSUME NEW S, NEW old \in Seq(S), NEW i \in S
  PROVE  /\ Append(old, i) \in Seq(S) /\ Last(Append(old, i)) = i
         /\ Len(Append(old, i)) = Len(old) + 1
         /\ HasTerminator(Append(old, i)) <=> isTerminator(i)
         /\ (\A n \in 1 .. Len(old) : ~isTerminator(old[n])) =>
              \A n \in 1 .. Len(Append(old, i)) - 1 : ~isTerminator(Append(old, i)[n])
  <1>1. PICK s : s = Append(old, i)
    OBVIOUS
  <1>2. /\ s \in Seq(S) /\ Len(s) = Len(old) + 1 /\ Len(old) \in Nat /\ s[Len(s)] = i
        /\ \A n \in 1 .. Len(old) : s[n] = old[n]
    BY <1>1
  <1>3. Last(s) = i /\ s # <<>>
    BY <1>2 DEF Last
  <1>4. QED BY <1>1, <1>2, <1>3 DEF HasTerminator

(***************************************************************************)
(* The k-th instruction is put into the block that begins with the b-th    *)
(* and has the instructions old.  It has no terminator, so control ran     *)
(* through from where the block begins.                                    *)
(***************************************************************************)
Adds(place, outer, b, k, old) ==
  /\ Divided(place, outer) /\ blocks' = blocks /\ method' = method /\ unit' = unit
  /\ b <= k /\ place[b] \in ToSet(blocks)
  /\ \A x \in ToSet(blocks) : ~(place[b] < x /\ x <= place[k])
  /\ \A j \in outer : b <= j /\ j < k => ~isTerminator(method.code[j])
  /\ old \in Seq(Emitted(method)) /\ \A n \in 1 .. Len(old) : ~isTerminator(old[n])
  /\ body'[place[b]] = Append(old, method.code[k])
  /\ pointer' = IF method.code[k].op = "pushBlock" THEN method.code[k].extra
                ELSE place[k + 1]

\* What a live instruction leaves: a block that is complete if it ends here, and
\* a pointer at the instruction control meets next, with no block passed over.
LEMMA InstructionAdded ==
  ASSUME NEW place, NEW outer, NEW lo, NEW hi, Laid(method, unit, place, outer, lo, hi),
         NEW b \in outer, NEW k \in outer, NEW old,
         Adds(place, outer, b, k, old)
  PROVE  LET here == place[b]
             added == body'[here]
             i == method.code[k]
         IN  /\ added \in Seq(Emitted(method))
             /\ \A n \in 1 .. Len(added) - 1 : ~isTerminator(added[n])
             /\ HasTerminator(added) <=> isTerminator(i)
             /\ isTerminator(i) => Ended(here)'
             /\ isTerminator(i) /\ isBranch(Last(added)) => \E x \in ToSet(blocks) : here < x
             /\ InStep(place, lo, hi)' /\ here < pointer'
             /\ ~isTerminator(i) => \E q \in outer :
                  pointer' = place[q] /\ \A j \in outer : b <= j /\ j < q =>
                                           ~isTerminator(method.code[j])
             /\ \A x \in ToSet(blocks) : ~(here < x /\ x < pointer')
  <1> DEFINE here == place[b]
             added == body'[here]
             i == method.code[k]
  <1>   /\ Divided(place, outer) /\ blocks' = blocks /\ method' = method /\ unit' = unit
        /\ b <= k /\ place[b] \in ToSet(blocks)
        /\ \A x \in ToSet(blocks) : ~(place[b] < x /\ x <= place[k])
        /\ \A j \in outer : b <= j /\ j < k => ~isTerminator(method.code[j])
        /\ old \in Seq(Emitted(method)) /\ \A n \in 1 .. Len(old) : ~isTerminator(old[n])
        /\ body'[place[b]] = Append(old, method.code[k])
        /\ pointer' = IF method.code[k].op = "pushBlock" THEN method.code[k].extra
                      ELSE place[k + 1]
    BY DEF Adds
  <1>1. /\ lo \in 1 .. hi /\ hi \in Nat /\ outer \subseteq lo .. hi
        /\ \A j \in 1 .. hi + 1 : place[j] \in Nat
        /\ place[hi + 1] <= stopPointer /\ stopPointer \in Nat
    BY StopsBehind
  <1>2. \A j \in outer : j \in 1 .. hi + 1 /\ j \in 1 .. Len(method.code)
    <2>1. hi \in 1 .. Len(method.code) /\ Len(method.code) \in Nat
      BY DEF Laid
    <2>2. QED BY <1>1, <2>1
  <1>3. i \in Emitted(method)
    BY <1>2 DEF Emitted
  <1>4. /\ added \in Seq(Emitted(method)) /\ Last(added) = i
        /\ \A n \in 1 .. Len(added) - 1 : ~isTerminator(added[n])
        /\ HasTerminator(added) <=> isTerminator(i)
    BY <1>3, AppendedLast
  <1>5. PICK q \in lo .. hi + 1 :
          /\ k < q /\ \A j \in outer : j <= k \/ q <= j
          /\ q \in outer \/ (k = hi /\ q = hi + 1)
          /\ place[q] = IF i.op = "pushBlock" THEN i.extra ELSE place[k + 1]
    BY NextOuter
  <1>6. pointer' = place[q] /\ q \in 1 .. hi + 1 /\ pointer' \in Nat
    BY <1>1, <1>5
  <1>7. InStep(place, lo, hi)'
    BY <1>6 DEF InStep
  <1>8. here < pointer' /\ here \in Nat
    <2>1. b < q /\ b \in 1 .. hi + 1
      BY <1>1, <1>5
    <2>2. place[b] < place[q] <=> b < q
      BY <1>6, <2>1, PlacesAscend
    <2>3. QED BY <1>1, <1>6, <2>1, <2>2
  <1>9. \A x \in ToSet(blocks) : \E t \in outer : x = place[t]
    BY DEF Divided, BlocksOf
  <1>10. \A x \in ToSet(blocks) : x \in Nat /\ ~(here < x /\ x < pointer')
    <2>1. ASSUME NEW x \in ToSet(blocks) PROVE x \in Nat /\ ~(here < x /\ x < pointer')
      <3>1. PICK t \in outer : x = place[t]
        BY <1>9
      <3>2. t \in 1 .. hi + 1 /\ k \in 1 .. hi + 1 /\ (t <= k \/ q <= t)
        BY <1>2, <1>5
      <3>3. (place[t] <= place[k] <=> t <= k) /\ (place[q] <= place[t] <=> q <= t)
        BY <1>6, <3>2, PlacesAscend
      <3>4. place[t] \in Nat /\ place[k] \in Nat /\ place[q] \in Nat
        BY <1>1, <1>6, <3>2
      <3>5. QED BY <1>6, <3>1, <3>2, <3>3, <3>4
    <2>2. QED BY <2>1
  <1>11. ASSUME ~isTerminator(i)
         PROVE  q \in outer /\ \A j \in outer : b <= j /\ j < q => ~isTerminator(method.code[j])
    <2>1. k # hi
      BY <1>11 DEF Laid, Returns
    <2>2. ASSUME NEW j \in outer, b <= j, j < q PROVE j = k \/ (b <= j /\ j < k)
      <3>1. j <= k \/ q <= j
        BY <1>5
      <3>2. j \in Int /\ k \in Int /\ q \in Int
        BY <1>1, <1>2, <1>5
      <3>3. QED BY <2>2, <3>1, <3>2
    <2>3. QED BY <1>5, <1>11, <2>1, <2>2
  <1>12. ASSUME isBranch(i)
         PROVE  /\ Aims(i, place[k + 1]) \subseteq ToSet(blocks)
                /\ place[k + 1] \in ToSet(blocks) /\ k + 1 \in 1 .. hi + 1 /\ place[k] < place[k + 1]
    <2>1. \E c \in outer : place[k + 1] \in Aims(method.code[c], place[c + 1])
      BY <1>12 DEF Laid
    <2>2. place[k + 1] \in ToSet(blocks)
      BY <2>1 DEF Divided
    <2>3. k + 1 \in 1 .. hi + 1 /\ k \in 1 .. hi + 1 /\ k < k + 1
      BY <1>1
    <2>4. Aims(i, place[k + 1]) \subseteq ToSet(blocks)
      BY DEF Divided
    <2>5. QED BY <2>2, <2>3, <2>4, PlacesAscend
  <1>13. ASSUME isTerminator(i), isBranch(Last(added)) PROVE \E x \in ToSet(blocks) : here < x
    <2>1. isBranch(i)
      BY <1>4, <1>13
    <2>2. place[k + 1] \in ToSet(blocks) /\ k + 1 \in 1 .. hi + 1
      BY <1>12, <2>1
    <2>3. b < k + 1
      BY <1>1
    <2>4. QED BY <1>2, <2>2, <2>3, PlacesAscend
  <1>14. ASSUME isTerminator(i) PROVE Ended(here)'
    <2>1. HasTerminator(added) /\ Last(added) = i
      BY <1>4, <1>14
    <2>2. stopPointer' = stopPointer
      BY DEF stopPointer, stopOffset, Bytes
    <2>3. ASSUME Splits(i)
          PROVE  getNextBlockOffset(here, stopPointer)' = place[k + 1]
      <3>1. isBranch(i) /\ i.op # "pushBlock"
        BY <2>3, SpecialNumbers
      <3>2. /\ place[k + 1] \in ToSet(blocks) /\ k + 1 \in 1 .. hi + 1
            /\ Aims(i, place[k + 1]) \subseteq ToSet(blocks)
        BY <1>12, <3>1
      <3>3. place[q] = place[k + 1] /\ pointer' = place[k + 1]
        BY <1>5, <1>6, <3>1
      <3>4. place[k + 1] < stopPointer /\ place[k + 1] \in Nat
        <4>1. PICK t \in outer : place[k + 1] = place[t]
          BY <1>9, <3>2
        <4>2. t \in 1 .. hi + 1 /\ hi + 1 \in 1 .. hi + 1 /\ t < hi + 1
          BY <1>1
        <4>3. place[t] < place[hi + 1] /\ place[t] \in Nat /\ place[hi + 1] \in Nat
          BY <1>1, <4>2, PlacesAscend
        <4>4. QED BY <1>1, <4>1, <4>3
      <3>5. getNextBlockOffset(here, stopPointer) = place[k + 1]
        <4>1. /\ here < place[k + 1]
              /\ \A c \in ToSet(blocks) : c \in Nat /\ ~(here < c /\ c < place[k + 1])
          BY <1>8, <1>10, <3>3
        <4>2. QED BY <1>1, <1>8, <3>2, <3>4, <4>1, NextBlockIs
      <3>6. QED BY <2>2, <3>5 DEF getNextBlockOffset
    <2>4. Splits(i) => Behind(method', here) = place[k + 1]
      <3>1. ASSUME Splits(i) PROVE Behind(method, place[b]) = place[k + 1]
        BY <3>1 DEF Laid
      <3>2. QED BY <3>1
    <2>5. Successors(here)' \subseteq ToSet(blocks')
      <3>1. HasTerminator(body[here])' /\ Last(body[here])' = i
        BY <2>1
      <3>2. /\ Jumps(i) => Successors(here)' = {i.extra}
            /\ Splits(i) => Successors(here)' = {i.extra, getNextBlockOffset(here, stopPointer)'}
            /\ ~isBranch(i) => Successors(here)' = {}
        <4>1. Successors(here)' =
                CASE Jumps(i) -> {i.extra}
                  [] Splits(i) -> {i.extra, getNextBlockOffset(here, stopPointer)'}
                  [] OTHER -> {}
          BY <3>1, Zenon DEF Successors, Jumps, Splits
        <4>2. QED BY <4>1, Kinds
      <3>3. isBranch(i) => Aims(i, place[k + 1]) \subseteq ToSet(blocks)
        BY <1>12
      <3>5. QED BY <2>3, <3>2, <3>3, Kinds DEF Aims
    <2>6. QED BY <2>1, <2>3, <2>4, <2>5 DEF Ended
  <1>15. QED BY <1>4, <1>5, <1>6, <1>7, <1>8, <1>10, <1>11, <1>13, <1>14

\* The blocks after an instruction was added to the one at b.
LEMMA BlockGrown ==
  ASSUME NEW place, NEW outer, NEW lo, NEW hi, Laid(method, unit, place, outer, lo, hi),
         NEW b \in outer, NEW k \in outer, NEW old,
         Adds(place, outer, b, k, old),
         current' = place[b], dead' = isTerminator(method.code[k]),
         DOMAIN body' = ToSet(blocks), DOMAIN referers' = ToSet(blocks),
         \A x \in ToSet(blocks) \ {place[b]} :
           /\ body'[x] \in Seq(Emitted(method))
           /\ \A n \in 1 .. Len(body'[x]) - 1 : ~isTerminator(body'[x][n])
           /\ x > place[b] => body'[x] = <<>>
           /\ x < place[b] => Ended(x)',
         \A x \in ToSet(blocks) :
           referers'[x] = {c \in ToSet(blocks) : c < place[b] /\ x \in Successors(c)'}
  PROVE  Populating(place, outer, lo, hi)'
  <1> DEFINE here == place[b]
             added == body'[here]
             i == method.code[k]
  <1>   /\ Divided(place, outer) /\ blocks' = blocks /\ method' = method /\ unit' = unit
        /\ b <= k /\ place[b] \in ToSet(blocks)
        /\ \A x \in ToSet(blocks) : ~(place[b] < x /\ x <= place[k])
        /\ \A j \in outer : b <= j /\ j < k => ~isTerminator(method.code[j])
        /\ old \in Seq(Emitted(method)) /\ \A n \in 1 .. Len(old) : ~isTerminator(old[n])
        /\ body'[place[b]] = Append(old, method.code[k])
        /\ pointer' = IF method.code[k].op = "pushBlock" THEN method.code[k].extra
                      ELSE place[k + 1]
    BY DEF Adds
  <1>1. /\ added \in Seq(Emitted(method))
        /\ \A n \in 1 .. Len(added) - 1 : ~isTerminator(added[n])
        /\ HasTerminator(added) <=> isTerminator(i)
        /\ isTerminator(i) => Ended(here)'
        /\ isTerminator(i) /\ isBranch(Last(added)) => \E x \in ToSet(blocks) : here < x
        /\ InStep(place, lo, hi)' /\ here < pointer'
        /\ ~isTerminator(i) => \E q \in outer :
             pointer' = place[q] /\ \A j \in outer : b <= j /\ j < q =>
                                      ~isTerminator(method.code[j])
        /\ \A x \in ToSet(blocks) : ~(here < x /\ x < pointer')
    BY InstructionAdded
  <1>2. /\ startOffset = place[lo] /\ lo \in 1 .. hi /\ hi \in Nat
        /\ outer \subseteq lo .. hi /\ lo \in outer
        /\ \A j \in 1 .. hi + 1 : place[j] \in Nat
    BY StopsBehind
  <1>3. startOffset' = startOffset /\ startOffset <= here /\ here \in Nat /\ startOffset \in Nat
    <2>1. b \in 1 .. hi + 1 /\ lo \in 1 .. hi + 1 /\ lo <= b
      BY <1>2
    <2>2. place[lo] <= place[b] <=> lo <= b
      BY <2>1, PlacesAscend
    <2>3. QED BY <1>2, <2>1, <2>2 DEF startOffset
  <1>4. pointer' \in Nat /\ pointer' >= startOffset' /\ current' <= pointer' /\ current' # pointer'
    <2>1. pointer' \in Nat
      BY <1>1 DEF InStep
    <2>2. QED BY <1>1, <1>3, <2>1
  <1>5. Divided(place, outer)'
    BY <1>3 DEF Divided, BlocksOf
  <1>6. \A x \in ToSet(blocks) : /\ body'[x] \in Seq(Emitted(method))
                                 /\ \A n \in 1 .. Len(body'[x]) - 1 : ~isTerminator(body'[x][n])
    BY <1>1
  <1>7. Tables'
    BY <1>6 DEF Tables
  <1>8. ~dead' => \E q \in outer : /\ pointer' = place[q]
                                   /\ \A j \in outer : current' <= place[j] /\ j < q =>
                                        ~isTerminator(method'.code[j])
    <2>1. SUFFICES ASSUME ~dead'
                   PROVE  \E q \in outer : /\ pointer' = place[q]
                                           /\ \A j \in outer : current' <= place[j] /\ j < q =>
                                                ~isTerminator(method.code[j])
      OBVIOUS
    <2>2. PICK q \in outer : pointer' = place[q] /\ \A j \in outer : b <= j /\ j < q =>
                                                      ~isTerminator(method.code[j])
      BY <1>1, <2>1
    <2>3. ASSUME NEW j \in outer, current' <= place[j] PROVE b <= j
      <3>1. b \in 1 .. hi + 1 /\ j \in 1 .. hi + 1
        BY <1>2
      <3>2. place[b] <= place[j] <=> b <= j
        BY <3>1, PlacesAscend
      <3>3. QED BY <2>3, <3>2
    <2>4. QED BY <2>2, <2>3
  <1>9. /\ dead' <=> HasTerminator(body'[current'])
        /\ dead' => /\ Ended(current)'
                    /\ isBranch(Last(body'[current'])) => \E x \in ToSet(blocks) : current' < x
    <2>1. Ended(current)' <=> Ended(here)'
      BY DEF Ended, Successors, getNextBlockOffset
    <2>2. QED BY <1>1, <2>1
  <1>10. \A x \in ToSet(blocks') :
           /\ x > current' => body'[x] = <<>>
           /\ x < current' => Ended(x)'
           /\ referers'[x] = {c \in ToSet(blocks') : c < current' /\ x \in Successors(c)'}
    BY <1>3
  <1>11. QED BY <1>1, <1>4, <1>5, <1>7, <1>8, <1>9, <1>10 DEF Populating

\* Control leaves a block for the one behind it: it is complete, and what it
\* is referred to by is where it leads.
LEMMA BlockLeft ==
  ASSUME NEW place, NEW outer, NEW lo, NEW hi, Populating(place, outer, lo, hi),
         NEW c, c = current, pointer \in ToSet(blocks), current < pointer, pointer < stopPointer,
         stopPointer \in Nat, \A x \in ToSet(blocks) : x \in Nat,
         blocks' = blocks, method' = method, unit' = unit,
         body'[c] = IF HasTerminator(body[c]) THEN body[c]
                          ELSE body[c] \o Jump("branch", pointer)
  PROVE  /\ body'[c] \in Seq(Emitted(method))
         /\ \A n \in 1 .. Len(body'[c]) - 1 : ~isTerminator(body'[c][n])
         /\ Ended(c)' /\ Successors(c)' = RunsInto(pointer)
  <1> DEFINE code == body[c]
             jump == Instr("doSpecial", Special.branch, pointer)
  <1>1. /\ current \in ToSet(blocks) /\ current \in Nat
        /\ code \in Seq(Emitted(method))
        /\ \A n \in 1 .. Len(code) - 1 : ~isTerminator(code[n])
        /\ \A x \in ToSet(blocks) : ~(current < x /\ x < pointer)
        /\ HasTerminator(code) => Ended(c)
    BY DEF Populating, Tables
  <1>2. getNextBlockOffset(c, stopPointer) = pointer
    BY <1>1, NextBlockIs
  <1>3. CASE HasTerminator(code)
    <2>1. body'[c] = code
      BY <1>3
    <2>2. Ended(c)' /\ Successors(c)' = Successors(c)
      BY <1>1, <1>3, <2>1, BlockKept
    <2>3. Successors(c) = RunsInto(pointer)
      <3>1. PICK t : t = Last(code)
        OBVIOUS
      <3>2. /\ Jumps(t) => Successors(c) = {t.extra}
            /\ Splits(t) => Successors(c) = {t.extra, pointer}
            /\ ~isBranch(t) => Successors(c) = {}
        BY <1>2, <1>3, <3>1, SuccessorsOf
      <3>3. RunsInto(pointer) = CASE Jumps(t) -> {t.extra}
                                  [] Splits(t) -> {pointer, t.extra}
                                  [] OTHER -> {}
        BY <1>3, <3>1, Zenon DEF RunsInto, Jumps, Splits
      <3>4. QED BY <3>2, <3>3, Kinds
    <2>4. QED BY <1>1, <2>1, <2>2, <2>3
  <1>4. CASE ~HasTerminator(code)
    <2>1. jump \in Emitted(method)
      BY <1>1 DEF Emitted
    <2>2. body'[c] = Append(code, jump)
      <3>1. code \o <<jump>> = Append(code, jump)
        BY <1>1, <2>1
      <3>2. QED BY <1>4, <3>1 DEF Jump
    <2>3. Jumps(jump) /\ isTerminator(jump) /\ ~Splits(jump) /\ jump.extra = pointer
      <3>1. jump.op = "doSpecial" /\ jump.arg = 6 /\ jump.extra = pointer
        BY DEF Instr, Special
      <3>2. QED BY <3>1, SpecialNumbers, Kinds
    <2>4. \A n \in 1 .. Len(code) : ~isTerminator(code[n])
      <3>1. ASSUME NEW n \in 1 .. Len(code), n = Len(code) PROVE ~isTerminator(code[n])
        <4>1. code # <<>> /\ Last(code) = code[n]
          BY <1>1, <3>1 DEF Last
        <4>2. QED BY <1>4, <4>1 DEF HasTerminator
      <3>2. Len(code) \in Nat /\ \A n \in 1 .. Len(code) : n = Len(code) \/ n \in 1 .. Len(code) - 1
        BY <1>1
      <3>3. QED BY <1>1, <3>1, <3>2
    <2>5. /\ body'[c] \in Seq(Emitted(method))
          /\ Last(body'[c]) = jump /\ HasTerminator(body'[c])
          /\ \A n \in 1 .. Len(body'[c]) - 1 : ~isTerminator(body'[c][n])
      <3>1. PICK S, s : S = Emitted(method) /\ s = code
        OBVIOUS
      <3>2. s \in Seq(S) /\ jump \in S /\ \A n \in 1 .. Len(s) : ~isTerminator(s[n])
        BY <1>1, <2>1, <2>4, <3>1
      <3>3. /\ Append(s, jump) \in Seq(S) /\ Last(Append(s, jump)) = jump
            /\ HasTerminator(Append(s, jump)) <=> isTerminator(jump)
            /\ \A n \in 1 .. Len(Append(s, jump)) - 1 : ~isTerminator(Append(s, jump)[n])
        BY <3>2, AppendedLast
      <3>4. body'[c] = Append(s, jump)
        BY <2>2, <3>1
      <3>5. QED BY <2>3, <3>1, <3>3, <3>4
    <2>6. Successors(c)' = {pointer}
      <3>1. IsSpecial(jump, {"branch"})
        BY <2>3 DEF Jumps
      <3>2. Successors(c)' =
              CASE IsSpecial(jump, {"branch"}) -> {jump.extra}
                [] IsSpecial(jump, {"branchIfTrue", "branchIfFalse"}) ->
                     {jump.extra, getNextBlockOffset(c, stopPointer)'}
                [] OTHER -> {}
        BY <2>5, Zenon DEF Successors
      <3>3. QED BY <2>3, <3>2 DEF Jumps, Splits
    <2>7. RunsInto(pointer) = {pointer}
      BY <1>4 DEF RunsInto
    <2>8. Ended(c)'
      BY <2>3, <2>5, <2>6 DEF Ended
    <2>9. QED BY <2>5, <2>6, <2>7, <2>8
  <1>5. QED BY <1>3, <1>4

\* The instruction that is read where control runs; a branch is never the last.
LEMMA LiveInstruction ==
  ASSUME NEW place, NEW outer, NEW lo, NEW hi, Laid(method, unit, place, outer, lo, hi),
         Divided(place, outer), NEW k \in outer, pointer = place[k]
  PROVE  /\ Decoded.instr = method.code[k] /\ Decoded.next = place[k + 1]
         /\ isBranch(method.code[k]) => ~(place[k + 1] >= stopPointer)
  <1>1. /\ lo \in 1 .. hi /\ hi \in Nat /\ outer \subseteq lo .. hi
        /\ \A j \in 1 .. hi + 1 : place[j] \in Nat
        /\ place[hi + 1] <= stopPointer /\ stopPointer \in Nat
    BY StopsBehind
  <1>2. k \in 1 .. Len(method.code)
    <2>1. hi \in 1 .. Len(method.code) /\ Len(method.code) \in Nat
      BY DEF Laid
    <2>2. QED BY <1>1, <2>1
  <1>3. Decoded = [instr |-> method.code[k], next |-> place[k + 1]]
    <2>1. decodeAndShiftPointer(method.byteCodes, place[k])
            = [instr |-> method.code[k], next |-> place[k + 1]]
      BY <1>2 DEF Laid
    <2>2. QED BY <2>1 DEF Decoded, Bytes
  <1>4. ASSUME isBranch(method.code[k]) PROVE ~(place[k + 1] >= stopPointer)
    <2>1. \E c \in outer : place[k + 1] \in Aims(method.code[c], place[c + 1])
      BY <1>4 DEF Laid
    <2>2. PICK t \in outer : place[k + 1] = place[t]
      BY <2>1 DEF Divided, BlocksOf
    <2>3. t \in 1 .. hi + 1 /\ hi + 1 \in 1 .. hi + 1 /\ t < hi + 1
      BY <1>1
    <2>4. place[t] < place[hi + 1] /\ place[t] \in Nat /\ place[hi + 1] \in Nat
      BY <1>1, <2>3, PlacesAscend
    <2>5. QED BY <1>1, <2>2, <2>4
  <1>5. QED BY <1>3, <1>4

\* Blocks of the unit are numbers from where it starts to its last instruction.
LEMMA BlocksWithin ==
  ASSUME NEW place, NEW outer, NEW lo, NEW hi, Laid(method, unit, place, outer, lo, hi),
         BlocksOf(place, outer), NEW b \in ToSet(blocks)
  PROVE  \E k \in outer : /\ b = place[k] /\ k \in 1 .. hi + 1 /\ b \in Nat
                          /\ startOffset <= b /\ startOffset \in Nat
                          /\ b < place[hi + 1] /\ place[hi + 1] \in Nat
  <1>1. /\ lo \in 1 .. hi /\ hi \in Nat /\ outer \subseteq lo .. hi /\ startOffset = place[lo]
        /\ \A j \in 1 .. hi + 1 : place[j] \in Nat
    BY StopsBehind
  <1>2. PICK k \in outer : b = place[k]
    BY DEF BlocksOf
  <1>3. k \in 1 .. hi + 1 /\ lo \in 1 .. hi + 1 /\ hi + 1 \in 1 .. hi + 1 /\ lo <= k /\ k < hi + 1
    BY <1>1
  <1>4. place[lo] <= place[k] /\ place[k] < place[hi + 1]
    BY <1>3, PlacesAscend
  <1>5. QED BY <1>1, <1>2, <1>3, <1>4

\* What Populate does where control runs and where it does not.
LEMMA PopulateDoes ==
  ASSUME Populate
  PROVE  LET enters == pointer # startOffset /\ Known(pointer)
             here   == IF enters THEN pointer ELSE current
             joined == IF enters /\ ~HasTerminator(body[current])
                       THEN [body EXCEPT ![current] = @ \o Jump("branch", pointer)]
                       ELSE body
             i == Decoded.instr
         IN  /\ pointer < stopPointer /\ phase = "populate" /\ current' = here
             /\ phase' = phase /\ method' = method /\ unit' = unit /\ blocks' = blocks
             /\ ~enters /\ dead =>
                  /\ body' = body /\ referers' = referers /\ dead' = TRUE
                  /\ pointer' = Decoded.next
             /\ enters \/ ~dead =>
                  /\ body' = [joined EXCEPT ![here] = Append(@, i)]
                  /\ pointer' = IF i.op = "pushBlock" THEN i.extra ELSE Decoded.next
                  /\ dead' = isTerminator(i)
                  /\ ~(Decoded.next >= stopPointer /\ isBranch(i)) =>
                       referers' = IF enters THEN Refer(referers, current, RunsInto(pointer))
                                   ELSE referers
  <1> DEFINE enters == pointer # startOffset /\ Known(pointer)
             here   == IF enters THEN pointer ELSE current
             joined == IF enters /\ ~HasTerminator(body[current])
                       THEN [body EXCEPT ![current] = @ \o Jump("branch", pointer)]
                       ELSE body
             i == Decoded.instr
             ended == ~enters /\ dead
             linked == IF enters THEN Refer(referers, current, RunsInto(pointer)) ELSE referers
             added == [joined EXCEPT ![here] = Append(@, i)]
  <1>1. /\ pointer < stopPointer /\ phase = "populate" /\ current' = here
        /\ phase' = phase /\ method' = method /\ unit' = unit /\ blocks' = blocks
    BY DEF Populate
  <1>2. /\ body' = IF ended THEN joined ELSE added
        /\ pointer' = IF ~ended /\ i.op = "pushBlock" THEN i.extra ELSE Decoded.next
        /\ dead' = (ended \/ isTerminator(i))
        /\ referers' = IF ~ended /\ Decoded.next >= stopPointer /\ isBranch(i)
                       THEN Refer(linked, here, {i.extra}) ELSE linked
    BY Zenon DEF Populate
  <1> HIDE DEF joined, added, linked, i, enters
  <1>3. ASSUME ~enters, dead
        PROVE  body' = joined /\ pointer' = Decoded.next /\ dead' = TRUE /\ referers' = linked
    BY <1>2, <1>3
  <1>4. ~enters => joined = body /\ linked = referers
    BY DEF joined, linked
  <1>5. ASSUME enters \/ ~dead
        PROVE  /\ body' = added
               /\ pointer' = IF i.op = "pushBlock" THEN i.extra ELSE Decoded.next
               /\ dead' = isTerminator(i)
               /\ ~(Decoded.next >= stopPointer /\ isBranch(i)) => referers' = linked
    <2>1. ~ended
      BY <1>5
    <2>2. isTerminator(i) \in BOOLEAN
      BY DEF isTerminator
    <2>3. (ended \/ isTerminator(i)) = isTerminator(i)
      BY <2>1, <2>2
    <2>4. dead' = isTerminator(i)
      BY <1>2, <2>3
    <2>5. QED BY <1>2, <2>1, <2>4
  <1>6. QED BY <1>1, <1>3, <1>4, <1>5, Zenon DEF joined, added, linked, i, enters

\* Blocks have no number between them and the pointer, nor the pointer's own
\* unless control enters one.
LEMMA NotEntered ==
  ASSUME NEW place, NEW outer, NEW lo, NEW hi, Laid(method, unit, place, outer, lo, hi),
         Populating(place, outer, lo, hi), ~(pointer # startOffset /\ Known(pointer))
  PROVE  \A x \in ToSet(blocks) : ~(current < x /\ x <= pointer)
  <1>1. /\ current \in ToSet(blocks) /\ BlocksOf(place, outer) /\ pointer \in Nat
        /\ \A x \in ToSet(blocks) : ~(current < x /\ x < pointer)
    BY DEF Populating, Divided, InStep
  <1>2. ASSUME NEW x \in ToSet(blocks), current < x, x <= pointer PROVE FALSE
    <2>1. x \in Nat /\ current \in Nat /\ startOffset <= current /\ startOffset \in Nat
      BY <1>1, BlocksWithin
    <2>2. x = pointer
      BY <1>1, <1>2, <2>1
    <2>3. pointer = startOffset
      BY <2>2 DEF Known
    <2>4. QED BY <1>2, <2>1, <2>2, <2>3
  <1>3. QED BY <1>2

\* Code behind a terminator changes no block.
LEMMA DeadStep ==
  ASSUME NEW place, NEW outer, NEW lo, NEW hi, Laid(method, unit, place, outer, lo, hi),
         Populating(place, outer, lo, hi), Populate,
         ~(pointer # startOffset /\ Known(pointer)), dead
  PROVE  Populating(place, outer, lo, hi)'
  <1>1. PICK c : c = current
    OBVIOUS
  <1>2. /\ pointer < stopPointer /\ current' = c /\ body' = body /\ referers' = referers
        /\ dead' = TRUE /\ pointer' = Decoded.next
        /\ method' = method /\ unit' = unit /\ blocks' = blocks
    BY <1>1, PopulateDoes
  <1>3. /\ InStep(place, lo, hi) /\ Divided(place, outer) /\ Tables /\ BlocksOf(place, outer)
        /\ pointer >= startOffset /\ c \in ToSet(blocks) /\ c <= pointer
        /\ HasTerminator(body[c]) /\ Ended(c)
        /\ isBranch(Last(body[c])) => \E b \in ToSet(blocks) : c < b
        /\ \A b \in ToSet(blocks) :
             /\ b > c => body[b] = <<>>
             /\ b < c => Ended(b)
             /\ referers[b] = {d \in ToSet(blocks) : d < c /\ b \in Successors(d)}
    BY <1>1 DEF Populating, Divided
  <1>4. /\ lo \in 1 .. hi /\ hi \in Nat
        /\ \A j \in 1 .. hi + 1 : place[j] \in Nat
        /\ place[hi + 1] <= stopPointer /\ stopPointer \in Nat
        /\ startOffset = place[lo]
    BY StopsBehind
  <1>5. pointer \in Nat /\ c \in Nat /\ startOffset \in Nat
    BY <1>3, BlocksWithin DEF InStep
  <1>6. \A x \in ToSet(blocks) : ~(c < x /\ x <= pointer)
    BY <1>1, NotEntered
  <1>7. /\ InStep(place, lo, hi)' /\ pointer < pointer'
        /\ \A x \in ToSet(blocks) : ~(pointer < x /\ x < pointer')
    <2>1. CASE \E k \in lo .. hi : pointer = place[k] /\ Decoded.next = place[k + 1]
      <3>1. PICK k \in lo .. hi : pointer = place[k] /\ pointer' = place[k + 1]
        BY <1>2, <2>1
      <3>2. k + 1 \in lo .. hi + 1 /\ k \in 1 .. hi + 1 /\ k + 1 \in 1 .. hi + 1 /\ k < k + 1
        BY <1>4
      <3>3. pointer < pointer' /\ pointer' \in Nat
        BY <1>4, <3>1, <3>2, PlacesAscend
      <3>4. ASSUME NEW x \in ToSet(blocks), pointer < x, x < pointer' PROVE FALSE
        <4>1. PICK t \in outer : x = place[t] /\ t \in 1 .. hi + 1
          BY <1>3, BlocksWithin
        <4>2. k < t /\ t < k + 1
          BY <3>1, <3>2, <3>4, <4>1, PlacesAscend
        <4>3. QED BY <3>2, <4>1, <4>2
      <3>5. QED BY <3>1, <3>2, <3>3, <3>4 DEF InStep
    <2>2. CASE stopOffset = 0 /\ pointer >= place[hi + 1] /\ Decoded.next = pointer + 2
      <3>1. place[hi + 1] \in Nat /\ pointer' = pointer + 2
        <4>1. hi + 1 \in 1 .. hi + 1
          BY <1>4
        <4>2. QED BY <1>2, <1>4, <2>2, <4>1
      <3>2. stopOffset' = stopOffset
        BY <1>2 DEF stopOffset
      <3>3. \A x \in ToSet(blocks) : x \in Nat /\ x < place[hi + 1]
        BY <1>3, BlocksWithin
      <3>4. QED BY <1>5, <2>2, <3>1, <3>2, <3>3 DEF InStep
    <2>3. QED BY <1>2, <1>3, <2>1, <2>2, DecodedHere
  <1>8. startOffset' = startOffset /\ pointer' \in Nat
    BY <1>2, <1>7 DEF startOffset, InStep
  <1>9. \A b : /\ Successors(b)' = Successors(b) /\ (Ended(b) => Ended(b)')
    BY <1>2, BlockKept
  <1>10. Divided(place, outer)' /\ Tables'
    BY <1>2, <1>3, <1>8 DEF Divided, BlocksOf, Tables, Emitted
  <1>11. Ended(current)' <=> Ended(c)'
    BY <1>2 DEF Ended, Successors, getNextBlockOffset
  <1>12. \A x \in ToSet(blocks') : ~(c < x /\ x < pointer')
    <2>1. \A x \in ToSet(blocks) : x \in Nat
      BY <1>3, BlocksWithin
    <2>2. QED BY <1>2, <1>5, <1>6, <1>7, <1>8, <2>1
  <1>13. HasTerminator(body'[c])
    BY <1>2, <1>3
  <1>14. \A b \in ToSet(blocks') :
           /\ b > c => body'[b] = <<>>
           /\ b < c => Ended(b)'
           /\ referers'[b] = {d \in ToSet(blocks') : d < c /\ b \in Successors(d)'}
    BY <1>2, <1>3, <1>9
  <1>15. c < pointer' /\ pointer' >= startOffset'
    BY <1>3, <1>5, <1>7, <1>8
  <1>16. /\ dead' <=> HasTerminator(body'[current'])
         /\ dead' => /\ Ended(current)'
                     /\ isBranch(Last(body'[current'])) => \E x \in ToSet(blocks') : current' < x
    BY <1>2, <1>3, <1>9, <1>11, <1>13
  <1>17. /\ current' \in ToSet(blocks') /\ current' <= pointer'
         /\ current' = pointer' => pointer' = startOffset'
    BY <1>2, <1>3, <1>5, <1>8, <1>15
  <1>18. QED BY <1>2, <1>7, <1>8, <1>10, <1>12, <1>14, <1>15, <1>16, <1>17 DEF Populating

\* Live code goes into the block it follows.
LEMMA LiveStep ==
  ASSUME NEW place, NEW outer, NEW lo, NEW hi, Laid(method, unit, place, outer, lo, hi),
         Populating(place, outer, lo, hi), Populate,
         ~(pointer # startOffset /\ Known(pointer)), ~dead
  PROVE  Populating(place, outer, lo, hi)'
  <1>1. /\ Divided(place, outer) /\ Tables /\ BlocksOf(place, outer)
        /\ current \in ToSet(blocks) /\ current <= pointer
        /\ ~HasTerminator(body[current])
        /\ \A x \in ToSet(blocks) :
             /\ x > current => body[x] = <<>>
             /\ x < current => Ended(x)
             /\ referers[x] = {d \in ToSet(blocks) : d < current /\ x \in Successors(d)}
    BY DEF Populating, Divided
  <1>2. PICK k \in outer : /\ pointer = place[k]
                           /\ \A j \in outer : current <= place[j] /\ j < k =>
                                ~isTerminator(method.code[j])
    BY DEF Populating
  <1>3. PICK b \in outer : current = place[b] /\ b \in 1 .. hi + 1 /\ current \in Nat
    BY <1>1, BlocksWithin
  <1>4. k \in 1 .. hi + 1 /\ outer \subseteq lo .. hi /\ lo \in 1 .. hi /\ hi \in Nat
    <2>1. /\ lo \in 1 .. hi /\ hi \in Nat /\ outer \subseteq lo .. hi
      BY StopsBehind
    <2>2. QED BY <2>1
  <1>5. Decoded.instr = method.code[k] /\ Decoded.next = place[k + 1]
        /\ ~(Decoded.next >= stopPointer /\ isBranch(method.code[k]))
    BY <1>1, <1>2, LiveInstruction
  <1>6. /\ current' = current /\ method' = method /\ unit' = unit /\ blocks' = blocks
        /\ body' = [body EXCEPT ![current] = Append(@, method.code[k])]
        /\ referers' = referers
        /\ pointer' = IF method.code[k].op = "pushBlock" THEN method.code[k].extra
                      ELSE place[k + 1]
        /\ dead' = isTerminator(method.code[k])
    BY <1>5, PopulateDoes
  <1>7. /\ body[current] \in Seq(Emitted(method))
        /\ DOMAIN body = ToSet(blocks) /\ DOMAIN referers = ToSet(blocks)
        /\ \A x \in ToSet(blocks) :
             /\ body[x] \in Seq(Emitted(method))
             /\ \A n \in 1 .. Len(body[x]) - 1 : ~isTerminator(body[x][n])
    BY <1>1 DEF Tables
  <1>8. \A n \in 1 .. Len(body[current]) : ~isTerminator(body[current][n])
    <2>1. ASSUME NEW n \in 1 .. Len(body[current]), n = Len(body[current])
          PROVE ~isTerminator(body[current][n])
      <3>1. body[current] # <<>> /\ Last(body[current]) = body[current][n]
        BY <1>7, <2>1 DEF Last
      <3>2. QED BY <1>1, <3>1 DEF HasTerminator
    <2>2. Len(body[current]) \in Nat
          /\ \A n \in 1 .. Len(body[current]) : n = Len(body[current]) \/ n \in 1 .. Len(body[current]) - 1
      BY <1>7
    <2>3. QED BY <1>1, <1>7, <2>1, <2>2
  <1>9. b <= k
    BY <1>1, <1>2, <1>3, <1>4, PlacesAscend
  <1>10. \A j \in outer : b <= j /\ j < k => ~isTerminator(method.code[j])
    <2>1. ASSUME NEW j \in outer, b <= j PROVE place[b] <= place[j]
      BY <1>3, <1>4, <2>1, PlacesAscend
    <2>2. QED BY <1>2, <1>3, <2>1
  <1>11. \A x \in ToSet(blocks) : ~(place[b] < x /\ x <= place[k])
    BY <1>2, <1>3, NotEntered
  <1>12. body'[place[b]] = Append(body[current], method.code[k])
         /\ \A x \in ToSet(blocks) \ {place[b]} : body'[x] = body[x]
    BY <1>1, <1>3, <1>6, <1>7
  <1>13. Adds(place, outer, b, k, body[current])
    BY <1>1, <1>3, <1>6, <1>7, <1>8, <1>9, <1>10, <1>11, <1>12 DEF Adds
  <1>14. \A x \in ToSet(blocks) \ {place[b]} :
           /\ Successors(x)' = Successors(x) /\ (Ended(x) => Ended(x)')
    BY <1>6, <1>12, BlockKept
  <1>15. \A x \in ToSet(blocks) \ {place[b]} :
           /\ body'[x] \in Seq(Emitted(method))
           /\ \A n \in 1 .. Len(body'[x]) - 1 : ~isTerminator(body'[x][n])
           /\ x > place[b] => body'[x] = <<>>
           /\ x < place[b] => Ended(x)'
    BY <1>1, <1>3, <1>7, <1>12, <1>14
  <1>16. \A x \in ToSet(blocks) :
           referers'[x] = {d \in ToSet(blocks) : d < place[b] /\ x \in Successors(d)'}
    <2>1. \A d \in ToSet(blocks) : d < place[b] => d \in ToSet(blocks) \ {place[b]}
      BY <1>3
    <2>2. QED BY <1>1, <1>3, <1>6, <1>14, <2>1
  <1>17. current' = place[b] /\ DOMAIN body' = ToSet(blocks) /\ DOMAIN referers' = ToSet(blocks)
    BY <1>3, <1>6, <1>7
  <1>18. QED BY <1>6, <1>13, <1>15, <1>16, <1>17, BlockGrown

\* Where a known block begins the one before it is closed and refers to it.
LEMMA EnterStep ==
  ASSUME NEW place, NEW outer, NEW lo, NEW hi, Laid(method, unit, place, outer, lo, hi),
         Populating(place, outer, lo, hi), Populate,
         pointer # startOffset, Known(pointer)
  PROVE  Populating(place, outer, lo, hi)'
  <1>1. PICK c : c = current
    OBVIOUS
  <1>2. /\ Divided(place, outer) /\ Tables /\ BlocksOf(place, outer) /\ pointer \in Nat
        /\ c \in ToSet(blocks) /\ c <= pointer /\ c # pointer
        /\ \A x \in ToSet(blocks) : ~(c < x /\ x < pointer)
        /\ \A x \in ToSet(blocks) :
             /\ x > c => body[x] = <<>>
             /\ x < c => Ended(x)
             /\ referers[x] = {d \in ToSet(blocks) : d < c /\ x \in Successors(d)}
    BY <1>1 DEF Populating, Divided, InStep
  <1>3. pointer \in ToSet(blocks)
    BY DEF Known
  <1>4. PICK k \in outer : pointer = place[k] /\ k \in 1 .. hi + 1
    BY <1>2, <1>3, BlocksWithin
  <1>5. /\ stopPointer \in Nat /\ \A x \in ToSet(blocks) : x \in Nat
    BY <1>2, StopsBehind, BlocksWithin
  <1>6. c < pointer
    BY <1>2, <1>5
  <1>7. /\ Decoded.instr = method.code[k] /\ Decoded.next = place[k + 1]
        /\ ~(Decoded.next >= stopPointer /\ isBranch(method.code[k]))
    BY <1>2, <1>4, LiveInstruction
  <1> DEFINE joined == IF ~HasTerminator(body[c])
                       THEN [body EXCEPT ![c] = @ \o Jump("branch", pointer)] ELSE body
  <1>8. /\ pointer < stopPointer /\ current' = pointer
        /\ method' = method /\ unit' = unit /\ blocks' = blocks
        /\ body' = [joined EXCEPT ![pointer] = Append(@, method.code[k])]
        /\ referers' = Refer(referers, c, RunsInto(pointer))
        /\ pointer' = IF method.code[k].op = "pushBlock" THEN method.code[k].extra
                      ELSE place[k + 1]
        /\ dead' = isTerminator(method.code[k])
    BY <1>1, <1>7, PopulateDoes
  <1>9. /\ DOMAIN body = ToSet(blocks) /\ DOMAIN referers = ToSet(blocks)
        /\ \A x \in ToSet(blocks) :
             /\ body[x] \in Seq(Emitted(method))
             /\ \A n \in 1 .. Len(body[x]) - 1 : ~isTerminator(body[x][n])
    BY <1>2 DEF Tables
  <1>10. /\ DOMAIN joined = ToSet(blocks) /\ joined[pointer] = <<>>
         /\ joined[c] = IF HasTerminator(body[c]) THEN body[c]
                        ELSE body[c] \o Jump("branch", pointer)
         /\ \A x \in ToSet(blocks) \ {c} : joined[x] = body[x]
    BY <1>2, <1>3, <1>6, <1>9
  <1> HIDE DEF joined
  <1>11. /\ DOMAIN body' = ToSet(blocks) /\ body'[pointer] = Append(<<>>, method.code[k])
         /\ body'[c] = IF HasTerminator(body[c]) THEN body[c]
                       ELSE body[c] \o Jump("branch", pointer)
         /\ \A x \in ToSet(blocks) \ {c, pointer} : body'[x] = body[x]
    BY <1>2, <1>3, <1>8, <1>10
  <1>12. /\ body'[c] \in Seq(Emitted(method))
         /\ \A n \in 1 .. Len(body'[c]) - 1 : ~isTerminator(body'[c][n])
         /\ Ended(c)' /\ Successors(c)' = RunsInto(pointer)
    BY <1>1, <1>3, <1>5, <1>6, <1>8, <1>11, BlockLeft
  <1>13. \A x \in ToSet(blocks) \ {c, pointer} :
           /\ Successors(x)' = Successors(x) /\ (Ended(x) => Ended(x)')
    BY <1>8, <1>11, BlockKept
  <1>14. Adds(place, outer, k, k, <<>>)
    <2>1. <<>> \in Seq(Emitted(method)) /\ \A n \in 1 .. Len(<<>>) : FALSE
      OBVIOUS
    <2>2. \A x \in ToSet(blocks) : ~(pointer < x /\ x <= pointer)
      BY <1>2, <1>5
    <2>3. k \in Nat /\ k <= k /\ \A j \in outer : ~(k <= j /\ j < k)
      <3>1. outer \subseteq lo .. hi /\ lo \in 1 .. hi /\ hi \in Nat
        BY StopsBehind
      <3>2. QED BY <3>1
    <2>4. QED BY <1>2, <1>3, <1>4, <1>8, <1>11, <2>1, <2>2, <2>3 DEF Adds
  <1>15. \A x \in ToSet(blocks) \ {pointer} :
           /\ body'[x] \in Seq(Emitted(method))
           /\ \A n \in 1 .. Len(body'[x]) - 1 : ~isTerminator(body'[x][n])
           /\ x > pointer => body'[x] = <<>>
           /\ x < pointer => Ended(x)'
    <2>1. \A x \in ToSet(blocks) \ {c, pointer} :
            /\ body'[x] \in Seq(Emitted(method))
            /\ \A n \in 1 .. Len(body'[x]) - 1 : ~isTerminator(body'[x][n])
      BY <1>9, <1>11
    <2>2. ASSUME NEW x \in ToSet(blocks) \ {c, pointer}
          PROVE  (x > pointer => body'[x] = <<>>) /\ (x < pointer => Ended(x)')
      BY <1>2, <1>5, <1>6, <1>11, <1>13
    <2>3. ~(c > pointer)
      BY <1>5, <1>6, <1>2
    <2>4. QED BY <1>12, <2>1, <2>2, <2>3
  <1>16. \A x \in ToSet(blocks) :
           referers'[x] = {d \in ToSet(blocks) : d < pointer /\ x \in Successors(d)'}
    <2>1. ASSUME NEW x \in ToSet(blocks)
          PROVE  referers'[x] = IF x \in RunsInto(pointer) THEN referers[x] \cup {c} ELSE referers[x]
      BY <1>8, <1>9, <2>1 DEF Refer
    <2>2. ASSUME NEW d \in ToSet(blocks)
          PROVE  /\ d < pointer <=> d < c \/ d = c
                 /\ d < c => Successors(d)' = Successors(d)
      BY <1>2, <1>5, <1>6, <1>13
    <2>3. ASSUME NEW x \in ToSet(blocks), NEW d \in ToSet(blocks)
          PROVE  d \in referers'[x] <=> d < pointer /\ x \in Successors(d)'
      <3>1. d \in referers[x] <=> d < c /\ x \in Successors(d)
        BY <1>2
      <3>2. d \in referers'[x] <=> d \in referers[x] \/ (x \in RunsInto(pointer) /\ d = c)
        BY <2>1
      <3>3. ~(c < c)
        BY <1>2, <1>5
      <3>4. CASE d = c
        BY <1>6, <1>12, <3>1, <3>2, <3>3, <3>4
      <3>5. CASE d # c
        BY <2>2, <3>1, <3>2, <3>5
      <3>6. QED BY <3>4, <3>5
    <2>4. \A x \in ToSet(blocks) : referers'[x] \subseteq ToSet(blocks)
      BY <1>2, <2>1
    <2>5. QED BY <2>3, <2>4
  <1>17. DOMAIN referers' = ToSet(blocks)
    BY <1>8, <1>9 DEF Refer
  <1>18. QED BY <1>4, <1>8, <1>11, <1>14, <1>15, <1>16, <1>17, BlockGrown

\* The three cases of a turn of phase 2.
LEMMA PopulateStep ==
  ASSUME NEW place, NEW outer, NEW lo, NEW hi, Divides(place, outer, lo, hi), Populate
  PROVE  Divides(place, outer, lo, hi)'
  <1>1. /\ phase = "populate" /\ phase' = "populate" /\ method' = method /\ unit' = unit
    BY DEF Populate
  <1>2. Laid(method, unit, place, outer, lo, hi) /\ Populating(place, outer, lo, hi)
    BY <1>1 DEF Divides
  <1>3. Populating(place, outer, lo, hi)'
    BY <1>2, DeadStep, LiveStep, EnterStep
  <1>4. QED BY <1>1, <1>2, <1>3 DEF Divides

\* At the end of phase 2 the last block ended in a return, and every block is complete.
LEMMA StartWipingStep ==
  ASSUME NEW place, NEW outer, NEW lo, NEW hi, Divides(place, outer, lo, hi), StartWiping
  PROVE  Divides(place, outer, lo, hi)'
  <1>1. /\ phase = "populate" /\ phase' = "wipe" /\ pointer >= stopPointer
        /\ method' = method /\ unit' = unit /\ blocks' = blocks
        /\ body' = body /\ referers' = referers
    BY DEF StartWiping
  <1>2. Laid(method, unit, place, outer, lo, hi) /\ Populating(place, outer, lo, hi)
    BY <1>1 DEF Divides
  <1>3. PICK c : c = current
    OBVIOUS
  <1>4. /\ Divided(place, outer) /\ Tables /\ BlocksOf(place, outer)
        /\ startOffset \in ToSet(blocks) /\ pointer \in Nat
        /\ \A x \in ToSet(blocks) : ~(c < x /\ x < pointer)
        /\ c \in ToSet(blocks)
        /\ \A x \in ToSet(blocks) :
             /\ x < c => Ended(x)
             /\ referers[x] = {d \in ToSet(blocks) : d < c /\ x \in Successors(d)}
    BY <1>2, <1>3 DEF Populating, Divided, InStep
  <1>5. /\ stopPointer \in Nat /\ place[hi + 1] <= stopPointer /\ place[hi + 1] \in Nat
        /\ \A x \in ToSet(blocks) : x \in Nat /\ x < place[hi + 1]
    <2>1. \A x \in ToSet(blocks) : x \in Nat /\ x < place[hi + 1] /\ place[hi + 1] \in Nat
      BY <1>2, <1>4, BlocksWithin
    <2>2. QED BY <1>2, <1>4, <2>1, StopsBehind
  <1>6. dead
    <2>1. SUFFICES ASSUME ~dead PROVE FALSE
      OBVIOUS
    <2>2. PICK k \in outer : pointer = place[k]
      BY <1>2, <2>1 DEF Populating
    <2>3. /\ lo \in 1 .. hi /\ hi \in Nat /\ outer \subseteq lo .. hi
      BY <1>2, StopsBehind
    <2>4. k \in 1 .. hi + 1 /\ hi + 1 \in 1 .. hi + 1 /\ k < hi + 1
      BY <2>3
    <2>5. place[k] < place[hi + 1]
      BY <1>2, <2>4, PlacesAscend
    <2>6. QED BY <1>1, <1>4, <1>5, <2>2, <2>5
  <1>7. /\ HasTerminator(body[c]) /\ Ended(c)
        /\ isBranch(Last(body[c])) => \E x \in ToSet(blocks) : c < x
    BY <1>2, <1>3, <1>6 DEF Populating
  <1>8. \A x \in ToSet(blocks) : ~(c < x)
    BY <1>1, <1>4, <1>5
  <1>9. Successors(c) = {}
    BY <1>7, <1>8, SuccessorsOf
  <1>10. \A x \in ToSet(blocks) :
           Ended(x) /\ referers[x] = {d \in ToSet(blocks) : x \in Successors(d)}
    <2>1. \A x \in ToSet(blocks) : x < c \/ x = c
      BY <1>4, <1>5, <1>8
    <2>2. \A x \in ToSet(blocks) : Ended(x)
      BY <1>4, <1>7, <2>1
    <2>3. ASSUME NEW x \in ToSet(blocks)
          PROVE  referers[x] = {d \in ToSet(blocks) : x \in Successors(d)}
      BY <1>4, <1>9, <2>1
    <2>4. QED BY <2>2, <2>3
  <1>11. \A x : Successors(x)' = Successors(x) /\ (Ended(x) => Ended(x)')
    BY <1>1, BlockKept
  <1>12. Wiping(place, outer)'
    <2>1. startOffset' = startOffset
      BY <1>1 DEF startOffset
    <2>2. BlocksOf(place, outer)' /\ Tables'
      BY <1>1, <1>4 DEF BlocksOf, Tables, Emitted
    <2>3. \A x \in ToSet(blocks') :
            Ended(x)' /\ referers'[x] = {d \in ToSet(blocks') : x \in Successors(d)'}
      BY <1>1, <1>10, <1>11
    <2>4. QED BY <1>1, <1>4, <2>1, <2>2, <2>3 DEF Wiping
  <1>13. QED BY <1>1, <1>2, <1>12 DEF Divides

-----------------------------------------------------------------------------
\* A list without one of its members.
LEMMA BlockRemoved ==
  ASSUME NEW list \in Seq(Nat), IsInjective(list), NEW n \in 1 .. Len(list)
  PROVE  LET removed == RemoveAt(list, n)
         IN  /\ removed \in Seq(Nat) /\ IsInjective(removed)
             /\ ToSet(removed) = ToSet(list) \ {list[n]}
  <1> DEFINE before == SubSeq(list, 1, n - 1)
             behind == SubSeq(list, n + 1, Len(list))
  <1>1. /\ Len(list) \in Nat /\ n \in Nat /\ DOMAIN list = 1 .. Len(list)
        /\ \A k \in 1 .. Len(list) : list[k] \in Nat
    OBVIOUS
  <1>2. /\ before \in Seq(Nat) /\ Len(before) = n - 1
        /\ \A k \in 1 .. n - 1 : before[k] = list[k]
    OBVIOUS
  <1>3. /\ behind \in Seq(Nat) /\ Len(behind) = Len(list) - n
        /\ \A k \in 1 .. Len(list) - n : behind[k] = list[k + n]
    OBVIOUS
  <1> HIDE DEF before, behind
  <1>4. PICK s : s = before \o behind
    OBVIOUS
  <1>5. /\ s \in Seq(Nat) /\ Len(s) = Len(list) - 1 /\ DOMAIN s = 1 .. Len(list) - 1
        /\ \A k \in 1 .. Len(list) - 1 : s[k] = IF k < n THEN list[k] ELSE list[k + 1]
    <2>1. /\ s \in Seq(Nat) /\ Len(s) = Len(before) + Len(behind)
          /\ \A k \in 1 .. Len(before) + Len(behind) :
               s[k] = IF k <= Len(before) THEN before[k] ELSE behind[k - Len(before)]
      BY <1>2, <1>3, <1>4, ConcatProperties
    <2>2. Len(s) = Len(list) - 1 /\ Len(before) + Len(behind) = Len(list) - 1
      BY <1>1, <1>2, <1>3, <2>1
    <2>3. ASSUME NEW k \in 1 .. Len(list) - 1, k < n PROVE s[k] = list[k]
      <3>1. k \in 1 .. n - 1 /\ k <= Len(before)
        BY <1>1, <1>2, <2>3
      <3>2. QED BY <1>2, <2>1, <2>2, <3>1
    <2>4. ASSUME NEW k \in 1 .. Len(list) - 1, ~(k < n) PROVE s[k] = list[k + 1]
      <3>1. k - (n - 1) \in 1 .. Len(list) - n /\ k - (n - 1) + n = k + 1 /\ ~(k <= Len(before))
        BY <1>1, <1>2, <2>4
      <3>2. s[k] = behind[k - (n - 1)]
        BY <1>2, <2>1, <2>2, <3>1
      <3>3. QED BY <1>3, <3>1, <3>2
    <2>5. s \in Seq(Nat) /\ Len(s) = Len(list) - 1
      BY <2>1, <2>2
    <2>6. DOMAIN s = 1 .. Len(list) - 1
      BY <2>5
    <2>7. \A k \in 1 .. Len(list) - 1 : s[k] = IF k < n THEN list[k] ELSE list[k + 1]
      BY <2>3, <2>4
    <2>8. QED BY <2>5, <2>6, <2>7
  <1>6. \A x, y \in 1 .. Len(list) : list[x] = list[y] => x = y
    BY <1>1 DEF IsInjective
  <1> DEFINE old(k) == IF k < n THEN k ELSE k + 1
  <1>6a. \A k \in DOMAIN s : old(k) \in 1 .. Len(list) /\ old(k) # n /\ s[k] = list[old(k)]
    <2>1. ASSUME NEW k \in 1 .. Len(list) - 1
          PROVE  old(k) \in 1 .. Len(list) /\ old(k) # n /\ s[k] = list[old(k)]
      <3>1. s[k] = IF k < n THEN list[k] ELSE list[k + 1]
        BY <1>5
      <3>2. old(k) \in 1 .. Len(list) /\ old(k) # n
        BY <1>1
      <3>3. QED BY <3>1, <3>2
    <2>2. QED BY <1>5, <2>1
  <1>6b. \A x, y \in DOMAIN s : old(x) = old(y) => x = y
    <2>1. \A x, y \in 1 .. Len(list) - 1 : old(x) = old(y) => x = y
      BY <1>1
    <2>2. QED BY <1>5, <2>1
  <1>6c. \A x \in 1 .. Len(list) : x = n \/ \E k \in DOMAIN s : x = old(k)
    <2>1. ASSUME NEW x \in 1 .. Len(list), x # n PROVE \E k \in DOMAIN s : x = old(k)
      <3>1. CASE x < n
        <4>1. x \in 1 .. Len(list) - 1 /\ old(x) = x
          BY <1>1, <3>1
        <4>2. x \in DOMAIN s
          BY <1>5, <4>1
        <4>3. QED BY <4>1, <4>2
      <3>2. CASE ~(x < n)
        <4>1. x - 1 \in 1 .. Len(list) - 1 /\ old(x - 1) = x
          BY <1>1, <2>1, <3>2
        <4>2. x - 1 \in DOMAIN s
          BY <1>5, <4>1
        <4>3. QED BY <4>1, <4>2
      <3>3. QED BY <3>1, <3>2
    <2>2. QED BY <2>1
  <1> HIDE DEF old
  <1>7. IsInjective(s)
    BY <1>6, <1>6a, <1>6b DEF IsInjective
  <1>8. ToSet(s) = ToSet(list) \ {list[n]}
    <2>1. ASSUME NEW k \in DOMAIN s PROVE s[k] \in ToSet(list) \ {list[n]}
      BY <1>1, <1>6, <1>6a DEF ToSet
    <2>2. ASSUME NEW x \in 1 .. Len(list), x # n PROVE \E k \in DOMAIN s : list[x] = s[k]
      BY <1>6a, <1>6c, <2>2
    <2>3. QED BY <1>1, <2>1, <2>2 DEF ToSet
  <1>9. QED BY <1>4, <1>5, <1>7, <1>8 DEF RemoveAt, before, behind

\* A block that is not the next one can go.
LEMMA NextKept ==
  ASSUME NEW b, NEW c \in Nat, NEW limit \in Nat, ToSet(blocks) \subseteq Nat,
         ToSet(blocks') = ToSet(blocks) \ {b},
         b \in ToSet(blocks) => getNextBlockOffset(c, limit) # b
  PROVE  getNextBlockOffset(c, limit)' = getNextBlockOffset(c, limit)
  <1> DEFINE after == {x \in ToSet(blocks) : c < x /\ x < limit}
             rest == {x \in ToSet(blocks') : c < x /\ x < limit}
  <1>1. /\ getNextBlockOffset(c, limit) = IF after = {} THEN 0 ELSE CHOOSE y \in after : \A x \in after : y <= x
        /\ getNextBlockOffset(c, limit)' = IF rest = {} THEN 0 ELSE CHOOSE y \in rest : \A x \in rest : y <= x
    BY DEF getNextBlockOffset
  <1>2. rest = after \ {b}
    OBVIOUS
  <1>3. CASE after = {}
    BY <1>1, <1>2, <1>3
  <1>4. CASE after # {}
    <2>1. after \subseteq Nat
      OBVIOUS
    <2>2. PICK m \in after : \A x \in after : m <= x
      BY <1>4, <2>1, LeastNatural
    <2>3. \A y \in after : (\A x \in after : y <= x) => y = m
      BY <2>1, <2>2
    <2>4. m = CHOOSE y \in after : \A x \in after : y <= x
      BY <2>2, <2>3
    <2>5. m # b
      BY <1>1, <1>4, <2>4
    <2>6. m \in rest /\ \A x \in rest : m <= x
      BY <1>2, <2>2, <2>5
    <2>7. \A y \in rest : (\A x \in rest : y <= x) => y = m
      BY <1>2, <2>1, <2>6
    <2>8. m = CHOOSE y \in rest : \A x \in rest : y <= x
      BY <2>6, <2>7
    <2>9. QED BY <1>1, <1>4, <2>4, <2>6, <2>8
  <1>5. QED BY <1>3, <1>4

\* Blocks that are divided stay so while nothing is done to them.
LEMMA BlocksKept ==
  ASSUME NEW place, NEW outer, NEW lo, NEW hi, Divides(place, outer, lo, hi),
         phase \notin {"collect", "populate"}, phase' \notin {"collect", "populate"},
         UNCHANGED <<method, unit, blocks, body, referers>>
  PROVE  Divides(place, outer, lo, hi)'
  <1>1. Laid(method, unit, place, outer, lo, hi) /\ Wiping(place, outer)
    BY DEF Divides
  <1>2. \A x : Successors(x)' = Successors(x) /\ (Ended(x) => Ended(x)')
    BY BlockKept
  <1>3. startOffset' = startOffset /\ stopOffset' = stopOffset
    BY DEF startOffset, stopOffset
  <1>4. BlocksOf(place, outer)' /\ Tables' /\ startOffset' \in ToSet(blocks')
    BY <1>1, <1>3 DEF Wiping, BlocksOf, Tables, Emitted
  <1>5. \A b \in ToSet(blocks') :
          /\ Ended(b)'
          /\ referers'[b] \cap ToSet(blocks') = {c \in ToSet(blocks') : b \in Successors(c)'}
          /\ stopOffset' # 0 => referers'[b] \subseteq ToSet(blocks')
    BY <1>1, <1>2, <1>3 DEF Wiping
  <1>6. Wiping(place, outer)'
    BY <1>4, <1>5 DEF Wiping
  <1>7. QED BY <1>1, <1>6 DEF Divides

\* A block that is erased was nobody's successor, and its successors forget it.
LEMMA EraseStep ==
  ASSUME NEW place, NEW outer, NEW lo, NEW hi, Divides(place, outer, lo, hi), Wipe,
         referers[blocks[cursor]] = {}, blocks[cursor] # startOffset, cursor \in Nat \ {0}
  PROVE  Divides(place, outer, lo, hi)'
  <1>1. PICK b : b = blocks[cursor]
    OBVIOUS
  <1>2. /\ phase = "wipe" /\ phase' = "wipe" /\ cursor <= Len(blocks)
        /\ method' = method /\ unit' = unit
        /\ blocks' = RemoveAt(blocks, cursor)
        /\ body' = [c \in DOMAIN body \ {b} |-> body[c]]
        /\ referers' = [c \in DOMAIN referers \ {b} |->
                          IF c \in Abandoned(b) THEN referers[c] \ {b} ELSE referers[c]]
    BY <1>1 DEF Wipe
  <1>3. /\ Laid(method, unit, place, outer, lo, hi)
        /\ BlocksOf(place, outer) /\ startOffset \in ToSet(blocks) /\ Tables
        /\ \A x \in ToSet(blocks) :
             /\ Ended(x)
             /\ referers[x] \cap ToSet(blocks) = {c \in ToSet(blocks) : x \in Successors(c)}
             /\ stopOffset # 0 => referers[x] \subseteq ToSet(blocks)
    BY <1>2 DEF Divides, Wiping
  <1>4. /\ blocks' \in Seq(Nat) /\ IsInjective(blocks') /\ ToSet(blocks') = ToSet(blocks) \ {b}
        /\ b \in ToSet(blocks)
    <2>1. blocks \in Seq(Nat) /\ IsInjective(blocks)
      BY <1>3 DEF BlocksOf
    <2>2. cursor \in 1 .. Len(blocks) /\ DOMAIN blocks = 1 .. Len(blocks)
      BY <1>2, <2>1
    <2>3. b \in ToSet(blocks)
      BY <1>1, <2>2 DEF ToSet
    <2>4. QED BY <1>1, <1>2, <2>1, <2>2, <2>3, BlockRemoved
  <1>5. startOffset' = startOffset /\ stopOffset' = stopOffset /\ stopPointer' = stopPointer
    BY <1>2 DEF startOffset, stopOffset, stopPointer, Bytes
  <1>6. /\ DOMAIN body' = ToSet(blocks') /\ DOMAIN referers' = ToSet(blocks')
        /\ \A x \in ToSet(blocks') :
             /\ x \in ToSet(blocks) /\ x # b /\ body'[x] = body[x]
             /\ referers'[x] = IF x \in Abandoned(b) THEN referers[x] \ {b} ELSE referers[x]
    BY <1>2, <1>3, <1>4 DEF Tables
  <1>7. Tables'
    <2>1. ASSUME NEW x \in ToSet(blocks')
          PROVE  /\ body'[x] \in Seq(Emitted(method'))
                 /\ \A n \in 1 .. Len(body'[x]) - 1 : ~isTerminator(body'[x][n])
      <3>1. x \in ToSet(blocks) /\ body'[x] = body[x] /\ method' = method
        BY <1>2, <1>6
      <3>2. /\ body[x] \in Seq(Emitted(method))
            /\ \A n \in 1 .. Len(body[x]) - 1 : ~isTerminator(body[x][n])
        BY <1>3, <3>1 DEF Tables
      <3>3. QED BY <3>1, <3>2
    <2>2. QED BY <1>6, <2>1 DEF Tables
  <1>8. BlocksOf(place, outer)' /\ startOffset' \in ToSet(blocks')
    BY <1>1, <1>3, <1>4, <1>5 DEF BlocksOf
  <1>9. \A x \in ToSet(blocks) : b \notin Successors(x)
    BY <1>1, <1>3, <1>4
  <1>10. stopPointer \in Nat /\ ToSet(blocks) \subseteq Nat
         /\ (stopOffset # 0 => stopPointer = stopOffset)
    BY <1>3, StopsBehind, BlocksWithin
  <1>11. ASSUME NEW x \in ToSet(blocks')
         PROVE  Ended(x)' /\ Successors(x)' = Successors(x)
    <2>1. /\ x \in ToSet(blocks) /\ x # b /\ x \in Nat
          /\ HasTerminator(body[x]) /\ Successors(x) \subseteq ToSet(blocks)
          /\ Splits(Last(body[x])) => getNextBlockOffset(x, stopPointer) = Behind(method, x)
      BY <1>3, <1>6, <1>10 DEF Ended
    <2>2. PICK t : t = Last(body[x])
      OBVIOUS
    <2>3. HasTerminator(body[x])' /\ Last(body[x])' = t
      BY <1>6, <2>1, <2>2
    <2>4. ASSUME Splits(t)
          PROVE  getNextBlockOffset(x, stopPointer)' = getNextBlockOffset(x, stopPointer)
      <3>1. Successors(x) = {t.extra, getNextBlockOffset(x, stopPointer)}
        BY <2>1, <2>2, <2>4, SuccessorsOf
      <3>2. getNextBlockOffset(x, stopPointer) # b
        BY <1>9, <2>1, <3>1
      <3>3. \E limit \in Nat : limit = stopPointer
        BY <1>10
      <3>4. PICK limit \in Nat : limit = stopPointer
        BY <3>3
      <3>5. getNextBlockOffset(x, limit)' = getNextBlockOffset(x, limit)
        BY <1>4, <1>10, <2>1, <3>2, <3>4, NextKept
      <3>6. QED BY <1>5, <3>4, <3>5 DEF getNextBlockOffset
    <2>5. Successors(x) = CASE Jumps(t) -> {t.extra}
                            [] Splits(t) -> {t.extra, getNextBlockOffset(x, stopPointer)}
                            [] OTHER -> {}
      BY <2>1, <2>2, Zenon DEF Successors, Jumps, Splits
    <2>6. Successors(x)' = CASE Jumps(t) -> {t.extra}
                             [] Splits(t) -> {t.extra, getNextBlockOffset(x, stopPointer)'}
                             [] OTHER -> {}
      BY <2>3, Zenon DEF Successors, Jumps, Splits
    <2>7. Successors(x)' = Successors(x)
      BY <2>4, <2>5, <2>6, Kinds
    <2>8. Successors(x)' \subseteq ToSet(blocks')
      BY <1>4, <1>9, <2>1, <2>7
    <2>9. Ended(x)'
      BY <1>2, <2>1, <2>2, <2>3, <2>4, <2>8 DEF Ended
    <2>10. QED BY <2>7, <2>9
  <1>12. ASSUME NEW x \in ToSet(blocks')
         PROVE  /\ referers'[x] \cap ToSet(blocks') = {c \in ToSet(blocks') : x \in Successors(c)'}
                /\ stopOffset' # 0 => referers'[x] \subseteq ToSet(blocks')
    <2>1. x \in ToSet(blocks) /\ x # b
      BY <1>6
    <2>2. referers[x] \cap ToSet(blocks) = {c \in ToSet(blocks) : x \in Successors(c)}
      BY <1>3, <2>1
    <2>3. referers'[x] \cap ToSet(blocks') = referers[x] \cap ToSet(blocks')
      BY <1>4, <1>6
    <2>4. referers[x] \cap ToSet(blocks') = {c \in ToSet(blocks') : x \in Successors(c)}
      BY <1>4, <2>2
    <2>5. {c \in ToSet(blocks') : x \in Successors(c)} = {c \in ToSet(blocks') : x \in Successors(c)'}
      BY <1>11
    <2>6. ASSUME stopOffset' # 0 PROVE referers'[x] \subseteq ToSet(blocks')
      <3>1. referers[x] \subseteq ToSet(blocks) /\ stopPointer = stopOffset /\ HasTerminator(body[b])
        BY <1>3, <1>4, <1>5, <1>10, <2>1, <2>6 DEF Ended
      <3>2. ASSUME b \in referers[x] PROVE x \in Abandoned(b)
        <4>1. x \in Successors(b)
          BY <1>4, <2>2, <3>2
        <4>2. PICK t : t = Last(body[b])
          OBVIOUS
        <4>3. /\ Jumps(t) => Successors(b) = {t.extra}
              /\ Splits(t) => Successors(b) = {t.extra, getNextBlockOffset(b, stopPointer)}
              /\ ~isBranch(t) => Successors(b) = {}
          BY <3>1, <4>2, SuccessorsOf
        <4>4. isBranch(t)
          BY <4>1, <4>3
        <4>5. Abandoned(b) = {t.extra} \cup (IF Jumps(t) THEN {}
                                             ELSE {getNextBlockOffset(b, stopOffset)})
          BY <3>1, <4>2, <4>4, Zenon DEF Abandoned, Jumps
        <4>6. getNextBlockOffset(b, stopOffset) = getNextBlockOffset(b, stopPointer)
          BY <3>1
        <4>7. QED BY <4>1, <4>3, <4>4, <4>5, <4>6, Kinds
      <3>3. QED BY <1>4, <1>6, <3>1, <3>2
    <2>7. QED BY <2>3, <2>4, <2>5, <2>6
  <1>13. Wiping(place, outer)'
    BY <1>7, <1>8, <1>11, <1>12 DEF Wiping
  <1>14. QED BY <1>2, <1>3, <1>13 DEF Divides

\* The invariant of the parser is inductive.
LEMMA ParseStep ==
  ASSUME ParseInv, ParseNext \/ Handed \/ UNCHANGED parseVars
  PROVE  ParseInv'
  <1>1. PICK place, outer, lo, hi : Divides(place, outer, lo, hi)
    BY DEF ParseInv
  <1>2. phase = "wipe" => cursor \in Nat \ {0}
    BY DEF ParseInv
  <1>3. CASE Collect
    <2>1. phase' = "collect"
      BY <1>3 DEF Collect
    <2>2. Divides(place, outer, lo, hi)'
      BY <1>1, <1>3, CollectStep
    <2>3. QED BY <2>1, <2>2 DEF ParseInv
  <1>4. CASE StartPopulating
    <2>1. phase' = "populate"
      BY <1>4 DEF StartPopulating
    <2>2. Divides(place, outer, lo, hi)'
      BY <1>1, <1>4, StartPopulatingStep
    <2>3. QED BY <2>1, <2>2 DEF ParseInv
  <1>5. CASE Populate
    <2>1. phase' = "populate"
      BY <1>5 DEF Populate
    <2>2. Divides(place, outer, lo, hi)'
      BY <1>1, <1>5, PopulateStep
    <2>3. QED BY <2>1, <2>2 DEF ParseInv
  <1>6. CASE StartWiping
    <2>1. cursor' = 1
      BY <1>6 DEF StartWiping
    <2>2. Divides(place, outer, lo, hi)'
      BY <1>1, <1>6, StartWipingStep
    <2>3. QED BY <2>1, <2>2 DEF ParseInv
  <1>7. CASE Wipe
    <2>1. /\ phase = "wipe" /\ phase' = "wipe" /\ method' = method /\ unit' = unit
          /\ IF referers[blocks[cursor]] = {} /\ blocks[cursor] # startOffset
             THEN cursor' = cursor
             ELSE cursor' = cursor + 1 /\ UNCHANGED <<blocks, body, referers>>
      BY <1>7 DEF Wipe
    <2>2. cursor \in Nat \ {0} /\ cursor' \in Nat \ {0}
      BY <1>2, <2>1
    <2>3. CASE referers[blocks[cursor]] = {} /\ blocks[cursor] # startOffset
      <3>1. Divides(place, outer, lo, hi)'
        BY <1>1, <1>7, <2>2, <2>3, EraseStep
      <3>2. QED BY <2>2, <3>1 DEF ParseInv
    <2>4. CASE ~(referers[blocks[cursor]] = {} /\ blocks[cursor] # startOffset)
      <3>1. Divides(place, outer, lo, hi)'
        BY <1>1, <2>1, <2>4, BlocksKept
      <3>2. QED BY <2>2, <3>1 DEF ParseInv
    <2>5. QED BY <2>3, <2>4
  <1>8. CASE Rescan
    <2>1. /\ phase = "wipe" /\ phase' \in {"wipe", "construct"} /\ cursor' = 1
          /\ UNCHANGED <<method, unit, blocks, body, referers>>
      BY <1>8 DEF Rescan
    <2>2. Divides(place, outer, lo, hi)'
      BY <1>1, <2>1, BlocksKept
    <2>3. QED BY <2>1, <2>2 DEF ParseInv
  <1>9. CASE Handed
    <2>1. /\ phase \notin {"collect", "populate", "wipe"} /\ phase' \notin {"collect", "populate", "wipe"}
          /\ UNCHANGED <<method, unit, blocks, body, referers>>
      BY <1>9 DEF Handed, Parsed
    <2>2. Divides(place, outer, lo, hi)'
      BY <1>1, <2>1, BlocksKept
    <2>3. QED BY <2>1, <2>2 DEF ParseInv
  <1>10. CASE UNCHANGED parseVars
    <2>1. UNCHANGED <<method, unit, phase, pointer, blocks, body, referers, current, dead, cursor>>
      BY <1>10 DEF parseVars
    <2>2. Divides(place, outer, lo, hi)' <=> Divides(place, outer, lo, hi)
      BY <2>1 DEF Divides, Collecting, Populating, Wiping, Divided, InStep, BlocksOf, Tables,
                  Ended, Successors, getNextBlockOffset, startOffset, stopOffset, stopPointer,
                  Bytes
    <2>3. QED BY <1>1, <1>2, <2>1, <2>2 DEF ParseInv
  <1>11. QED BY <1>3, <1>4, <1>5, <1>6, <1>7, <1>8, <1>9, <1>10 DEF ParseNext

\* What the invariant says when the parser is done.
LEMMA DividedAsEmitted ==
  ASSUME ParseInv
  PROVE  BlocksAsEmitted
  <1>1. PICK place, outer, lo, hi : Divides(place, outer, lo, hi)
    BY DEF ParseInv
  <1>2. Laid(method, unit, place, outer, lo, hi)
    BY <1>1 DEF Divides
  <1>3. ASSUME phase \in {"collect", "populate"}, pointer < Len(Bytes) - Padding
        PROVE  \E k \in DOMAIN method.code :
                 pointer = method.starts[k] /\ Decoded.instr = method.code[k]
    <2> DEFINE n == Len(method.code)
    <2>1. InStep(place, lo, hi)
      BY <1>1, <1>3 DEF Divides, Collecting, Populating
    <2>2. /\ n \in Nat /\ lo \in 1 .. n /\ hi \in 1 .. n /\ DOMAIN method.code = 1 .. n
          /\ place \in [1 .. n + 1 -> Nat]
          /\ \A j, k \in 1 .. n + 1 : j < k => place[j] < place[k]
          /\ \A k \in 1 .. n : method.starts[k] = place[k]
          /\ unit[2] = 0 => hi = n \/ place[hi + 1] = 0
          /\ Len(method.byteCodes) = place[n + 1] + Padding
      BY <1>2 DEF Laid
    <2>3. pointer < place[n + 1] /\ place[n + 1] \in Nat
      <3>1. place[n + 1] \in Nat
        BY <2>2
      <3>2. QED BY <1>3, <2>2, <3>1, PaddingAssumption DEF Bytes
    <2>4. unit[2] = 0 => hi = n
      <3>1. place[hi + 1] # 0
        <4>1. 1 \in 1 .. n + 1 /\ hi + 1 \in 1 .. n + 1 /\ 1 < hi + 1
          BY <2>2
        <4>2. place[1] < place[hi + 1] /\ place[1] \in Nat /\ place[hi + 1] \in Nat
          BY <2>2, <4>1
        <4>3. QED BY <4>2
      <3>2. QED BY <2>2, <3>1
    <2>5. PICK k \in lo .. hi + 1 : pointer = place[k]
      BY <2>1, <2>3, <2>4 DEF InStep, stopOffset
    <2>6. k \in 1 .. n
      <3>1. k \in 1 .. n + 1
        BY <2>2
      <3>2. k # n + 1
        BY <2>3, <2>5
      <3>3. QED BY <2>2, <3>1, <3>2
    <2>7. decodeAndShiftPointer(method.byteCodes, place[k])
            = [instr |-> method.code[k], next |-> place[k + 1]]
      BY <1>2, <2>6 DEF Laid
    <2>8. Decoded.instr = method.code[k]
      BY <2>5, <2>7 DEF Decoded, Bytes
    <2>9. QED BY <2>2, <2>5, <2>6, <2>8
  <1>4. ASSUME Parsed PROVE BlocksExact
    <2>1. Wiping(place, outer)
      BY <1>1, <1>4 DEF Divides, Parsed
    <2>2. /\ DOMAIN referers = ToSet(blocks)
          /\ \A b \in ToSet(blocks) :
               /\ \A k \in 1 .. Len(body[b]) - 1 : ~isTerminator(body[b][k])
               /\ Ended(b)
               /\ referers[b] \cap ToSet(blocks) = {c \in ToSet(blocks) : b \in Successors(c)}
               /\ stopOffset # 0 => referers[b] \subseteq ToSet(blocks)
      BY <2>1 DEF Wiping, Tables
    <2>3. ASSUME NEW b \in ToSet(blocks)
          PROVE  referers[b] \ Orphaned = {c \in ToSet(blocks) : b \in Successors(c)}
      <3>1. referers[b] \subseteq UNION {referers[x] : x \in DOMAIN referers}
        BY <2>2
      <3>2. referers[b] \ Orphaned = referers[b] \cap ToSet(blocks)
        <4>1. PICK U : U = UNION {referers[x] : x \in DOMAIN referers}
          OBVIOUS
        <4>2. Orphaned = U \ ToSet(blocks) /\ referers[b] \subseteq U
          BY <3>1, <4>1 DEF Orphaned
        <4>3. QED BY <4>2
      <3>3. QED BY <2>2, <3>2
    <2>4. stopOffset # 0 => Orphaned = {}
      <3>1. ASSUME stopOffset # 0
            PROVE  \A y \in UNION {referers[x] : x \in DOMAIN referers} : y \in ToSet(blocks)
        BY <2>2, <3>1
      <3>2. PICK U : U = UNION {referers[x] : x \in DOMAIN referers}
        OBVIOUS
      <3>3. Orphaned = U \ ToSet(blocks) /\ (stopOffset # 0 => \A y \in U : y \in ToSet(blocks))
        BY <3>1, <3>2 DEF Orphaned
      <3>4. QED BY <3>3
    <2>5. \A b \in ToSet(blocks) :
            /\ HasTerminator(body[b])
            /\ IsSpecial(Last(body[b]), {"branchIfTrue", "branchIfFalse"}) =>
                 getNextBlockOffset(b, stopPointer) = Behind(method, b)
      BY <2>2 DEF Ended, Splits
    <2>6. QED BY <2>2, <2>3, <2>4, <2>5 DEF BlocksExact
  <1>5. BlocksExact
    BY <1>4 DEF BlocksExact
  <1>6. QED BY <1>3, <1>5 DEF BlocksAsEmitted, DecodedAsEmitted

-----------------------------------------------------------------------------
\* The code of block b holds instruction k.
Inside(code, place, b, k) == code[b].op = "pushBlock" /\ b < k /\ place[k] < code[b].extra

Together(code, place, j, k) ==
  \A b \in 1 .. Len(code) : Inside(code, place, b, j) <=> Inside(code, place, b, k)

\* What WellFormed() says, with the offsets of the instructions.
Nested(code, place, n) ==
  /\ n \in Nat \ {0} /\ n = Len(code) /\ DOMAIN code = 1 .. n
  /\ place \in [1 .. n + 1 -> Nat]
  /\ \A j, k \in 1 .. n + 1 : j < k => place[j] < place[k]
  /\ Returns(code[n]) /\ Together(code, place, n, 1)
  /\ \A k \in 1 .. n :
       /\ code[k].op = "pushBlock" =>
            \E e \in 1 .. n :
              /\ k + 1 < e /\ code[k].extra = place[e] /\ Together(code, place, e, k)
              /\ Returns(code[e - 1]) /\ Together(code, place, e - 1, k + 1)
       /\ isBranch(code[k]) =>
            /\ \E t \in 1 .. n : code[k].extra = place[t] /\ Together(code, place, t, k)
            /\ \/ Splits(code[k])
               \/ \E c \in 1 .. n : /\ Splits(code[c]) /\ Together(code, place, c, k) /\ k + 1 \in 1 .. n
                                    /\ code[c].extra = place[k + 1]

\* Well-formed code in terms of the offsets of its instructions.
LEMMA WellFormedNested ==
  ASSUME NEW code, WellFormed(code), NEW place, place = Places(code), NEW n, n = Len(code)
  PROVE  Nested(code, place, n) /\ code \in Seq(Encodable)
  <1> DEFINE Here         == DOMAIN code
             start        == [k \in Here |-> SizeOf(SubSeq(code, 1, k - 1))]
             inside(b, k) == code[b].op = "pushBlock" /\ b < k /\ start[k] < code[b].extra
             together(j, k) == \A b \in Here : inside(b, j) <=> inside(b, k)
  <1>1. /\ code \in Seq(Encodable) /\ code # <<>>
        /\ Returns(code[Len(code)]) /\ together(Len(code), 1)
        /\ \A k \in Here :
             /\ code[k].op = "pushBlock" =>
                  \E e \in Here :
                    /\ k + 1 < e /\ code[k].extra = start[e] /\ together(e, k)
                    /\ Returns(code[e - 1]) /\ together(e - 1, k + 1)
             /\ isBranch(code[k]) =>
                  /\ \E t \in Here : code[k].extra = start[t] /\ together(t, k)
                  /\ Splits(code[k]) \/ \E c \in Here : /\ Splits(code[c]) /\ together(c, k) /\ k + 1 \in Here
                                                        /\ code[c].extra = start[k + 1]
    BY Zenon DEF WellFormed, Returns, Splits
  <1>2. n \in Nat \ {0} /\ DOMAIN code = 1 .. n /\ Here = 1 .. n
    BY <1>1
  <1>3. /\ place \in [1 .. n + 1 -> Nat]
        /\ \A j, k \in 1 .. n + 1 : j < k => place[j] < place[k]
    <2>1. PICK bytes : bytes = ByteCodes(code)
      OBVIOUS
    <2>2. n \in Nat
      BY <1>2
    <2>3. QED BY <1>1, <2>1, <2>2, CodePlaces DEF Holds
  <1>4. \A k \in 1 .. n : start[k] = place[k]
    <2>1. ASSUME NEW k \in 1 .. n PROVE start[k] = place[k]
      <3>1. k \in 1 .. Len(code) + 1 /\ k \in Here
        BY <1>2
      <3>2. place[k] = SizeOf(SubSeq(code, 1, k - 1))
        BY <3>1 DEF Places
      <3>3. start[k] = SizeOf(SubSeq(code, 1, k - 1))
        BY <3>1, Zenon
      <3>4. QED BY <3>2, <3>3
    <2>2. QED BY <2>1
  <1> HIDE DEF start
  <1>5. ASSUME NEW j \in 1 .. n, NEW k \in 1 .. n
        PROVE  together(j, k) <=> Together(code, place, j, k)
    <2>1. start[j] = place[j] /\ start[k] = place[k]
      BY <1>4
    <2>2. QED BY <1>2, <2>1 DEF Together, Inside
  <1> HIDE DEF together, Here
  <1>6. Returns(code[n]) /\ Together(code, place, n, 1)
    <2>1. n \in 1 .. n /\ 1 \in 1 .. n
      BY <1>2
    <2>2. QED BY <1>1, <1>5, <2>1
  <1>7. ASSUME NEW k \in 1 .. n, code[k].op = "pushBlock"
        PROVE  \E e \in 1 .. n :
                 /\ k + 1 < e /\ code[k].extra = place[e] /\ Together(code, place, e, k)
                 /\ Returns(code[e - 1]) /\ Together(code, place, e - 1, k + 1)
    <2>1. PICK e \in 1 .. n :
                 /\ k + 1 < e /\ code[k].extra = start[e] /\ together(e, k)
                 /\ Returns(code[e - 1]) /\ together(e - 1, k + 1)
      BY <1>1, <1>2, <1>7
    <2>2. e - 1 \in 1 .. n /\ k + 1 \in 1 .. n
      BY <1>2, <2>1
    <2>3. Together(code, place, e, k) /\ Together(code, place, e - 1, k + 1)
      BY <1>5, <2>1, <2>2
    <2>4. QED BY <1>4, <2>1, <2>3
  <1>8. ASSUME NEW k \in 1 .. n, isBranch(code[k])
        PROVE  /\ \E t \in 1 .. n : code[k].extra = place[t] /\ Together(code, place, t, k)
               /\ \/ Splits(code[k])
                  \/ \E c \in 1 .. n : /\ Splits(code[c]) /\ Together(code, place, c, k) /\ k + 1 \in 1 .. n
                                       /\ code[c].extra = place[k + 1]
    <2>1. \E t \in 1 .. n : code[k].extra = place[t] /\ Together(code, place, t, k)
      <3>1. PICK t \in 1 .. n : code[k].extra = start[t] /\ together(t, k)
        BY <1>1, <1>2, <1>8
      <3>2. QED BY <1>4, <1>5, <3>1
    <2>2. CASE ~Splits(code[k])
      <3>1. PICK c \in 1 .. n : /\ Splits(code[c]) /\ together(c, k) /\ k + 1 \in 1 .. n
                                /\ code[c].extra = start[k + 1]
        BY <1>1, <1>2, <1>8, <2>2
      <3>2. Together(code, place, c, k) /\ start[k + 1] = place[k + 1]
        BY <1>4, <1>5, <3>1
      <3>3. QED BY <2>1, <3>1, <3>2
    <2>3. QED BY <2>1, <2>2
  <1>9. QED BY <1>1, <1>2, <1>3, <1>6, <1>7, <1>8 DEF Nested

\* The instructions from lo to hi that are not in a block among them.
OuterOf(code, place, lo, hi) ==
  {k \in lo .. hi : \A b \in lo .. hi : ~Inside(code, place, b, k)}

\* Where a unit may begin and end.
Bounds(code, place, n, lo, hi) ==
  /\ lo \in 1 .. n /\ hi \in 1 .. n /\ lo <= hi
  /\ Returns(code[hi]) /\ Together(code, place, hi, lo)
  /\ \A j \in lo .. hi, t \in 1 .. n : Together(code, place, t, j) => t \in lo .. hi

\* Blocks hold both of two instructions or neither.
LEMMA OuterTogether ==
  ASSUME NEW code, NEW place, NEW n, Nested(code, place, n),
         NEW lo, NEW hi, Bounds(code, place, n, lo, hi),
         NEW k \in OuterOf(code, place, lo, hi), NEW t \in 1 .. n, Together(code, place, t, k)
  PROVE  t \in OuterOf(code, place, lo, hi)
  <1>1. k \in lo .. hi /\ \A b \in lo .. hi : ~Inside(code, place, b, k)
    BY DEF OuterOf
  <1>2. t \in lo .. hi /\ lo \in 1 .. n /\ hi \in 1 .. n /\ n = Len(code) /\ n \in Nat
    BY <1>1 DEF Bounds, Nested
  <1>3. \A b \in lo .. hi : b \in 1 .. n
    BY <1>2
  <1>4. \A b \in 1 .. n : Inside(code, place, b, t) <=> Inside(code, place, b, k)
    BY <1>2 DEF Together
  <1>5. \A b \in lo .. hi : ~Inside(code, place, b, t)
    BY <1>1, <1>3, <1>4
  <1>6. QED BY <1>2, <1>5 DEF OuterOf

\* What control meets in a unit is the unit's.
LEMMA OuterCloses ==
  ASSUME NEW code, NEW place, NEW n, Nested(code, place, n),
         NEW lo, NEW hi, Bounds(code, place, n, lo, hi),
         NEW outer, outer = OuterOf(code, place, lo, hi)
  PROVE  /\ outer \subseteq lo .. hi /\ lo \in outer /\ hi \in outer
         /\ \A k \in outer :
              /\ k # hi /\ code[k].op # "pushBlock" => k + 1 \in outer
              /\ code[k].op = "pushBlock" =>
                   \E j \in outer : /\ k < j /\ code[k].extra = place[j]
                                    /\ \A i \in outer : i <= k \/ j <= i
              /\ isBranch(code[k]) =>
                   /\ \E t \in outer : code[k].extra = place[t]
                   /\ \E c \in outer : place[k + 1] \in Aims(code[c], place[c + 1])
  <1>1. /\ lo \in 1 .. n /\ hi \in 1 .. n /\ lo <= hi /\ n \in Nat /\ n = Len(code)
        /\ place \in [1 .. n + 1 -> Nat]
        /\ \A j, k \in 1 .. n + 1 : j < k => place[j] < place[k]
    BY DEF Bounds, Nested
  <1>2. outer \subseteq lo .. hi /\ \A k \in lo .. hi : k \in 1 .. n /\ k + 1 \in 1 .. n + 1
    BY <1>1 DEF OuterOf
  <1>3. lo \in outer
    BY <1>1 DEF OuterOf, Inside
  <1>4. hi \in outer
    BY <1>1, <1>3, OuterTogether DEF Bounds
  <1>5. ASSUME NEW k \in outer, k # hi, code[k].op # "pushBlock" PROVE k + 1 \in outer
    <2>1. k \in lo .. hi /\ k + 1 \in lo .. hi /\ \A b \in lo .. hi : ~Inside(code, place, b, k)
      BY <1>1, <1>2, <1>5 DEF OuterOf
    <2>2. ASSUME NEW b \in lo .. hi, Inside(code, place, b, k + 1) PROVE FALSE
      <3>1. code[b].op = "pushBlock" /\ b < k + 1 /\ place[k + 1] < code[b].extra
        BY <2>2 DEF Inside
      <3>2. b < k
        BY <1>1, <1>2, <1>5, <2>1, <2>2, <3>1
      <3>3. code[b].extra \in Nat
        <4>1. PICK e \in 1 .. n : code[b].extra = place[e]
          BY <1>2, <3>1 DEF Nested
        <4>2. QED BY <1>1, <4>1
      <3>4. place[k] < place[k + 1] /\ place[k] \in Nat /\ place[k + 1] \in Nat
        <4>1. k \in 1 .. n + 1 /\ k + 1 \in 1 .. n + 1 /\ k < k + 1
          BY <1>1, <1>2, <2>1
        <4>2. QED BY <1>1, <4>1
      <3>5. Inside(code, place, b, k)
        BY <3>1, <3>2, <3>3, <3>4 DEF Inside
      <3>6. QED BY <2>1, <3>5
    <2>3. QED BY <2>1, <2>2 DEF OuterOf
  <1>6. ASSUME NEW k \in outer, code[k].op = "pushBlock"
        PROVE  \E j \in outer : /\ k < j /\ code[k].extra = place[j]
                                /\ \A i \in outer : i <= k \/ j <= i
    <2>1. k \in lo .. hi /\ k \in 1 .. n
      BY <1>2
    <2>2. PICK e \in 1 .. n : k + 1 < e /\ code[k].extra = place[e] /\ Together(code, place, e, k)
      BY <1>6, <2>1 DEF Nested
    <2>3. e \in outer
      BY <2>2, OuterTogether
    <2>4. ASSUME NEW i \in outer, ~(i <= k), ~(e <= i) PROVE FALSE
      <3>1. i \in lo .. hi /\ ~Inside(code, place, k, i)
        BY <2>1 DEF OuterOf
      <3>2. i \in 1 .. n + 1 /\ e \in 1 .. n + 1 /\ i < e /\ k < i
        BY <1>1, <1>2, <2>1, <2>4, <3>1
      <3>3. place[i] < place[e]
        BY <1>1, <3>2
      <3>4. QED BY <1>6, <2>2, <3>1, <3>2, <3>3 DEF Inside
    <2>5. k < e
      BY <2>1, <2>2
    <2>6. QED BY <2>2, <2>3, <2>4, <2>5
  <1>7. ASSUME NEW k \in outer, isBranch(code[k])
        PROVE  /\ \E t \in outer : code[k].extra = place[t]
               /\ \E c \in outer : place[k + 1] \in Aims(code[c], place[c + 1])
    <2>1. k \in 1 .. n
      BY <1>2
    <2>2. \E t \in outer : code[k].extra = place[t]
      <3>1. PICK t \in 1 .. n : code[k].extra = place[t] /\ Together(code, place, t, k)
        BY <1>7, <2>1 DEF Nested
      <3>2. t \in outer
        BY <3>1, OuterTogether
      <3>3. QED BY <3>1, <3>2
    <2>3. CASE Splits(code[k])
      <3>1. place[k + 1] \in Aims(code[k], place[k + 1])
        BY <2>3 DEF Aims
      <3>2. QED BY <2>2, <3>1
    <2>4. CASE ~Splits(code[k])
      <3>1. PICK c \in 1 .. n : /\ Splits(code[c]) /\ Together(code, place, c, k)
                                /\ code[c].extra = place[k + 1]
        BY <1>7, <2>1, <2>4 DEF Nested
      <3>2. c \in outer
        BY <3>1, OuterTogether
      <3>3. place[k + 1] \in Aims(code[c], place[c + 1])
        BY <3>1 DEF Aims
      <3>4. QED BY <2>2, <3>2, <3>3
    <2>5. QED BY <2>3, <2>4
  <1>8. QED BY <1>2, <1>3, <1>4, <1>5, <1>6, <1>7

\* The unit of a method that has its instructions from lo to hi.
UnitAt(m, u, code, place, n, lo, hi) ==
  /\ m.code = code /\ m.byteCodes = ByteCodes(code)
  /\ \A k \in 1 .. n : m.starts[k] = place[k]
  /\ u[1] = place[lo]
  /\ \/ u[2] = 0 /\ hi = n
     \/ u[2] = place[hi + 1] /\ hi < n

\* Control that goes on from b meets a conditional branch at e first.
Meets(code, outer, b, e) ==
  /\ b <= e /\ Splits(code[e])
  /\ \A k \in outer : b <= k /\ k < e => ~isTerminator(code[k])

\* The terminator control meets first is the one Behind() finds.
LEMMA BehindIs ==
  ASSUME NEW code, NEW place, NEW n, Nested(code, place, n),
         NEW lo, NEW hi, Bounds(code, place, n, lo, hi),
         NEW m, NEW u, UnitAt(m, u, code, place, n, lo, hi),
         NEW outer, outer = OuterOf(code, place, lo, hi),
         NEW b \in outer, NEW e \in outer, Meets(code, outer, b, e)
  PROVE  Behind(m, place[b]) = place[e + 1]
  <1>1. /\ lo \in 1 .. n /\ hi \in 1 .. n /\ lo <= hi /\ n \in Nat /\ n = Len(code)
        /\ DOMAIN code = 1 .. n /\ Returns(code[hi])
        /\ place \in [1 .. n + 1 -> Nat]
        /\ \A j, k \in 1 .. n + 1 : j < k => place[j] < place[k]
        /\ b <= e /\ Splits(code[e])
        /\ \A k \in outer : b <= k /\ k < e => ~isTerminator(code[k])
        /\ code = m.code /\ \A k \in 1 .. n : m.starts[k] = place[k]
    BY DEF Bounds, Nested, Meets, UnitAt
  <1>2. /\ b \in lo .. hi /\ e \in lo .. hi /\ b \in 1 .. n /\ e \in 1 .. n
        /\ \A q \in lo .. hi : ~Inside(code, place, q, b) /\ ~Inside(code, place, q, e)
    BY <1>1 DEF OuterOf
  <1>3. e + 1 \in 1 .. n
    <2>1. e # hi
      BY <1>1, Kinds
    <2>2. QED BY <1>1, <1>2, <2>1
  <1> DEFINE first        == CHOOSE k \in DOMAIN m.code : m.starts[k] = place[b]
             nested(f, k) == \E q \in f .. k - 1 :
                               m.code[q].op = "pushBlock" /\ m.starts[k] < m.code[q].extra
             Ends(f)      == {k \in f .. Len(m.code) : isTerminator(m.code[k]) /\ ~nested(f, k)}
             At(S)        == m.starts[(CHOOSE k \in S : \A j \in S : k <= j) + 1]
  <1>4. Behind(m, place[b]) = At(Ends(first))
    BY DEF Behind
  <1>5. first = b
    <2>1. \E k \in DOMAIN m.code : m.starts[k] = place[b]
      BY <1>1, <1>2
    <2>2. first \in 1 .. n /\ m.starts[first] = place[b]
      BY <1>1, <2>1
    <2> HIDE DEF first
    <2>3. place[first] = place[b]
      BY <1>1, <2>2
    <2>4. first \in 1 .. n + 1 /\ b \in 1 .. n + 1
      BY <1>1, <1>2, <2>2
    <2>5. PICK f \in 1 .. n + 1 : f = first
      BY <2>4
    <2>6. place[f] = place[b] /\ place[f] \in Nat /\ (f < b \/ b < f \/ f = b)
      BY <1>1, <2>3, <2>4, <2>5
    <2>7. f = b
      BY <1>1, <2>4, <2>6
    <2>8. QED BY <2>5, <2>7
  <1> HIDE DEF first, Ends, At
  <1>6. PICK ends : ends = Ends(b)
    OBVIOUS
  <1>7. Behind(m, place[b]) = At(ends)
    BY <1>4, <1>5, <1>6
  <1>8. ASSUME NEW k \in b .. n PROVE nested(b, k) <=> \E q \in b .. k - 1 : Inside(code, place, q, k)
    <2>1. k \in 1 .. n /\ m.starts[k] = place[k]
      BY <1>1, <1>2, <1>8
    <2>2. \A q \in b .. k - 1 : q < k
      BY <1>2
    <2>3. QED BY <1>1, <2>1, <2>2 DEF Inside
  <1>9. ends = {k \in b .. n : isTerminator(code[k]) /\ ~\E q \in b .. k - 1 : Inside(code, place, q, k)}
    BY <1>1, <1>6, <1>8 DEF Ends
  <1> HIDE DEF nested
  <1>10. e \in ends
    <2>1. \A q \in b .. e - 1 : q \in lo .. hi
      BY <1>1, <1>2
    <2>2. e \in b .. n /\ isTerminator(code[e])
      BY <1>1, <1>2, Kinds
    <2>3. QED BY <1>2, <1>9, <2>1, <2>2
  <1>11. ASSUME NEW j \in ends, j < e PROVE FALSE
    <2>1. j \in b .. n /\ isTerminator(code[j]) /\ ~\E q \in b .. j - 1 : Inside(code, place, q, j)
      BY <1>9
    <2>2. j \in lo .. hi /\ j \in 1 .. n + 1 /\ b <= j
      BY <1>1, <1>2, <1>11, <2>1
    <2>3. j \notin outer
      BY <1>1, <1>11, <2>1, <2>2
    <2>4. PICK q \in lo .. hi : Inside(code, place, q, j)
      BY <2>2, <2>3 DEF OuterOf
    <2>5. code[q].op = "pushBlock" /\ q < j /\ place[j] < code[q].extra
      BY <2>4 DEF Inside
    <2>6. q < b
      <3>1. ~(q \in b .. j - 1)
        BY <2>1, <2>4
      <3>2. QED BY <1>1, <1>2, <2>2, <2>5, <3>1
    <2>7. code[q].extra \in Nat
      <3>1. q \in 1 .. n
        BY <1>1
      <3>2. PICK x \in 1 .. n : code[q].extra = place[x]
        BY <2>5, <3>1 DEF Nested
      <3>3. x \in 1 .. n + 1
        BY <1>1
      <3>4. QED BY <1>1, <3>2, <3>3
    <2>8. place[b] <= place[j] /\ place[b] \in Nat /\ place[j] \in Nat
      <3>1. b \in 1 .. n + 1 /\ (b = j \/ b < j)
        BY <1>1, <1>2, <2>2
      <3>2. place[b] \in Nat /\ place[j] \in Nat
        BY <1>1, <2>2, <3>1
      <3>3. QED BY <1>1, <2>2, <3>1, <3>2
    <2>9. Inside(code, place, q, b)
      BY <2>5, <2>6, <2>7, <2>8 DEF Inside
    <2>10. QED BY <1>2, <2>9
  <1>12. (CHOOSE k \in ends : \A j \in ends : k <= j) = e
    <2>1. \A j \in ends : j \in Nat
      BY <1>2, <1>9
    <2>2. \A j \in ends : e <= j
      BY <1>2, <1>11, <2>1
    <2>3. PICK c : c = CHOOSE k \in ends : \A j \in ends : k <= j
      OBVIOUS
    <2>4. c \in ends /\ \A j \in ends : c <= j
      BY <1>10, <2>2, <2>3
    <2>5. c <= e /\ e <= c /\ c \in Nat /\ e \in Nat
      BY <1>10, <2>1, <2>2, <2>4
    <2>6. QED BY <2>3, <2>5
  <1>13. QED BY <1>1, <1>3, <1>7, <1>12 DEF At

\* A unit whose bounds are known is laid out as its instructions were emitted.
LEMMA BoundedLaid ==
  ASSUME NEW code \in Seq(Encodable), NEW place, place = Places(code), NEW n,
         Nested(code, place, n), NEW lo, NEW hi, Bounds(code, place, n, lo, hi),
         NEW m, NEW u, UnitAt(m, u, code, place, n, lo, hi)
  PROVE  Laid(m, u, place, OuterOf(code, place, lo, hi), lo, hi)
  <1>1. PICK outer : outer = OuterOf(code, place, lo, hi)
    OBVIOUS
  <1>2. /\ n \in Nat /\ n = Len(code) /\ DOMAIN code = 1 .. n
        /\ lo \in 1 .. n /\ hi \in 1 .. n /\ Returns(code[hi])
    BY DEF Nested, Bounds
  <1>3. PICK bytes : bytes = ByteCodes(code)
    OBVIOUS
  <1>4. /\ place \in [1 .. n + 1 -> Nat]
        /\ \A j, k \in 1 .. n + 1 : j < k => place[j] < place[k]
        /\ Len(bytes) = place[n + 1] + Padding
        /\ \A k \in 1 .. n : decodeAndShiftPointer(bytes, place[k])
                               = [instr |-> code[k], next |-> place[k + 1]]
        /\ \A p \in Nat : p >= place[n + 1] =>
             decodeAndShiftPointer(bytes, p) = [instr |-> Instr("extended", 0, 0), next |-> p + 2]
    <2>1. n \in Nat /\ code \in Seq(Encodable) /\ n = Len(code) /\ place = Places(code)
      BY <1>2
    <2>2. Holds(bytes, code, place, n)
      BY <1>3, <2>1, CodePlaces
    <2>3. QED BY <2>2 DEF Holds
  <1>5. /\ outer \subseteq lo .. hi /\ lo \in outer /\ hi \in outer
        /\ \A k \in outer :
             /\ k # hi /\ code[k].op # "pushBlock" => k + 1 \in outer
             /\ code[k].op = "pushBlock" =>
                  \E j \in outer : /\ k < j /\ code[k].extra = place[j]
                                   /\ \A i \in outer : i <= k \/ j <= i
             /\ isBranch(code[k]) =>
                  /\ \E t \in outer : code[k].extra = place[t]
                  /\ \E c \in outer : place[k + 1] \in Aims(code[c], place[c + 1])
    BY <1>1, OuterCloses
  <1>6. ASSUME NEW b \in outer, NEW e \in outer, b <= e, Splits(code[e]),
               \A k \in outer : b <= k /\ k < e => ~isTerminator(code[k])
        PROVE  Behind(m, place[b]) = place[e + 1]
    <2>1. UnitAt(m, u, code, place, n, lo, hi)
      OBVIOUS
    <2>2. Meets(code, outer, b, e)
      BY <1>6 DEF Meets
    <2>3. QED BY <1>1, <2>1, <2>2, BehindIs
  <1>7. Laid(m, u, place, outer, lo, hi)
    BY <1>2, <1>3, <1>4, <1>5, <1>6 DEF Laid, UnitAt
  <1>8. QED BY <1>1, <1>7

\* No instructions are no bytes.
LEMMA EncodedNone ==
  Len(Encode(<<>>)) = 0
  <1>1. [k \in DOMAIN <<>> |-> EncodeInstr(<<>>[k])] = <<>>
    OBVIOUS
  <1>2. FlattenSeq(<<>>) = <<>>
    <2>1. PICK g : Written(<<>>, 0, g)
      BY WrittenExists
    <2>2. QED BY <2>1, FlattenIs DEF Written
  <1>3. QED BY <1>1, <1>2 DEF Encode

\* A method, and each block in it, is laid out as ParseInv expects.
LEMMA UnitsLaid ==
  ASSUME NEW m \in TMethods, NEW u \in Units(m)
  PROVE  \E place, outer, lo, hi : Laid(m, u, place, outer, lo, hi)
  <1>1. PICK code : /\ WellFormed(code)
                    /\ m = [code |-> code, byteCodes |-> ByteCodes(code),
                            starts |-> [k \in DOMAIN code |-> SizeOf(SubSeq(code, 1, k - 1))]]
    BY SourcesAssumption DEF TMethods
  <1>2. PICK place, n : place = Places(code) /\ n = Len(code)
    OBVIOUS
  <1>3. Nested(code, place, n) /\ code \in Seq(Encodable)
    BY <1>1, <1>2, WellFormedNested
  <1>4. /\ n \in Nat \ {0} /\ n = Len(code) /\ DOMAIN code = 1 .. n
        /\ place \in [1 .. n + 1 -> Nat]
        /\ \A j, k \in 1 .. n + 1 : j < k => place[j] < place[k]
    BY <1>3 DEF Nested
  <1>5. m.code = code /\ m.byteCodes = ByteCodes(code) /\ \A k \in 1 .. n : m.starts[k] = place[k]
    <2>1. m.code = code /\ m.byteCodes = ByteCodes(code)
      BY <1>1
    <2>2. m.starts = [k \in DOMAIN code |-> SizeOf(SubSeq(code, 1, k - 1))]
      BY <1>1
    <2>3. ASSUME NEW k \in 1 .. n PROVE m.starts[k] = place[k]
      <3>1. k \in DOMAIN code /\ k \in 1 .. Len(code) + 1
        BY <1>4
      <3>2. m.starts[k] = SizeOf(SubSeq(code, 1, k - 1))
        BY <2>2, <3>1
      <3>3. place[k] = SizeOf(SubSeq(code, 1, k - 1))
        BY <1>2, <3>1 DEF Places
      <3>4. QED BY <3>2, <3>3
    <2>4. QED BY <2>1, <2>2, <2>3
  <1>6. CASE u = <<0, 0>>
    <2>1. Bounds(code, place, n, 1, n)
      BY <1>3, <1>4 DEF Bounds, Nested
    <2>2. place[1] = 0
      <3>1. 1 \in 1 .. Len(code) + 1
        BY <1>4
      <3>2. place[1] = SizeOf(SubSeq(code, 1, 0))
        BY <1>2, <3>1 DEF Places
      <3>3. place[1] = Len(Encode(<<>>))
        <4>1. SubSeq(code, 1, 0) = <<>>
          BY <1>3
        <4>2. QED BY <3>2, <4>1 DEF SizeOf
      <3>4. QED BY <3>3, EncodedNone
    <2>3. u[1] = place[1] /\ u[2] = 0
      BY <1>6, <2>2
    <2>4. UnitAt(m, u, code, place, n, 1, n)
      BY <1>5, <2>3 DEF UnitAt
    <2>4a. Laid(m, u, place, OuterOf(code, place, 1, n), 1, n)
      BY <1>2, <1>3, <2>1, <2>4, BoundedLaid
    <2>5. QED BY <2>4a
  <1>7. CASE u # <<0, 0>>
    <2>1. PICK q \in 1 .. n : /\ code[q].op = "pushBlock"
                              /\ u = <<m.starts[q + 1], code[q].extra>>
      BY <1>4, <1>5, <1>7 DEF Units
    <2>2. PICK e \in 1 .. n :
             /\ q + 1 < e /\ code[q].extra = place[e] /\ Together(code, place, e, q)
             /\ Returns(code[e - 1]) /\ Together(code, place, e - 1, q + 1)
      BY <1>3, <2>1 DEF Nested
    <2>3. PICK lo, hi : lo = q + 1 /\ hi = e - 1
      OBVIOUS
    <2>4. lo \in 1 .. n /\ hi \in 1 .. n /\ lo <= hi /\ hi + 1 = e /\ hi < n
      BY <1>4, <2>2, <2>3
    <2>5. ASSUME NEW j \in lo .. hi, NEW t \in 1 .. n, Together(code, place, t, j)
          PROVE  t \in lo .. hi
      <3>1. j \in 1 .. n + 1 /\ e \in 1 .. n + 1 /\ t \in 1 .. n + 1 /\ j < e /\ q < j
        BY <1>4, <2>3, <2>4
      <3>2. Inside(code, place, q, j)
        BY <1>4, <2>1, <2>2, <3>1 DEF Inside
      <3>3. Inside(code, place, q, t)
        BY <1>4, <2>5, <3>2 DEF Together
      <3>4. q < t /\ place[t] < place[e]
        BY <2>2, <3>3 DEF Inside
      <3>5. ~(e <= t)
        <4>1. ~(e < t) /\ e # t
          BY <1>4, <3>1, <3>4
        <4>2. QED BY <3>1, <4>1
      <3>6. QED BY <2>3, <3>1, <3>4, <3>5
    <2>6. Bounds(code, place, n, lo, hi)
      BY <2>2, <2>3, <2>4, <2>5 DEF Bounds
    <2>7. u[1] = place[lo] /\ u[2] = place[hi + 1]
      BY <1>5, <2>1, <2>2, <2>3, <2>4
    <2>8. UnitAt(m, u, code, place, n, lo, hi)
      BY <1>5, <2>4, <2>7 DEF UnitAt
    <2>9. Laid(m, u, place, OuterOf(code, place, lo, hi), lo, hi)
      BY <1>2, <1>3, <2>6, <2>8, BoundedLaid
    <2>10. QED BY <2>9
  <1>8. QED BY <1>6, <1>7

(***************************************************************************)
(* ParsedBytecode::parse() undoes the compiler of the image for every      *)
(* method whose code is well formed and every block in it: the decoder     *)
(* stands at instructions that were emitted, and the basic blocks that are *)
(* handed on have one terminator each, the referers that really branch to  *)
(* them, and behind a conditional branch the block that follows it.        *)
(***************************************************************************)
THEOREM ParsedAsEmitted == ParseSpec => []BlocksAsEmitted
  <1>1. ParseInit => ParseInv
    <2>1. SUFFICES ASSUME ParseInit PROVE ParseInv
      OBVIOUS
    <2>2. PICK place, outer, lo, hi : Laid(method, unit, place, outer, lo, hi)
      BY <2>1, UnitsLaid DEF ParseInit
    <2>3. Divides(place, outer, lo, hi)
      BY <2>1, <2>2, ParseInitDivides
    <2>4. phase = "collect"
      BY <2>1 DEF ParseInit
    <2>5. QED BY <2>3, <2>4 DEF ParseInv
  <1>2. ParseInv /\ [ParseNext \/ Handed]_parseVars => ParseInv'
    BY ParseStep
  <1>3. ParseInv => BlocksAsEmitted
    BY DividedAsEmitted
  <1>4. QED BY <1>1, <1>2, <1>3, PTL DEF ParseSpec
=============================================================================

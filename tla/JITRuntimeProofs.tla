-------------------------- MODULE JITRuntimeProofs --------------------------
(***************************************************************************)
(* Dispatch of JITRuntime for every class hierarchy, every set of methods  *)
(* and call sites, every placement of objects and every cache.             *)
(***************************************************************************)
EXTENDS JITRuntime, TLAPS

\* The method the dictionaries have under a name.
Current(f) == methods[f[1]][f[2]]

\* The names RunsOwnCode speaks of.
Settled(f) == f \notin changed /\ StaysPut(f)

\* a is the address object o had when it was noted; it is still there unless
\* it is dynamic and there was a collection since (old).
Noted(a, o, old) ==
  IF o \in Dynamic /\ old THEN a \in SpaceOne \union SpaceTwo ELSE a = loc[o]

Dictionary ==
  /\ \A c \in Classes, s \in Selectors :
       methods[c][s] # Nil => FunctionName(methods[c][s]) = <<c, s>>
  /\ Current(FunctionName(doesNotUnderstand)) = doesNotUnderstand

FunctionsCurrent ==
  \A f \in Names : Settled(f) =>
    functions[f].method \in {Nil, Current(f)} /\ functions[f].block \in {Nil, Current(f)}

FunctionsCached ==
  \A l \in Lines : functionCache[l].method # 0 =>
    \E m \in Methods : /\ functionCache[l].function = FunctionName(m)
                       /\ functions[FunctionName(m)].method # Nil
                       /\ Noted(functionCache[l].method, m, moved)

BlocksCached ==
  \A l \in Lines : blockCache[l].method # 0 =>
    \E m \in Methods : /\ blockCache[l].function = FunctionName(m)
                       /\ functions[FunctionName(m)].block # Nil
                       /\ Noted(blockCache[l].method, m, moved)

HotCurrent ==
  \A f \in Names : hotMethods[f].method # 0 =>
    /\ functions[f].method # Nil
    /\ StaysPut(f) => \E m \in Methods : /\ FunctionName(m) = f
                                         /\ hotMethods[f].method = loc[m]
                                         /\ f \notin changed => m = Current(f)

SitesNamed ==
  \A f \in Names, i \in Indices :
    hotMethods[f].sites[i].classes # {} => hotMethods[f].sites[i].selector \in Selectors

DirectsCurrent ==
  \A f \in Names, i \in Indices : \A d \in functions[f].direct[i] :
    \E m \in Methods : /\ d.function = FunctionName(m)
                       /\ functions[FunctionName(m)].method # Nil
                       /\ Noted(d.method, m, moves > 0)
                       /\ Settled(FunctionName(m)) => m = Current(FunctionName(m))

IInv ==
  /\ TypeOK
  /\ Dictionary
  /\ FunctionsCurrent
  /\ FunctionsCached
  /\ BlocksCached
  /\ HotCurrent
  /\ SitesNamed
  /\ DirectsCurrent
  /\ RunsOwnCode
  /\ moved => moves > 0

-----------------------------------------------------------------------------
(***************************************************************************)
(* lookupMethod().                                                         *)
(***************************************************************************)
\* The equation of the search: a class answers itself or asks its superclass.
Answers(dictionaries, f, selector) ==
  [k \in Classes |->
     IF dictionaries[k][selector] # Nil THEN dictionaries[k][selector]
     ELSE IF parentClass[k] = Nil THEN Nil
     ELSE f[parentClass[k]]]

\* The equation has a solution: the answer of the one class with a method on
\* the path the search takes from c, the smallest set that holds c and the
\* superclass of every class in it that has no method.
LEMMA SearchExists ==
  ASSUME NEW ms, NEW selector \in Selectors
  PROVE  \E f : f = Answers(ms, f, selector)
  <1> DEFINE Has(c) == ms[c][selector] # Nil
             Onward(S) == \A c \in S : ~Has(c) /\ parentClass[c] # Nil => parentClass[c] \in S
             Path(c) == {d \in Classes : \A S \in SUBSET Classes : c \in S /\ Onward(S) => d \in S}
             Ends(c) == {d \in Path(c) : Has(d)}
             Answer(E) == IF E = {} THEN Nil ELSE ms[CHOOSE d \in E : TRUE][selector]
             f == [c \in Classes |-> Answer(Ends(c))]
  <1>0. \A c \in Classes : parentClass[c] # Nil => parentClass[c] \in Classes
    BY JITRuntimeAssumption
  <1>1. ASSUME NEW c \in Classes, Has(c)
        PROVE  Answer(Ends(c)) = ms[c][selector]
    <2>1. {c} \in SUBSET Classes /\ c \in {c} /\ Onward({c})
      BY <1>1
    <2>2. Path(c) \subseteq {c}
      BY <2>1
    <2>3. c \in Path(c)
      OBVIOUS
    <2>4. Ends(c) = {c}
      BY <1>1, <2>2, <2>3
    <2> HIDE DEF Ends, Path
    <2>5. (CHOOSE d \in {c} : TRUE) = c
      OBVIOUS
    <2> QED
      BY <2>4, <2>5
  <1>2. ASSUME NEW c \in Classes, ~Has(c), parentClass[c] = Nil
        PROVE  Answer(Ends(c)) = Nil
    <2>1. {c} \in SUBSET Classes /\ c \in {c} /\ Onward({c})
      BY <1>2
    <2>2. Path(c) \subseteq {c}
      BY <2>1
    <2>3. Ends(c) = {}
      BY <1>2, <2>2
    <2> QED
      BY <2>3
  <1>3. ASSUME NEW c \in Classes, ~Has(c), parentClass[c] # Nil
        PROVE  Answer(Ends(c)) = Answer(Ends(parentClass[c]))
    <2> DEFINE p == parentClass[c]
    <2>1. p \in Classes
      BY <1>0, <1>3
    <2>2. ASSUME NEW d \in Path(p) PROVE d \in Path(c)
      BY <1>3, <2>1, <2>2
    <2>3. ASSUME NEW d \in Path(c), d # c PROVE d \in Path(p)
      <3>1. SUFFICES ASSUME NEW S \in SUBSET Classes, p \in S, Onward(S)
                     PROVE  d \in S
        OBVIOUS
      <3>2. c \in S \union {c} /\ Onward(S \union {c}) /\ S \union {c} \in SUBSET Classes
        BY <3>1
      <3>3. d \in S \union {c}
        BY <3>2
      <3> QED
        BY <2>3, <3>3
    <2>4. Ends(c) = Ends(p)
      BY <1>3, <2>2, <2>3
    <2> HIDE DEF Ends, Answer
    <2> QED
      BY <2>4
  <1>4. f = Answers(ms, f, selector)
    <2>1. ASSUME NEW c \in Classes
          PROVE  Answer(Ends(c)) = IF Has(c) THEN ms[c][selector]
                                   ELSE IF parentClass[c] = Nil THEN Nil
                                   ELSE Answer(Ends(parentClass[c]))
      BY <1>1, <1>2, <1>3, ZenonT(40)
    <2> HIDE DEF Ends, Answer
    <2> QED
      BY <1>0, <2>1 DEF Answers
  <1> QED
    BY <1>4

\* The search in given dictionaries.
FindIn(dictionaries, selector, c) ==
  LET search[k \in Classes] ==
        IF dictionaries[k][selector] # Nil THEN dictionaries[k][selector]
        ELSE IF parentClass[k] = Nil THEN Nil
        ELSE search[parentClass[k]]
  IN  search[c]

LEMMA FindInEquation ==
  ASSUME NEW ms, NEW selector \in Selectors, NEW c \in Classes
  PROVE  FindIn(ms, selector, c) =
           IF ms[c][selector] # Nil THEN ms[c][selector]
           ELSE IF parentClass[c] = Nil THEN Nil
           ELSE FindIn(ms, selector, parentClass[c])
  <1> DEFINE search == CHOOSE f : f = Answers(ms, f, selector)
  <1>1. search = Answers(ms, search, selector)
    BY SearchExists
  <1>2. \A k : FindIn(ms, selector, k) = search[k]
    BY DEF FindIn, Answers
  <1> HIDE DEF search
  <1>3. search[c] = IF ms[c][selector] # Nil THEN ms[c][selector]
                    ELSE IF parentClass[c] = Nil THEN Nil
                    ELSE search[parentClass[c]]
    BY <1>1 DEF Answers
  <1> QED
    BY <1>2, <1>3

\* Dictionaries that agree on a selector give the same answers for it.
LEMMA FindInSame ==
  ASSUME NEW ms, NEW ns, NEW selector \in Selectors, NEW c \in Classes,
         \A k \in Classes : ms[k][selector] = ns[k][selector]
  PROVE  FindIn(ms, selector, c) = FindIn(ns, selector, c)
  <1> DEFINE T == {k \in Classes : FindIn(ms, selector, k) # FindIn(ns, selector, k)}
  <1>1. T = {}
    <2>1. SUFFICES ASSUME T # {} PROVE FALSE
      OBVIOUS
    <2>2. PICK k \in T : parentClass[k] \notin T
      BY <2>1, JITRuntimeAssumption
    <2>3. k \in Classes /\ parentClass[k] \in Classes \union {Nil}
      BY <2>2, JITRuntimeAssumption
    <2>4. parentClass[k] # Nil /\ FindIn(ms, selector, parentClass[k]) # FindIn(ns, selector, parentClass[k])
      BY <2>2, <2>3, FindInEquation
    <2> QED
      BY <2>2, <2>3, <2>4
  <1> QED
    BY <1>1

\* The search of a class answers its own method or what its superclass answers.
LEMMA FindEquation ==
  ASSUME NEW selector \in Selectors, NEW c \in Classes
  PROVE  Find(selector, c) =
           IF methods[c][selector] # Nil THEN methods[c][selector]
           ELSE IF parentClass[c] = Nil THEN Nil
           ELSE Find(selector, parentClass[c])
  <1>1. \A k : Find(selector, k) = FindIn(methods, selector, k)
    BY DEF Find, FindIn
  <1> QED
    BY <1>1, FindInEquation

\* A step that leaves the methods of a selector alone leaves its searches alone.
LEMMA FindKept ==
  ASSUME NEW selector \in Selectors, NEW c \in Classes,
         \A k \in Classes : methods'[k][selector] = methods[k][selector]
  PROVE  Find(selector, c)' = Find(selector, c) /\ Target(selector, c)' = Target(selector, c)
  <1>1. Find(selector, c) = FindIn(methods, selector, c)
    BY DEF Find, FindIn
  <1>2. Find(selector, c)' = FindIn(methods', selector, c)
    BY DEF Find, FindIn
  <1>3. Find(selector, c)' = Find(selector, c)
    BY <1>1, <1>2, FindInSame
  <1> QED
    BY <1>3 DEF Target

\* The search ends with nothing or with the method some class has.
LEMMA FindResult ==
  ASSUME NEW selector \in Selectors, NEW c \in Classes, Find(selector, c) # Nil
  PROVE  \E k \in Classes : Find(selector, c) = methods[k][selector]
  <1> DEFINE Ends(k) == Find(selector, k) = Nil \/ \E j \in Classes : Find(selector, k) = methods[j][selector]
             T == {k \in Classes : ~Ends(k)}
  <1>1. T = {}
    <2>1. SUFFICES ASSUME T # {} PROVE FALSE
      OBVIOUS
    <2>2. PICK k \in T : parentClass[k] \notin T
      BY <2>1, JITRuntimeAssumption
    <2>3. k \in Classes /\ parentClass[k] \in Classes \union {Nil}
      BY <2>2, JITRuntimeAssumption
    <2>4. /\ methods[k][selector] = Nil /\ parentClass[k] # Nil
          /\ Find(selector, k) = Find(selector, parentClass[k])
      BY <2>2, <2>3, FindEquation
    <2> QED
      BY <2>2, <2>3, <2>4
  <1> QED
    BY <1>1

\* With the types of the dictionaries: a message ends in a method that its
\* class has under its name.
LEMMA TargetCurrent ==
  ASSUME TypeOK, Dictionary, NEW s \in Selectors, NEW c \in Classes
  PROVE  /\ Target(s, c) \in Methods
         /\ Current(FunctionName(Target(s, c))) = Target(s, c)
         /\ Find(s, c) # Nil => Find(s, c) \in Methods /\ FunctionName(Find(s, c))[2] = s
  <1>1. doesNotUnderstand \in Methods
    BY JITRuntimeAssumption
  <1>2. CASE Find(s, c) = Nil
    BY <1>1, <1>2 DEF Target, Dictionary
  <1>3. CASE Find(s, c) # Nil
    <2>1. PICK k \in Classes : Find(s, c) = methods[k][s]
      BY <1>3, FindResult
    <2>2. methods[k][s] \in Methods
      BY <1>3, <2>1 DEF TypeOK
    <2>3. FunctionName(methods[k][s]) = <<k, s>>
      BY <1>3, <2>1 DEF Dictionary
    <2> QED
      BY <1>3, <2>1, <2>2, <2>3 DEF Target, Current
  <1> QED
    BY <1>2, <1>3
-----------------------------------------------------------------------------
(***************************************************************************)
(* Addresses.                                                              *)
(***************************************************************************)
\* Static objects are where they always were, dynamic ones in a semispace, and
\* no two objects share an address.
Located(l) ==
  /\ \A o \in Objects : l[o] \in Addresses /\ l[o] # 0
  /\ \A o \in Dynamic : l[o] \in SpaceOne \union SpaceTwo
  /\ \A o \in Objects \ Dynamic : l[o] = StaticAddress[o] /\ l[o] \notin SpaceOne \union SpaceTwo
  /\ \A o, p \in Objects : l[o] = l[p] => o = p

LEMMA PlacementsLocate ==
  ASSUME NEW h \in {1, 2}, NEW l \in Placements(h)
  PROVE  Located(l)
  <1>1. PICK f \in [Dynamic -> Space(h)] :
          /\ \A o, p \in Dynamic : f[o] = f[p] => o = p
          /\ l = [o \in Objects |-> IF o \in Dynamic THEN f[o] ELSE StaticAddress[o]]
    BY DEF Placements
  <1>2. Space(h) \subseteq SpaceOne \union SpaceTwo
    BY DEF Space
  <1>3. Dynamic \subseteq Objects /\ \A o \in Objects \ Dynamic : o \in DOMAIN StaticAddress
    BY DEF Dynamic
  <1>4. \A o \in Dynamic : l[o] = f[o] /\ l[o] \in SpaceOne \union SpaceTwo
    BY <1>1, <1>2, <1>3
  <1>5. \A o \in Objects \ Dynamic : l[o] = StaticAddress[o] /\ l[o] \notin SpaceOne \union SpaceTwo
    BY <1>1, <1>3, JITRuntimeAssumption
  <1>6. \A o \in Objects : l[o] \in Addresses
    BY <1>3, <1>4, <1>5 DEF Addresses
  <1>7. \A o \in Objects : l[o] # 0
    BY <1>6, JITRuntimeAssumption
  <1>8. ASSUME NEW o \in Objects, NEW p \in Objects, l[o] = l[p] PROVE o = p
    <2>1. CASE o \in Dynamic /\ p \in Dynamic
      BY <1>1, <1>4, <1>8, <2>1
    <2>2. CASE o \notin Dynamic /\ p \notin Dynamic
      BY <1>3, <1>5, <1>8, <2>2, JITRuntimeAssumption
    <2> QED
      BY <1>4, <1>5, <1>8, <2>1, <2>2
  <1> QED
    BY <1>4, <1>5, <1>6, <1>7, <1>8 DEF Located

LEMMA TypeLocated == TypeOK => Located(loc)
  BY PlacementsLocate DEF TypeOK

\* An object that stayed where it is has an address noted for no other object.
LEMMA NotedUnique ==
  ASSUME Located(loc), NEW o \in Objects, NEW p \in Objects, NEW old \in BOOLEAN,
         Noted(loc[o], p, old), o \notin Dynamic \/ ~old
  PROVE  o = p
  BY DEF Located, Noted

\* Another collection only takes certainty away.
LEMMA NotedLater ==
  ASSUME Located(loc), NEW o \in Objects, NEW a, NEW old \in BOOLEAN, NEW later \in BOOLEAN,
         Noted(a, o, old), old => later
  PROVE  Noted(a, o, later)
  BY DEF Located, Noted

LEMMA NotedNow ==
  ASSUME Located(loc), NEW o \in Objects, NEW old \in BOOLEAN
  PROVE  Noted(loc[o], o, old)
  BY DEF Located, Noted
-----------------------------------------------------------------------------
(***************************************************************************)
(* The operations on functions, statistics and caches.                     *)
(***************************************************************************)
LEMMA NamesOfMethods ==
  ASSUME NEW m \in Methods
  PROVE  /\ FunctionName(m) \in Names /\ FunctionName(m) # Nil
         /\ FunctionName(m) \in Classes \X Selectors /\ m \in Objects /\ m # Nil
  <1>1. klass[m] \in Classes /\ name[m] \in Selectors
    BY JITRuntimeAssumption
  <1> QED
    BY <1>1, JITRuntimeAssumption DEF FunctionName, Names, Objects

LEMMA CompileResult ==
  ASSUME NEW fs \in [Names -> Function], NEW m \in Methods
  PROVE  /\ compileMethod(fs, m) \in [Names -> Function]
         /\ \A g \in Names : g # FunctionName(m) => compileMethod(fs, m)[g] = fs[g]
         /\ compileMethod(fs, m)[FunctionName(m)].method = m
         /\ compileMethod(fs, m)[FunctionName(m)].block =
              IF fs[FunctionName(m)].block = Nil THEN m ELSE fs[FunctionName(m)].block
         /\ \A i \in Indices : compileMethod(fs, m)[FunctionName(m)].direct[i] = {}
  <1> DEFINE F == FunctionName(m)
             new == [method |-> m, block |-> IF fs[F].block = Nil THEN m ELSE fs[F].block,
                     direct |-> NoFunction.direct]
  <1>1. F \in Names
    BY NamesOfMethods
  <1>2. fs[F].block \in Methods \union {Nil}
    BY <1>1 DEF Function
  <1>3. NoFunction.direct = [i \in Indices |-> {}]
    BY DEF NoFunction
  <1>4. new \in Function
    BY <1>2, <1>3 DEF Function
  <1>5. compileMethod(fs, m) = [fs EXCEPT ![F] = new]
    BY DEF compileMethod
  <1> HIDE DEF F
  <1>6. /\ new.method = m /\ new.direct = [i \in Indices |-> {}]
        /\ new.block = IF fs[F].block = Nil THEN m ELSE fs[F].block
    BY <1>3
  <1> HIDE DEF new
  <1>7. /\ compileMethod(fs, m) \in [Names -> Function] /\ compileMethod(fs, m)[F] = new
        /\ \A g \in Names : g # F => compileMethod(fs, m)[g] = fs[g]
    BY <1>1, <1>4, <1>5
  <1> QED
    BY <1>6, <1>7 DEF F

LEMMA CacheResult ==
  ASSUME NEW cache \in [Lines -> CacheEntry], NEW m \in Methods, NEW f \in Names, Located(loc)
  PROVE  /\ updateCache(cache, m, f) \in [Lines -> CacheEntry]
         /\ Line(loc[m]) \in Lines
         /\ \A l \in Lines : \/ updateCache(cache, m, f)[l] = cache[l]
                             \/ /\ updateCache(cache, m, f)[l].method = loc[m]
                                /\ updateCache(cache, m, f)[l].function = f
  <1> DEFINE new == [method |-> loc[m], function |-> f]
  <1>1. loc[m] \in Addresses
    BY NamesOfMethods DEF Located
  <1>2. Line(loc[m]) \in Lines
    BY <1>1 DEF Lines
  <1>3. new \in CacheEntry /\ new.method = loc[m] /\ new.function = f
    BY <1>1 DEF CacheEntry
  <1>4. updateCache(cache, m, f) = [cache EXCEPT ![Line(loc[m])] = new]
    BY DEF updateCache
  <1> HIDE DEF new
  <1> QED
    BY <1>2, <1>3, <1>4

\* A hit is an entry under the address of the method.
LEMMA HitEntry ==
  ASSUME NEW cache \in [Lines -> CacheEntry], NEW m \in Methods, Located(loc),
         lookupInCache(cache, m) # Nil
  PROVE  /\ Line(loc[m]) \in Lines
         /\ cache[Line(loc[m])].method = loc[m] /\ loc[m] # 0
         /\ cache[Line(loc[m])].function = lookupInCache(cache, m)
         /\ lookupInCache(cache, m) \in Names
  <1>1. loc[m] \in Addresses /\ loc[m] # 0
    BY NamesOfMethods DEF Located
  <1>2. Line(loc[m]) \in Lines
    BY <1>1 DEF Lines
  <1>3. cache[Line(loc[m])].function \in Names \union {Nil}
    BY <1>2 DEF CacheEntry
  <1> QED
    BY <1>1, <1>2, <1>3 DEF lookupInCache

LEMMA HotResult ==
  ASSUME NEW hot \in [Names -> HotMethod], NEW cache \in [Lines -> CacheEntry],
         NEW a, a.method \in Methods, NEW i \in Indices, NEW s \in Selectors, NEW c \in Classes,
         Located(loc), NEW result, result = updateHotSites(hot, cache, a, i, s, c),
         \A g \in Names, j \in Indices :
           hot[g].sites[j].classes # {} => hot[g].sites[j].selector \in Selectors
  PROVE  /\ result \in [Names -> HotMethod]
         /\ \A g \in Names : result[g].method = hot[g].method
         /\ \A g \in Names, j \in Indices :
              result[g].sites[j].classes # {} => result[g].sites[j].selector \in Selectors
         /\ \A g \in Names, j \in Indices :
              \/ result[g].sites[j] = hot[g].sites[j]
              \/ /\ g = lookupInCache(cache, a.method) /\ j = i
                 /\ result[g].sites[j].selector = IF hot[g].sites[j].selector = Nil THEN s
                                                  ELSE hot[g].sites[j].selector
                 /\ result[g].sites[j].classes = hot[g].sites[j].classes \union {loc[c]}
  <1> DEFINE f == lookupInCache(cache, a.method)
             site == [selector |-> IF hot[f].sites[i].selector = Nil THEN s
                                   ELSE hot[f].sites[i].selector,
                      classes  |-> hot[f].sites[i].classes \union {loc[c]}]
             sites == [hot[f].sites EXCEPT ![i] = site]
             new == [hot[f] EXCEPT !.sites = sites]
  <1>1. CASE f = Nil
    <2>1. result = hot
      BY <1>1 DEF updateHotSites
    <2> QED
      BY <2>1
  <1>2. CASE f # Nil
    <2>1. f \in Names
      BY <1>2, HitEntry
    <2>2. loc[c] \in Addresses
      BY DEF Located, Objects
    <2>3. result = [hot EXCEPT ![f] = new]
      BY <1>2 DEF updateHotSites
    <2> HIDE DEF f
    <2>4. /\ hot[f] \in HotMethod /\ hot[f].sites[i].selector \in Selectors \union {Nil}
          /\ hot[f].sites[i].classes \subseteq Addresses
      BY <2>1 DEF HotMethod
    <2>5. /\ site \in [selector : Selectors, classes : SUBSET Addresses]
          /\ site.selector \in Selectors
          /\ site.selector = IF hot[f].sites[i].selector = Nil THEN s
                             ELSE hot[f].sites[i].selector
          /\ site.classes = hot[f].sites[i].classes \union {loc[c]}
      BY <2>2, <2>4
    <2> HIDE DEF site
    <2>6. /\ sites \in [Indices -> [selector : Selectors \union {Nil}, classes : SUBSET Addresses]]
          /\ \A j \in Indices : sites[j] = IF j = i THEN site ELSE hot[f].sites[j]
      <3>1. hot[f].sites \in [Indices -> [selector : Selectors \union {Nil}, classes : SUBSET Addresses]]
        BY <2>4 DEF HotMethod
      <3>2. site \in [selector : Selectors \union {Nil}, classes : SUBSET Addresses]
        BY <2>5
      <3> QED
        BY <3>1, <3>2
    <2> HIDE DEF sites
    <2>7. new \in HotMethod /\ new.method = hot[f].method /\ new.sites = sites
      BY <2>4, <2>6 DEF HotMethod
    <2> HIDE DEF new
    <2>8. /\ result \in [Names -> HotMethod]
          /\ \A g \in Names : result[g] = IF g = f THEN new ELSE hot[g]
      BY <2>1, <2>3, <2>7
    <2>9. \A g \in Names : result[g].method = hot[g].method
      BY <2>7, <2>8
    <2>10. ASSUME NEW g \in Names, NEW j \in Indices, result[g].sites[j].classes # {}
           PROVE  result[g].sites[j].selector \in Selectors
      BY <2>1, <2>5, <2>6, <2>7, <2>8, <2>10
    <2>11. ASSUME NEW g \in Names, NEW j \in Indices
           PROVE  \/ result[g].sites[j] = hot[g].sites[j]
                  \/ g = f /\ j = i /\ result[g].sites[j] = site
      BY <2>1, <2>6, <2>7, <2>8
    <2>12. ASSUME NEW g \in Names, NEW j \in Indices
           PROVE  \/ result[g].sites[j] = hot[g].sites[j]
                  \/ /\ g = f /\ j = i
                     /\ result[g].sites[j].selector = IF hot[g].sites[j].selector = Nil THEN s
                                                      ELSE hot[g].sites[j].selector
                     /\ result[g].sites[j].classes = hot[g].sites[j].classes \union {loc[c]}
      BY <2>5, <2>11
    <2> QED
      BY <2>8, <2>9, <2>10, <2>12 DEF f
  <1> QED
    BY <1>1, <1>2
-----------------------------------------------------------------------------
(***************************************************************************)
(* What the invariant says of the caches.                                  *)
(***************************************************************************)
LEMMA FunctionHit ==
  ASSUME IInv, NEW m \in Methods, lookupInCache(functionCache, m) # Nil
  PROVE  /\ lookupInCache(functionCache, m) \in Names
         /\ functions[lookupInCache(functionCache, m)].method # Nil
         /\ m \notin Dynamic \/ ~moved => lookupInCache(functionCache, m) = FunctionName(m)
  <1> DEFINE l == Line(loc[m])
  <1>1. /\ Located(loc) /\ functionCache \in [Lines -> CacheEntry] /\ m \in Objects
        /\ moved \in BOOLEAN
    BY TypeLocated, NamesOfMethods DEF IInv, TypeOK
  <1>2. /\ l \in Lines /\ functionCache[l].method = loc[m] /\ loc[m] # 0
        /\ functionCache[l].function = lookupInCache(functionCache, m)
        /\ lookupInCache(functionCache, m) \in Names
    BY <1>1, HitEntry
  <1> HIDE DEF l
  <1>3. PICK k \in Methods : /\ functionCache[l].function = FunctionName(k)
                             /\ functions[FunctionName(k)].method # Nil
                             /\ Noted(functionCache[l].method, k, moved)
    BY <1>2 DEF IInv, FunctionsCached
  <1>4. m \notin Dynamic \/ ~moved => m = k
    BY <1>1, <1>2, <1>3, NotedUnique, NamesOfMethods
  <1> QED
    BY <1>2, <1>3, <1>4

LEMMA BlockHit ==
  ASSUME IInv, NEW m \in Methods, lookupInCache(blockCache, m) # Nil
  PROVE  /\ lookupInCache(blockCache, m) \in Names
         /\ functions[lookupInCache(blockCache, m)].block # Nil
         /\ m \notin Dynamic \/ ~moved => lookupInCache(blockCache, m) = FunctionName(m)
  <1> DEFINE l == Line(loc[m])
  <1>1. /\ Located(loc) /\ blockCache \in [Lines -> CacheEntry] /\ m \in Objects
        /\ moved \in BOOLEAN
    BY TypeLocated, NamesOfMethods DEF IInv, TypeOK
  <1>2. /\ l \in Lines /\ blockCache[l].method = loc[m] /\ loc[m] # 0
        /\ blockCache[l].function = lookupInCache(blockCache, m)
        /\ lookupInCache(blockCache, m) \in Names
    BY <1>1, HitEntry
  <1> HIDE DEF l
  <1>3. PICK k \in Methods : /\ blockCache[l].function = FunctionName(k)
                             /\ functions[FunctionName(k)].block # Nil
                             /\ Noted(blockCache[l].method, k, moved)
    BY <1>2 DEF IInv, BlocksCached
  <1>4. m \notin Dynamic \/ ~moved => m = k
    BY <1>1, <1>2, <1>3, NotedUnique, NamesOfMethods
  <1> QED
    BY <1>2, <1>3, <1>4

\* A method whose name stays put is still where the caches noted it.
LEMMA PutIsUnmoved ==
  ASSUME IInv, NEW m \in Methods, StaysPut(FunctionName(m))
  PROVE  m \notin Dynamic \/ ~moved
  <1>1. moved => moves > 0
    BY DEF IInv
  <1> QED
    BY <1>1 DEF StaysPut
-----------------------------------------------------------------------------
(***************************************************************************)
(* One lemma per operation.                                                *)
(***************************************************************************)
(***************************************************************************)
(* What a step that only adds code leaves of the invariant: it moves       *)
(* nothing, changes no dictionary, compiles current methods only, and what *)
(* was compiled stays.                                                     *)
(***************************************************************************)
Grows ==
  /\ UNCHANGED <<methods, loc, active, changed, moves, changes, moved, fault>>
  /\ functions' \in [Names -> Function]
  /\ \A f \in Names :
       /\ functions[f].method # Nil => functions'[f].method = functions[f].method
       /\ functions[f].block # Nil => functions'[f].block = functions[f].block
       /\ Settled(f) => functions'[f].method \in {functions[f].method, Current(f)}
       /\ Settled(f) => functions'[f].block \in {functions[f].block, Current(f)}
       /\ \A i \in Indices : functions'[f].direct[i] \subseteq functions[f].direct[i]

LEMMA GrowsKeeps ==
  ASSUME IInv, Grows
  PROVE  /\ Dictionary' /\ FunctionsCurrent' /\ DirectsCurrent' /\ (moved => moves > 0)'
         /\ \A a \in invoked :
              /\ a \in [method : Methods, function : Names, part : Parts]
              /\ StaysPut(FunctionName(a.method))' /\ FunctionName(a.method) \notin changed' =>
                   a.function = FunctionName(a.method) /\ Code(a)' = a.method
         /\ \A f : (Settled(f)' <=> Settled(f)) /\ (StaysPut(f)' <=> StaysPut(f)) /\ Current(f)' = Current(f)
  <1>1. \A f : /\ Settled(f)' <=> Settled(f)
               /\ StaysPut(f)' <=> StaysPut(f)
               /\ Current(f)' = Current(f)
    BY DEF Grows, Settled, StaysPut, Current
  <1>2. Dictionary'
    BY <1>1 DEF Grows, IInv, Dictionary
  <1>3. FunctionsCurrent'
    BY <1>1 DEF Grows, IInv, FunctionsCurrent
  <1>4. DirectsCurrent'
    <2> SUFFICES ASSUME NEW f \in Names, NEW i \in Indices, NEW d \in functions'[f].direct[i]
                 PROVE  \E m \in Methods :
                          /\ d.function = FunctionName(m)
                          /\ functions'[FunctionName(m)].method # Nil
                          /\ Noted(d.method, m, moves > 0)'
                          /\ Settled(FunctionName(m))' => m = Current(FunctionName(m))'
      BY DEF DirectsCurrent
    <2>1. d \in functions[f].direct[i]
      BY DEF Grows
    <2>2. PICK m \in Methods : /\ d.function = FunctionName(m)
                               /\ functions[FunctionName(m)].method # Nil
                               /\ Noted(d.method, m, moves > 0)
                               /\ Settled(FunctionName(m)) => m = Current(FunctionName(m))
      BY <2>1 DEF IInv, DirectsCurrent
    <2>3. functions'[FunctionName(m)].method # Nil
      BY <2>2, NamesOfMethods DEF Grows
    <2>4. Noted(d.method, m, moves > 0)'
      BY <2>2 DEF Noted, Grows
    <2> QED
      BY <1>1, <2>2, <2>3, <2>4
  <1>5. ASSUME NEW a \in invoked
        PROVE  /\ a \in [method : Methods, function : Names, part : Parts]
               /\ StaysPut(FunctionName(a.method))' /\ FunctionName(a.method) \notin changed' =>
                    a.function = FunctionName(a.method) /\ Code(a)' = a.method
    <2>1. /\ a \in [method : Methods, function : Names, part : Parts]
          /\ a.method \in Methods /\ a.function \in Names /\ a.part \in {"method", "block"}
      BY DEF IInv, TypeOK, Parts
    <2>2. ASSUME StaysPut(FunctionName(a.method))', FunctionName(a.method) \notin changed'
          PROVE  a.function = FunctionName(a.method) /\ Code(a)' = a.method
      <3>1. a.function = FunctionName(a.method) /\ Code(a) = a.method
        BY <1>1, <2>2 DEF IInv, RunsOwnCode, Grows
      <3>2. Code(a) # Nil
        BY <2>1, <3>1, NamesOfMethods
      <3>3. CASE a.part = "method"
        BY <2>1, <3>1, <3>2, <3>3 DEF Code, Grows
      <3>4. CASE a.part = "block"
        BY <2>1, <3>1, <3>2, <3>4 DEF Code, Grows
      <3> QED
        BY <2>1, <3>1, <3>3, <3>4
    <2> QED
      BY <2>1, <2>2
  <1>6. (moved => moves > 0)'
    BY DEF Grows, IInv
  <1> QED
    BY <1>1, <1>2, <1>3, <1>4, <1>5, <1>6

LEMMA CachedFunctionsKept ==
  ASSUME IInv, Grows, NEW l \in Lines, functionCache'[l] = functionCache[l]
  PROVE  functionCache'[l].method # 0 =>
           \E m \in Methods : /\ functionCache'[l].function = FunctionName(m)
                              /\ functions'[FunctionName(m)].method # Nil
                              /\ Noted(functionCache[l].method, m, moved)'
  <1> SUFFICES ASSUME functionCache[l].method # 0
               PROVE  \E m \in Methods : /\ functionCache[l].function = FunctionName(m)
                                         /\ functions'[FunctionName(m)].method # Nil
                                         /\ Noted(functionCache[l].method, m, moved)'
    OBVIOUS
  <1>1. PICK m \in Methods : /\ functionCache[l].function = FunctionName(m)
                             /\ functions[FunctionName(m)].method # Nil
                             /\ Noted(functionCache[l].method, m, moved)
    BY DEF IInv, FunctionsCached
  <1>2. functions'[FunctionName(m)].method # Nil
    BY <1>1, NamesOfMethods DEF Grows
  <1>3. Noted(functionCache[l].method, m, moved)'
    BY <1>1 DEF Noted, Grows
  <1> QED
    BY <1>1, <1>2, <1>3

LEMMA CachedBlocksKept ==
  ASSUME IInv, Grows, NEW l \in Lines, blockCache'[l] = blockCache[l]
  PROVE  blockCache'[l].method # 0 =>
           \E m \in Methods : /\ blockCache'[l].function = FunctionName(m)
                              /\ functions'[FunctionName(m)].block # Nil
                              /\ Noted(blockCache[l].method, m, moved)'
  <1> SUFFICES ASSUME blockCache[l].method # 0
               PROVE  \E m \in Methods : /\ blockCache[l].function = FunctionName(m)
                                         /\ functions'[FunctionName(m)].block # Nil
                                         /\ Noted(blockCache[l].method, m, moved)'
    OBVIOUS
  <1>1. PICK m \in Methods : /\ blockCache[l].function = FunctionName(m)
                             /\ functions[FunctionName(m)].block # Nil
                             /\ Noted(blockCache[l].method, m, moved)
    BY DEF IInv, BlocksCached
  <1>2. functions'[FunctionName(m)].block # Nil
    BY <1>1, NamesOfMethods DEF Grows
  <1>3. Noted(blockCache[l].method, m, moved)'
    BY <1>1 DEF Noted, Grows
  <1> QED
    BY <1>1, <1>2, <1>3

\* What sendMessage() does: it compiles the method m the message ends in if that
\* has no function yet, runs f, and counts the call site.
Dispatched(callers, selector, c, site, m, f) ==
  /\ m = Target(selector, c) /\ m \in Methods /\ Current(FunctionName(m)) = m
  /\ f \in Names /\ (StaysPut(FunctionName(m)) => f = FunctionName(m))
  /\ invoked' = callers \union {Activation(m, f, "method")}
  /\ UNCHANGED <<methods, loc, active, blockCache, once, fault, moved, moves,
                 changed, changes>>
  /\ functions' \in [Names -> Function] /\ functions'[f].method # Nil
  /\ \A g \in Names : \/ functions'[g] = functions[g]
                      \/ /\ g = FunctionName(m) /\ functions[g].method = Nil
                         /\ functions'[g].method = m
                         /\ functions'[g].block = IF functions[g].block = Nil THEN m
                                                  ELSE functions[g].block
                         /\ \A i \in Indices : functions'[g].direct[i] = {}
  /\ functionCache' \in [Lines -> CacheEntry]
  /\ \A l \in Lines : \/ functionCache'[l] = functionCache[l]
                      \/ /\ f = FunctionName(m)
                         /\ functionCache'[l].method = loc[m]
                         /\ functionCache'[l].function = f
  /\ hotMethods' \in [Names -> HotMethod]
  /\ \A g \in Names : \/ hotMethods'[g].method = hotMethods[g].method
                      \/ g = f /\ f = FunctionName(m) /\ hotMethods'[g].method = loc[m]
  /\ \A g \in Names, j \in Indices :
       \/ hotMethods'[g].sites[j] = hotMethods[g].sites[j]
       \/ /\ site # <<>> /\ g = lookupInCache(functionCache', site[1].method) /\ j = site[2]
          /\ hotMethods'[g].sites[j].selector =
               IF hotMethods[g].sites[j].selector = Nil THEN selector
               ELSE hotMethods[g].sites[j].selector
          /\ hotMethods'[g].sites[j].classes = hotMethods[g].sites[j].classes \union {loc[c]}

LEMMA DispatchEffect ==
  ASSUME IInv, NEW callers \in SUBSET invoked, NEW selector \in Selectors, NEW c \in Classes,
         NEW site, site = <<>> \/ (site[1] \in invoked /\ site[2] \in Indices),
         Dispatch(callers, selector, c, site)
  PROVE  \E m, f : Dispatched(callers, selector, c, site, m, f)
  <1>a. PICK m : m = Target(selector, c)
    OBVIOUS
  <1>b. PICK found : found = lookupInCache(functionCache, m)
    OBVIOUS
  <1>c. PICK f : f = IF found = Nil THEN FunctionName(m) ELSE found
    OBVIOUS
  <1> DEFINE hot == IF found # Nil THEN hotMethods ELSE [hotMethods EXCEPT ![f].method = loc[m]]
  <1>1. /\ IF found # Nil THEN UNCHANGED <<functions, functionCache>>
           ELSE /\ functions' = IF functions[f].method = Nil
                                THEN compileMethod(functions, m) ELSE functions
                /\ functionCache' = updateCache(functionCache, m, f)
        /\ hotMethods' = IF site = <<>> THEN hot
                         ELSE updateHotSites(hot, functionCache', site[1], site[2], selector, c)
        /\ invoked' = callers \union {Activation(m, f, "method")}
        /\ UNCHANGED <<methods, loc, active, blockCache, once, fault, moved, moves, changed, changes>>
    BY <1>a, <1>b, <1>c DEF Dispatch
  <1>2. m \in Methods /\ Current(FunctionName(m)) = m
    BY <1>a, TargetCurrent DEF IInv
  <1>3. /\ FunctionName(m) \in Names /\ FunctionName(m) # Nil /\ m # Nil /\ m \in Objects
        /\ Located(loc) /\ loc[m] \in Addresses /\ loc[m] # 0
    BY <1>2, NamesOfMethods, TypeLocated DEF IInv, Located
  <1>4. /\ found # Nil => found \in Names /\ functions[found].method # Nil
        /\ StaysPut(FunctionName(m)) => f = FunctionName(m)
        /\ found = Nil => f = FunctionName(m)
        /\ f \in Names
    BY <1>b, <1>c, <1>2, <1>3, FunctionHit, PutIsUnmoved
  <1>5. /\ functions \in [Names -> Function] /\ functionCache \in [Lines -> CacheEntry]
        /\ blockCache \in [Lines -> CacheEntry] /\ hotMethods \in [Names -> HotMethod]
    BY DEF IInv, TypeOK
  <1>6. /\ functions' \in [Names -> Function]
        /\ functions'[f].method # Nil
        /\ \A g \in Names : \/ functions'[g] = functions[g]
                            \/ /\ g = FunctionName(m) /\ functions[g].method = Nil
                               /\ functions'[g].method = m
                               /\ functions'[g].block = IF functions[g].block = Nil THEN m
                                                        ELSE functions[g].block
                               /\ \A i \in Indices : functions'[g].direct[i] = {}
    <2>1. CASE found # Nil \/ functions[f].method # Nil
      <3>1. functions' = functions /\ functions[f].method # Nil
        BY <1>1, <1>4, <1>c, <2>1
      <3> QED
        BY <1>5, <3>1
    <2>2. CASE found = Nil /\ functions[f].method = Nil
      <3>1. functions' = compileMethod(functions, m) /\ f = FunctionName(m)
        BY <1>1, <1>4, <2>2
      <3> QED
        BY <1>2, <1>3, <1>5, <2>2, <3>1, CompileResult
    <2> QED
      BY <2>1, <2>2
  <1>8. /\ functionCache' \in [Lines -> CacheEntry]
        /\ \A l \in Lines : \/ functionCache'[l] = functionCache[l]
                            \/ /\ f = FunctionName(m)
                               /\ functionCache'[l].method = loc[m]
                               /\ functionCache'[l].function = f
    <2>1. CASE found # Nil
      BY <1>1, <1>5, <2>1
    <2>2. CASE found = Nil
      BY <1>1, <1>2, <1>3, <1>4, <1>5, <2>2, CacheResult
    <2> QED
      BY <2>1, <2>2
  <1>9. /\ hot \in [Names -> HotMethod]
        /\ \A g \in Names : \/ hot[g].method = hotMethods[g].method
                            \/ g = f /\ f = FunctionName(m) /\ hot[g].method = loc[m]
        /\ \A g \in Names : hot[g].sites = hotMethods[g].sites
    <2>1. CASE found # Nil
      BY <1>5, <2>1
    <2>2. CASE found = Nil
      <3>1. hot = [hotMethods EXCEPT ![f] = [hotMethods[f] EXCEPT !.method = loc[m]]]
        BY <2>2
      <3>2. hotMethods[f] \in HotMethod
        BY <1>4, <1>5
      <3> DEFINE new == [hotMethods[f] EXCEPT !.method = loc[m]]
      <3>3. new \in HotMethod /\ new.method = loc[m] /\ new.sites = hotMethods[f].sites
        BY <1>3, <3>2 DEF HotMethod
      <3> HIDE DEF hot, new
      <3>4. hot = [hotMethods EXCEPT ![f] = new]
        BY <3>1 DEF new
      <3>5. \A g \in Names : hot[g] = IF g = f THEN new ELSE hotMethods[g]
        BY <1>4, <1>5, <3>4
      <3>6. hot \in [Names -> HotMethod]
        BY <1>4, <1>5, <3>3, <3>4
      <3> QED
        BY <1>4, <2>2, <3>3, <3>5, <3>6
    <2> QED
      BY <2>1, <2>2
  <1> HIDE DEF hot
  <1>10. /\ hotMethods' \in [Names -> HotMethod]
         /\ \A g \in Names : hotMethods'[g].method = hot[g].method
         /\ \A g \in Names, j \in Indices :
              \/ hotMethods'[g].sites[j] = hot[g].sites[j]
              \/ /\ site # <<>> /\ g = lookupInCache(functionCache', site[1].method) /\ j = site[2]
                 /\ hotMethods'[g].sites[j].selector =
                      IF hot[g].sites[j].selector = Nil THEN selector ELSE hot[g].sites[j].selector
                 /\ hotMethods'[g].sites[j].classes = hot[g].sites[j].classes \union {loc[c]}
    <2>1. \A g \in Names, j \in Indices :
            hot[g].sites[j].classes # {} => hot[g].sites[j].selector \in Selectors
      BY <1>9 DEF IInv, SitesNamed
    <2>2. CASE site = <<>>
      BY <1>1, <1>9, <2>2
    <2>3. CASE site # <<>>
      <3>1. site[1].method \in Methods /\ site[2] \in Indices
        BY <2>3 DEF IInv, TypeOK
      <3>2. hotMethods' = updateHotSites(hot, functionCache', site[1], site[2], selector, c)
        BY <1>1, <2>3
      <3> QED
        BY <1>3, <1>8, <1>9, <2>1, <2>3, <3>1, <3>2, HotResult, SMTT(30)
    <2> QED
      BY <2>2, <2>3
  <1>11. /\ \A g \in Names : \/ hotMethods'[g].method = hotMethods[g].method
                             \/ g = f /\ f = FunctionName(m) /\ hotMethods'[g].method = loc[m]
         /\ \A g \in Names, j \in Indices :
              \/ hotMethods'[g].sites[j] = hotMethods[g].sites[j]
              \/ /\ site # <<>> /\ g = lookupInCache(functionCache', site[1].method) /\ j = site[2]
                 /\ hotMethods'[g].sites[j].selector =
                      IF hotMethods[g].sites[j].selector = Nil THEN selector
                      ELSE hotMethods[g].sites[j].selector
                 /\ hotMethods'[g].sites[j].classes = hotMethods[g].sites[j].classes \union {loc[c]}
    <2>1. \A g \in Names : hotMethods'[g].method = hot[g].method /\ hot[g].sites = hotMethods[g].sites
      BY <1>9, <1>10
    <2> QED
      BY <1>9, <1>10, <2>1
  <1>12. Dispatched(callers, selector, c, site, m, f)
    BY <1>a, <1>1, <1>2, <1>4, <1>6, <1>8, <1>10, <1>11 DEF Dispatched
  <1> QED
    BY <1>12

\* sendMessage(): a message compiles and runs the method it ends in.
LEMMA DispatchStep ==
  ASSUME IInv, NEW callers \in SUBSET invoked, NEW selector \in Selectors, NEW c \in Classes,
         NEW site, site = <<>> \/ (site[1] \in invoked /\ site[2] \in Indices),
         Dispatch(callers, selector, c, site)
  PROVE  IInv'
  <1>0. PICK m, f : Dispatched(callers, selector, c, site, m, f)
    BY DispatchEffect
  <1>1. /\ m = Target(selector, c) /\ m \in Methods /\ Current(FunctionName(m)) = m
        /\ f \in Names /\ (StaysPut(FunctionName(m)) => f = FunctionName(m))
        /\ invoked' = callers \union {Activation(m, f, "method")}
        /\ UNCHANGED <<methods, loc, active, blockCache, once, fault, moved, moves,
                       changed, changes>>
    BY <1>0 DEF Dispatched
  <1>2. m \in Methods /\ Current(FunctionName(m)) = m
    BY <1>1
  <1>3. /\ FunctionName(m) \in Names /\ FunctionName(m) # Nil /\ m # Nil /\ m \in Objects
        /\ Located(loc) /\ loc[m] \in Addresses /\ loc[m] # 0
    BY <1>2, NamesOfMethods, TypeLocated DEF IInv, Located
  <1>4. (StaysPut(FunctionName(m)) => f = FunctionName(m)) /\ f \in Names
    BY <1>1
  <1>5. PICK act : act = Activation(m, f, "method")
    OBVIOUS
  <1>6. /\ functions' \in [Names -> Function]
        /\ functions'[f].method # Nil
        /\ \A g \in Names : \/ functions'[g] = functions[g]
                            \/ /\ g = FunctionName(m) /\ functions[g].method = Nil
                               /\ functions'[g].method = m
                               /\ functions'[g].block = IF functions[g].block = Nil THEN m
                                                        ELSE functions[g].block
                               /\ \A i \in Indices : functions'[g].direct[i] = {}
    BY <1>0 DEF Dispatched
  <1>7. Grows
    BY <1>1, <1>2, <1>6 DEF Grows
  <1>8. /\ functionCache' \in [Lines -> CacheEntry]
        /\ \A l \in Lines : \/ functionCache'[l] = functionCache[l]
                            \/ /\ f = FunctionName(m)
                               /\ functionCache'[l].method = loc[m]
                               /\ functionCache'[l].function = f
    BY <1>0 DEF Dispatched
  <1>9. /\ hotMethods' \in [Names -> HotMethod]
        /\ \A g \in Names : \/ hotMethods'[g].method = hotMethods[g].method
                            \/ g = f /\ f = FunctionName(m) /\ hotMethods'[g].method = loc[m]
    BY <1>0 DEF Dispatched
  <1>10. \A g \in Names, j \in Indices :
           hotMethods'[g].sites[j].classes # {} => hotMethods'[g].sites[j].selector \in Selectors
    <2> SUFFICES ASSUME NEW g \in Names, NEW j \in Indices, hotMethods'[g].sites[j].classes # {}
                 PROVE  hotMethods'[g].sites[j].selector \in Selectors
      OBVIOUS
    <2>1. hotMethods[g].sites[j].selector \in Selectors \union {Nil}
      <3>1. hotMethods[g] \in HotMethod
        BY DEF IInv, TypeOK
      <3>2. hotMethods[g].sites[j] \in [selector : Selectors \union {Nil}, classes : SUBSET Addresses]
        BY <3>1 DEF HotMethod
      <3> QED
        BY <3>2
    <2>2. hotMethods[g].sites[j].classes # {} => hotMethods[g].sites[j].selector \in Selectors
      BY DEF IInv, SitesNamed
    <2>3. \/ hotMethods'[g].sites[j] = hotMethods[g].sites[j]
          \/ hotMethods'[g].sites[j].selector =
               IF hotMethods[g].sites[j].selector = Nil THEN selector
               ELSE hotMethods[g].sites[j].selector
      BY <1>0 DEF Dispatched
    <2> QED
      BY <2>1, <2>2, <2>3
  <1>11. act \in [method : Methods, function : Names, part : Parts]
         /\ act.method = m /\ act.function = f /\ act.part = "method"
    BY <1>5, <1>2, <1>4 DEF Activation, Parts
  <1>12. invoked' \subseteq [method : Methods, function : Names, part : Parts]
    BY <1>1, <1>5, <1>7, <1>11, GrowsKeeps
  <1>13. TypeOK'
    <2>1. loc' \in Placements(active)
      BY <1>1 DEF IInv, TypeOK
    <2> QED
      BY <1>1, <1>6, <1>8, <1>9, <1>12, <2>1 DEF IInv, TypeOK, Placements, Space
  <1>14. FunctionsCached'
    <2> SUFFICES ASSUME NEW l \in Lines, functionCache'[l].method # 0
                 PROVE  \E k \in Methods : /\ functionCache'[l].function = FunctionName(k)
                                           /\ functions'[FunctionName(k)].method # Nil
                                           /\ Noted(functionCache[l].method, k, moved)'
      BY DEF FunctionsCached
    <2>1. CASE functionCache'[l] = functionCache[l]
      BY <1>7, <2>1, CachedFunctionsKept
    <2>2. CASE functionCache'[l].function = f /\ functionCache'[l].method = loc[m] /\ f = FunctionName(m)
      <3>1. Noted(loc[m], m, moved)
        BY <1>3, NotedNow DEF IInv, TypeOK
      <3>2. Noted(functionCache[l].method, m, moved)'
        BY <1>1, <2>2, <3>1 DEF Noted
      <3> QED
        BY <1>2, <1>6, <2>2, <3>2
    <2> QED
      BY <1>8, <2>1, <2>2
  <1>15. BlocksCached'
    <2>1. \A l \in Lines : blockCache'[l] = blockCache[l]
      BY <1>1
    <2> QED
      BY <1>7, <2>1, CachedBlocksKept DEF BlocksCached
  <1>16. HotCurrent'
    <2> SUFFICES ASSUME NEW g \in Names, hotMethods'[g].method # 0
                 PROVE  /\ functions'[g].method # Nil
                        /\ StaysPut(g)' => \E k \in Methods : /\ FunctionName(k) = g
                                                              /\ hotMethods'[g].method = loc'[k]
                                                              /\ g \notin changed' => k = Current(g)'
      BY DEF HotCurrent
    <2>1. CASE hotMethods'[g].method = hotMethods[g].method
      <3>1. functions'[g].method # Nil
        BY <1>7, <2>1 DEF IInv, HotCurrent, Grows
      <3>2. /\ (StaysPut(g)' <=> StaysPut(g)) /\ Current(g)' = Current(g)
            /\ loc' = loc /\ changed' = changed
        BY <1>1, <1>7, GrowsKeeps
      <3> QED
        BY <2>1, <3>1, <3>2 DEF IInv, HotCurrent
    <2>2. CASE g = f /\ f = FunctionName(m) /\ hotMethods'[g].method = loc[m]
      <3>1. Current(g)' = Current(g) /\ loc' = loc
        BY <1>1, <1>7, GrowsKeeps
      <3> QED
        BY <1>2, <1>6, <2>2, <3>1
    <2> QED
      BY <1>9, <2>1, <2>2
  <1>17. SitesNamed'
    BY <1>10 DEF SitesNamed
  <1>18. RunsOwnCode'
    <2> SUFFICES ASSUME NEW a \in invoked', StaysPut(FunctionName(a.method))',
                        FunctionName(a.method) \notin changed'
                 PROVE  a.function = FunctionName(a.method) /\ Code(a)' = a.method
      BY DEF RunsOwnCode
    <2>1. CASE a \in invoked
      BY <1>7, <2>1, GrowsKeeps
    <2>2. CASE a = act
      <3>1. Settled(f) /\ f = FunctionName(m)
        BY <1>1, <1>4, <1>7, <1>11, <2>2, GrowsKeeps DEF Settled
      <3>2. functions'[f].method \in {Nil, Current(f)'}
        BY <1>4, <1>7, <3>1, GrowsKeeps DEF FunctionsCurrent
      <3>3. functions'[f].method = m
        BY <1>2, <1>6, <1>7, <3>1, <3>2, GrowsKeeps
      <3> QED
        BY <1>11, <2>2, <3>1, <3>3 DEF Code
    <2> QED
      BY <1>1, <1>5, <2>1, <2>2
  <1> QED
    BY <1>7, <1>13, <1>14, <1>15, <1>16, <1>17, <1>18, GrowsKeeps DEF IInv

\* A method that has a block, or runs, is the current one of its name.
LEMMA BlockOfCurrent ==
  ASSUME IInv, NEW m \in Methods, HasBlock(m), Settled(FunctionName(m))
  PROVE  m = Current(FunctionName(m))
  <1>1. CASE methods[klass[m]][name[m]] = m
    BY <1>1 DEF Current, FunctionName
  <1>2. CASE \E a \in invoked : a.method = m
    <2>1. PICK a \in invoked : a.method = m
      BY <1>2
    <2>2. a.function = FunctionName(m) /\ Code(a) = m /\ a.part \in {"method", "block"}
      BY <2>1 DEF IInv, RunsOwnCode, TypeOK, Parts, Settled
    <2>3. m # Nil /\ FunctionName(m) \in Names
      BY NamesOfMethods
    <2>4. /\ functions[FunctionName(m)].method \in {Nil, Current(FunctionName(m))}
          /\ functions[FunctionName(m)].block \in {Nil, Current(FunctionName(m))}
      BY <2>3 DEF IInv, FunctionsCurrent
    <2>5. CASE a.part = "method"
      BY <2>2, <2>3, <2>4, <2>5 DEF Code
    <2>6. CASE a.part = "block"
      BY <2>2, <2>3, <2>4, <2>6 DEF Code
    <2> QED
      BY <2>2, <2>5, <2>6
  <1> QED
    BY <1>1, <1>2 DEF HasBlock

\* invokeBlock(), from compiled code or by way of jit once:.
LEMMA RunBlockStep ==
  ASSUME IInv, NEW callers \in SUBSET invoked, NEW m \in Methods, HasBlock(m),
         NEW found \in {Nil, lookupInCache(blockCache, m)},
         RunBlock(callers, m, found), once' \in Methods \union {Nil}
  PROVE  IInv'
  <1>a. PICK f : f = IF found = Nil THEN FunctionName(m) ELSE found
    OBVIOUS
  <1>b. PICK act : act = Activation(m, f, "block")
    OBVIOUS
  <1>1. /\ IF found # Nil THEN UNCHANGED <<functions, blockCache>>
           ELSE /\ functions' = [functions EXCEPT ![f].block = IF @ = Nil THEN m ELSE @]
                /\ blockCache' = updateCache(blockCache, m, f)
        /\ invoked' = callers \union {act}
        /\ UNCHANGED <<methods, loc, active, functionCache, hotMethods, fault, moved,
                       moves, changed, changes>>
    BY <1>a, <1>b DEF RunBlock
  <1>2. /\ FunctionName(m) \in Names /\ FunctionName(m) # Nil /\ m # Nil /\ m \in Objects
        /\ Located(loc) /\ loc[m] \in Addresses /\ loc[m] # 0
    BY NamesOfMethods, TypeLocated DEF IInv, Located
  <1>3. /\ found # Nil => found \in Names /\ functions[found].block # Nil
        /\ StaysPut(FunctionName(m)) => f = FunctionName(m)
        /\ found = Nil => f = FunctionName(m)
        /\ f \in Names
    BY <1>a, <1>2, BlockHit, PutIsUnmoved
  <1>4. /\ functions \in [Names -> Function] /\ functionCache \in [Lines -> CacheEntry]
        /\ blockCache \in [Lines -> CacheEntry] /\ hotMethods \in [Names -> HotMethod]
    BY DEF IInv, TypeOK
  <1>5. /\ functions' \in [Names -> Function]
        /\ functions'[f].block # Nil
        /\ \A g \in Names : \/ functions'[g] = functions[g]
                            \/ /\ g = FunctionName(m) /\ functions[g].block = Nil
                               /\ functions'[g].block = m
                               /\ functions'[g].method = functions[g].method
                               /\ functions'[g].direct = functions[g].direct
    <2>1. CASE found # Nil
      BY <1>1, <1>3, <1>4, <1>a, <2>1
    <2>2. CASE found = Nil
      <3> DEFINE new == [functions[f] EXCEPT !.block = IF @ = Nil THEN m ELSE @]
      <3>1. functions' = [functions EXCEPT ![f] = new]
        BY <1>1, <2>2
      <3>2. functions[f] \in Function
        BY <1>3, <1>4
      <3>3. /\ new \in Function /\ new.method = functions[f].method
            /\ new.direct = functions[f].direct
            /\ new.block = IF functions[f].block = Nil THEN m ELSE functions[f].block
            /\ functions[f].block # Nil => new = functions[f]
        BY <3>2 DEF Function
      <3> HIDE DEF new
      <3>4. \A g \in Names : functions'[g] = IF g = f THEN new ELSE functions[g]
        BY <1>3, <1>4, <3>1
      <3>5. functions' \in [Names -> Function]
        BY <1>3, <1>4, <3>1, <3>3
      <3> QED
        BY <1>2, <1>3, <2>2, <3>3, <3>4, <3>5
    <2> QED
      BY <2>1, <2>2
  <1>6. Grows
    <2>1. Settled(FunctionName(m)) => m = Current(FunctionName(m))
      BY BlockOfCurrent
    <2> QED
      BY <1>1, <1>5, <2>1 DEF Grows
  <1>7. /\ blockCache' \in [Lines -> CacheEntry]
        /\ \A l \in Lines : \/ blockCache'[l] = blockCache[l]
                            \/ /\ f = FunctionName(m)
                               /\ blockCache'[l].method = loc[m]
                               /\ blockCache'[l].function = f
    <2>1. CASE found # Nil
      BY <1>1, <1>4, <2>1
    <2>2. CASE found = Nil
      BY <1>1, <1>2, <1>3, <1>4, <2>2, CacheResult
    <2> QED
      BY <2>1, <2>2
  <1>8. act \in [method : Methods, function : Names, part : Parts]
         /\ act.method = m /\ act.function = f /\ act.part = "block"
    BY <1>b, <1>3 DEF Activation, Parts
  <1>9. invoked' \subseteq [method : Methods, function : Names, part : Parts]
    BY <1>1, <1>6, <1>8, GrowsKeeps
  <1>10. TypeOK'
    <2>1. loc' \in Placements(active)
      BY <1>1 DEF IInv, TypeOK
    <2> QED
      BY <1>1, <1>5, <1>7, <1>9, <2>1 DEF IInv, TypeOK, Placements, Space
  <1>11. FunctionsCached'
    <2>1. \A l \in Lines : functionCache'[l] = functionCache[l]
      BY <1>1
    <2> QED
      BY <1>6, <2>1, CachedFunctionsKept DEF FunctionsCached
  <1>12. BlocksCached'
    <2> SUFFICES ASSUME NEW l \in Lines, blockCache'[l].method # 0
                 PROVE  \E k \in Methods : /\ blockCache'[l].function = FunctionName(k)
                                           /\ functions'[FunctionName(k)].block # Nil
                                           /\ Noted(blockCache[l].method, k, moved)'
      BY DEF BlocksCached
    <2>1. CASE blockCache'[l] = blockCache[l]
      BY <1>6, <2>1, CachedBlocksKept
    <2>2. CASE blockCache'[l].function = f /\ blockCache'[l].method = loc[m] /\ f = FunctionName(m)
      <3>1. Noted(loc[m], m, moved)
        BY <1>2, NotedNow DEF IInv, TypeOK
      <3>2. Noted(blockCache[l].method, m, moved)'
        BY <1>1, <2>2, <3>1 DEF Noted
      <3> QED
        BY <1>5, <2>2, <3>2
    <2> QED
      BY <1>7, <2>1, <2>2
  <1>13. HotCurrent' /\ SitesNamed'
    <2>1. SitesNamed'
      BY <1>1 DEF IInv, SitesNamed
    <2>2. \A g \in Names : functions[g].method # Nil => functions'[g].method # Nil
      BY <1>6 DEF Grows
    <2>3. \A g : (StaysPut(g)' <=> StaysPut(g)) /\ Current(g)' = Current(g)
      BY <1>6, GrowsKeeps
    <2>4. HotCurrent'
      BY <1>1, <2>2, <2>3 DEF IInv, HotCurrent
    <2> QED
      BY <2>1, <2>4
  <1>14. RunsOwnCode'
    <2> SUFFICES ASSUME NEW a \in invoked', StaysPut(FunctionName(a.method))',
                        FunctionName(a.method) \notin changed'
                 PROVE  a.function = FunctionName(a.method) /\ Code(a)' = a.method
      BY DEF RunsOwnCode
    <2>1. CASE a \in invoked
      BY <1>6, <2>1, GrowsKeeps
    <2>2. CASE a = act
      <3>1. Settled(f) /\ f = FunctionName(m)
        BY <1>1, <1>3, <1>6, <1>8, <2>2, GrowsKeeps DEF Settled
      <3>2. functions'[f].block \in {Nil, Current(f)'} /\ Current(f)' = Current(f)
        BY <1>3, <1>6, <3>1, GrowsKeeps DEF FunctionsCurrent
      <3>3. Current(f) = m
        BY <3>1, BlockOfCurrent
      <3>4. functions'[f].block = m
        BY <1>5, <3>2, <3>3
      <3> QED
        BY <1>8, <2>2, <3>1, <3>4 DEF Code
    <2> QED
      BY <1>1, <2>1, <2>2
  <1> QED
    BY <1>6, <1>10, <1>11, <1>12, <1>13, <1>14, GrowsKeeps DEF IInv

\* jit once: returns: the block's function is erased, the block cache flushed.
LEMMA ReturnFromOnceStep == IInv /\ ReturnFromOnce => IInv'
  <1> SUFFICES ASSUME IInv, ReturnFromOnce PROVE IInv'
    OBVIOUS
  <1>1. /\ once \in Methods /\ once' = Nil
        /\ functions' = [functions EXCEPT ![FunctionName(once)].block = Nil]
        /\ blockCache' = EmptyCache /\ invoked' = {}
        /\ UNCHANGED <<methods, loc, active, functionCache, hotMethods, fault, moved,
                       moves, changed, changes>>
    BY DEF ReturnFromOnce, IInv, TypeOK
  <1>2. FunctionName(once) \in Names
    BY <1>1, NamesOfMethods
  <1>3. /\ functions' \in [Names -> Function]
        /\ \A g \in Names : /\ functions'[g].method = functions[g].method
                            /\ functions'[g].direct = functions[g].direct
                            /\ functions'[g].block \in {Nil, functions[g].block}
    <2> DEFINE F == FunctionName(once)
               new == [functions[F] EXCEPT !.block = Nil]
    <2>1. functions' = [functions EXCEPT ![F] = new] /\ functions \in [Names -> Function]
      BY <1>1 DEF IInv, TypeOK
    <2>2. F \in Names
      BY <1>2
    <2> HIDE DEF F
    <2>3. functions[F] \in Function
      BY <2>1, <2>2
    <2>4. /\ new \in Function /\ new.method = functions[F].method
          /\ new.direct = functions[F].direct /\ new.block = Nil
      BY <2>3 DEF Function
    <2> HIDE DEF new
    <2>5. /\ functions' \in [Names -> Function]
          /\ \A g \in Names : functions'[g] = IF g = F THEN new ELSE functions[g]
      BY <2>1, <2>2, <2>4
    <2> QED
      BY <2>4, <2>5
  <1>4. EmptyCache \in [Lines -> CacheEntry] /\ \A l \in Lines : EmptyCache[l].method = 0
    BY DEF EmptyCache, CacheEntry
  <1>5. TypeOK'
    <2>1. loc' \in Placements(active)
      BY <1>1 DEF IInv, TypeOK
    <2> QED
      BY <1>1, <1>3, <1>4, <2>1 DEF IInv, TypeOK, Placements, Space
  <1>6. \A f : (Settled(f)' <=> Settled(f)) /\ (StaysPut(f)' <=> StaysPut(f)) /\ Current(f)' = Current(f)
    BY <1>1 DEF Settled, StaysPut, Current
  <1>7. Dictionary' /\ SitesNamed' /\ (moved => moves > 0)'
    BY <1>1, <1>6 DEF IInv, Dictionary, SitesNamed
  <1>8. FunctionsCurrent'
    BY <1>3, <1>6 DEF IInv, FunctionsCurrent
  <1>9. FunctionsCached'
    <2>1. ASSUME NEW m \in Methods PROVE functions'[FunctionName(m)].method = functions[FunctionName(m)].method
      BY <1>3, NamesOfMethods
    <2> QED
      BY <1>1, <2>1 DEF IInv, FunctionsCached, Noted
  <1>10. BlocksCached' /\ RunsOwnCode'
    BY <1>1, <1>4 DEF BlocksCached, RunsOwnCode
  <1>11. HotCurrent'
    BY <1>1, <1>3, <1>6 DEF IInv, HotCurrent
  <1>12. DirectsCurrent'
    <2>1. ASSUME NEW m \in Methods PROVE functions'[FunctionName(m)].method = functions[FunctionName(m)].method
      BY <1>3, NamesOfMethods
    <2> QED
      BY <1>1, <1>3, <1>6, <2>1 DEF IInv, DirectsCurrent, Noted
  <1> QED
    BY <1>5, <1>7, <1>8, <1>9, <1>10, <1>11, <1>12 DEF IInv

\* What a step leaves of the invariant that changes no code, cache or address.
LEMMA CodeUnchanged ==
  ASSUME IInv, UNCHANGED <<methods, loc, active, functions, functionCache, blockCache,
                           hotMethods, once, moved, moves, changed, changes>>
  PROVE  /\ Dictionary' /\ FunctionsCurrent' /\ FunctionsCached' /\ BlocksCached'
         /\ HotCurrent' /\ SitesNamed' /\ DirectsCurrent' /\ (moved => moves > 0)'
         /\ \A f : (Settled(f)' <=> Settled(f)) /\ (StaysPut(f)' <=> StaysPut(f)) /\ Current(f)' = Current(f)
         /\ \A a : Code(a)' = Code(a)
         /\ /\ invoked' \subseteq [method : Methods, function : Names, part : Parts]
            /\ fault' \in {"none", "stale address", "no direct function"}
            => TypeOK'
  <1>1. \A f : (Settled(f)' <=> Settled(f)) /\ (StaysPut(f)' <=> StaysPut(f)) /\ Current(f)' = Current(f)
    BY DEF Settled, StaysPut, Current
  <1>2. Dictionary' /\ SitesNamed' /\ (moved => moves > 0)'
    BY <1>1 DEF IInv, Dictionary, SitesNamed
  <1>3. FunctionsCurrent' /\ HotCurrent'
    BY <1>1 DEF IInv, FunctionsCurrent, HotCurrent
  <1>4. FunctionsCached' /\ BlocksCached'
    BY DEF IInv, FunctionsCached, BlocksCached, Noted
  <1>5. DirectsCurrent'
    BY <1>1 DEF IInv, DirectsCurrent, Noted
  <1>6. \A a : Code(a)' = Code(a)
    BY DEF Code
  <1>7. ASSUME invoked' \subseteq [method : Methods, function : Names, part : Parts],
               fault' \in {"none", "stale address", "no direct function"}
        PROVE  TypeOK'
    <2>1. loc' \in Placements(active)
      BY DEF IInv, TypeOK
    <2> QED
      BY <1>7, <2>1 DEF IInv, TypeOK, Placements, Space
  <1> QED
    BY <1>1, <1>2, <1>3, <1>4, <1>5, <1>6, <1>7

(***************************************************************************)
(* A direct call.  What lies at the address in the code is the method it   *)
(* was patched for when the name stays put: an address a static method has *)
(* was noted for a static method.                                          *)
(***************************************************************************)
LEMMA DirectCallStep ==
  ASSUME IInv, NEW a \in invoked, NEW i \in Indices, NEW c \in Classes, DirectCall(a, i, c)
  PROVE  IInv'
  <1>1. PICK d \in DirectCalls(a, i) :
          /\ invoked' = invoked \union {Activation(m, d.function, "method") :
                                          m \in ObjectsAt(d.method, Methods)}
          /\ fault' = IF ObjectsAt(d.method, Methods) = {} THEN "stale address" ELSE fault
    BY DEF DirectCall
  <1>2. UNCHANGED <<methods, loc, active, functions, functionCache, blockCache,
                    hotMethods, once, moved, moves, changed, changes>>
    BY DEF DirectCall
  <1>3. d \in functions[a.function].direct[i] /\ a.function \in Names
    BY DEF DirectCalls, IInv, TypeOK
  <1>4. PICK k \in Methods : /\ d.function = FunctionName(k)
                             /\ functions[FunctionName(k)].method # Nil
                             /\ Noted(d.method, k, moves > 0)
                             /\ Settled(FunctionName(k)) => k = Current(FunctionName(k))
    BY <1>3 DEF IInv, DirectsCurrent
  <1>5. FunctionName(k) \in Names /\ k \in Objects /\ Located(loc)
    BY NamesOfMethods, TypeLocated DEF IInv
  <1>6. ASSUME NEW m \in ObjectsAt(d.method, Methods)
        PROVE  /\ Activation(m, d.function, "method") \in [method : Methods, function : Names, part : Parts]
               /\ Settled(FunctionName(m)) => m = k /\ functions[FunctionName(k)].method = k
    <2>1. m \in Methods /\ loc[m] = d.method
      BY DEF ObjectsAt
    <2>2. ASSUME Settled(FunctionName(m)) PROVE m = k /\ functions[FunctionName(k)].method = k
      <3>1. m \notin Dynamic \/ ~(moves > 0)
        BY <2>1, <2>2 DEF Settled, StaysPut
      <3>2. m \in Objects /\ (moves > 0) \in BOOLEAN
        BY <2>1, NamesOfMethods
      <3>3. m = k
        BY <1>4, <1>5, <2>1, <3>1, <3>2, NotedUnique
      <3> QED
        BY <1>4, <1>5, <2>2, <3>3 DEF IInv, FunctionsCurrent
    <2> QED
      BY <1>4, <1>5, <2>1, <2>2 DEF Activation, Parts
  <1>7. invoked' \subseteq [method : Methods, function : Names, part : Parts]
    BY <1>1, <1>6 DEF IInv, TypeOK
  <1>8. fault' \in {"none", "stale address", "no direct function"}
    BY <1>1 DEF IInv, TypeOK
  <1>9. RunsOwnCode'
    <2> SUFFICES ASSUME NEW b \in invoked', StaysPut(FunctionName(b.method))',
                        FunctionName(b.method) \notin changed'
                 PROVE  b.function = FunctionName(b.method) /\ Code(b)' = b.method
      BY DEF RunsOwnCode
    <2>0. StaysPut(FunctionName(b.method)) /\ FunctionName(b.method) \notin changed
      BY <1>2, CodeUnchanged
    <2>1. CASE b \in invoked
      <3>1. b.function = FunctionName(b.method) /\ Code(b) = b.method
        BY <2>0, <2>1 DEF IInv, RunsOwnCode
      <3> QED
        BY <1>2, <3>1, CodeUnchanged
    <2>2. CASE b \notin invoked
      <3>1. PICK m \in ObjectsAt(d.method, Methods) : b = Activation(m, d.function, "method")
        BY <1>1, <2>2
      <3>2. b.method = m /\ b.function = d.function /\ b.part = "method"
        BY <3>1 DEF Activation
      <3>3. m = k /\ functions[FunctionName(k)].method = k
        BY <1>6, <2>0, <3>2 DEF Settled
      <3>4. Code(b)' = Code(b)
        BY <1>2, CodeUnchanged
      <3> QED
        BY <1>4, <3>2, <3>3, <3>4 DEF Code
    <2> QED
      BY <2>1, <2>2
  <1> QED
    BY <1>2, <1>7, <1>8, <1>9, CodeUnchanged DEF IInv

\* A method added or removed: its name is no longer vouched for when something
\* was compiled under it, and under a name without code there is nothing to do.
LEMMA SetMethodStep ==
  ASSUME IInv, NEW c \in Classes, NEW s \in Selectors, NEW m \in Methods \union {Nil},
         SetMethod(c, s, m)
  PROVE  IInv'
  <1> DEFINE F == <<c, s>>
  <1>1. /\ methods' = [methods EXCEPT ![c][s] = m]
        /\ methods[c][s] # doesNotUnderstand
        /\ m = Nil \/ FunctionName(m) = F
        /\ changes' = changes + 1 /\ moves + changes < MaxDisturbances
        /\ UNCHANGED <<loc, active, functions, functionCache, blockCache, hotMethods,
                       invoked, once, fault, moved, moves>>
    BY DEF SetMethod
  <1>2. changed' = changed \union {F} \/ changed' = changed
    BY DEF SetMethod
  <1>3. F \notin changed' => \A f \in Names : f[2] = s => functions[f] = NoFunction
    BY DEF SetMethod
  <1>4. methods \in [Classes -> [Selectors -> Methods \union {Nil}]]
    BY DEF IInv, TypeOK
  <1>5. /\ methods' \in [Classes -> [Selectors -> Methods \union {Nil}]]
        /\ methods'[c][s] = m
        /\ \A k \in Classes, t \in Selectors : <<k, t>> # F => methods'[k][t] = methods[k][t]
    BY <1>1, <1>4
  <1>6. /\ \A f \in Classes \X Selectors : f # F => Current(f)' = Current(f)
        /\ Current(F)' = m
    BY <1>5 DEF Current
  <1>7. \A f : /\ StaysPut(f)' <=> StaysPut(f)
               /\ Settled(f)' => Settled(f)
               /\ f \notin changed' => f \notin changed
    BY <1>1, <1>2 DEF Settled, StaysPut
  <1>8. ASSUME NEW f \in Names, f \notin changed'
        PROVE  /\ f \in Classes \X Selectors
               /\ Current(f)' = Current(f) \/ (functions[f].method = Nil /\ functions[f].block = Nil)
    <2>1. f \in Classes \X Selectors
      BY NamesOfMethods DEF Names
    <2>2. CASE f = F
      <3>1. functions[f] = NoFunction
        BY <1>3, <1>8, <2>2
      <3> QED
        BY <2>1, <3>1 DEF NoFunction
    <2> QED
      BY <1>6, <2>1, <2>2
  <1>9. Dictionary'
    <2>1. ASSUME NEW k \in Classes, NEW t \in Selectors, methods'[k][t] # Nil
          PROVE  FunctionName(methods'[k][t]) = <<k, t>>
      BY <1>1, <1>5, <2>1 DEF IInv, Dictionary
    <2>2. Current(FunctionName(doesNotUnderstand))' = doesNotUnderstand
      <3>1. doesNotUnderstand \in Methods
        BY JITRuntimeAssumption
      <3>2. FunctionName(doesNotUnderstand) # F
        <4>1. Current(FunctionName(doesNotUnderstand)) = doesNotUnderstand
          BY DEF IInv, Dictionary
        <4> QED
          BY <1>1, <4>1 DEF Current
      <3> QED
        BY <1>6, <3>1, <3>2, NamesOfMethods DEF IInv, Dictionary
    <2> QED
      BY <2>1, <2>2 DEF Dictionary
  <1>10. FunctionsCurrent'
    <2> SUFFICES ASSUME NEW f \in Names, Settled(f)'
                 PROVE  /\ functions'[f].method \in {Nil, Current(f)'}
                        /\ functions'[f].block \in {Nil, Current(f)'}
      BY DEF FunctionsCurrent
    <2>1. Settled(f) /\ f \notin changed'
      BY <1>7 DEF Settled
    <2> QED
      BY <1>1, <1>8, <2>1 DEF IInv, FunctionsCurrent
  <1>11. FunctionsCached' /\ BlocksCached' /\ SitesNamed' /\ (moved => moves > 0)'
    BY <1>1 DEF IInv, FunctionsCached, BlocksCached, SitesNamed, Noted
  <1>12. HotCurrent'
    <2> SUFFICES ASSUME NEW f \in Names, hotMethods'[f].method # 0
                 PROVE  /\ functions'[f].method # Nil
                        /\ StaysPut(f)' => \E k \in Methods : /\ FunctionName(k) = f
                                                              /\ hotMethods'[f].method = loc'[k]
                                                              /\ f \notin changed' => k = Current(f)'
      BY DEF HotCurrent
    <2>1. functions[f].method # Nil
      BY <1>1 DEF IInv, HotCurrent
    <2>2. ASSUME StaysPut(f)
          PROVE  \E k \in Methods : /\ FunctionName(k) = f
                                    /\ hotMethods[f].method = loc[k]
                                    /\ f \notin changed' => k = Current(f)'
      <3>1. PICK k \in Methods : /\ FunctionName(k) = f
                                 /\ hotMethods[f].method = loc[k]
                                 /\ f \notin changed => k = Current(f)
        BY <1>1, <2>2 DEF IInv, HotCurrent
      <3>2. f \notin changed' => k = Current(f)'
        BY <1>7, <1>8, <2>1, <3>1
      <3> QED
        BY <3>1, <3>2
    <2> QED
      BY <1>1, <1>7, <2>1, <2>2
  <1>13. DirectsCurrent'
    <2> SUFFICES ASSUME NEW f \in Names, NEW i \in Indices, NEW d \in functions'[f].direct[i]
                 PROVE  \E k \in Methods :
                          /\ d.function = FunctionName(k)
                          /\ functions'[FunctionName(k)].method # Nil
                          /\ Noted(d.method, k, moves > 0)'
                          /\ Settled(FunctionName(k))' => k = Current(FunctionName(k))'
      BY DEF DirectsCurrent
    <2>1. PICK k \in Methods : /\ d.function = FunctionName(k)
                               /\ functions[FunctionName(k)].method # Nil
                               /\ Noted(d.method, k, moves > 0)
                               /\ Settled(FunctionName(k)) => k = Current(FunctionName(k))
      BY <1>1 DEF IInv, DirectsCurrent
    <2>2. Noted(d.method, k, moves > 0)'
      BY <1>1, <2>1 DEF Noted
    <2>3. Settled(FunctionName(k))' => k = Current(FunctionName(k))'
      <3>1. Settled(FunctionName(k))' => Settled(FunctionName(k)) /\ FunctionName(k) \notin changed'
        BY <1>7 DEF Settled
      <3> QED
        BY <1>8, <2>1, <3>1, NamesOfMethods
    <2> QED
      BY <1>1, <2>1, <2>2, <2>3
  <1>14. RunsOwnCode'
    <2> SUFFICES ASSUME NEW a \in invoked', StaysPut(FunctionName(a.method))',
                        FunctionName(a.method) \notin changed'
                 PROVE  a.function = FunctionName(a.method) /\ Code(a)' = a.method
      BY DEF RunsOwnCode
    <2>1. a \in invoked /\ StaysPut(FunctionName(a.method)) /\ FunctionName(a.method) \notin changed
      BY <1>1, <1>7
    <2> QED
      BY <1>1, <2>1 DEF IInv, RunsOwnCode, Code
  <1>15. TypeOK'
    <2>1. loc' \in Placements(active)
      BY <1>1 DEF IInv, TypeOK
    <2>2. changes' \in Nat /\ moves + changes' <= MaxDisturbances
      <3>1. moves \in Nat /\ changes \in Nat /\ MaxDisturbances \in Nat
        BY JITRuntimeAssumption DEF IInv, TypeOK
      <3> QED
        BY <1>1, <3>1
    <2>3. changed' \subseteq Classes \X Selectors
      <3>1. changed \subseteq Classes \X Selectors
        BY DEF IInv, TypeOK
      <3>2. F \in Classes \X Selectors
        OBVIOUS
      <3> HIDE DEF F
      <3> QED
        BY <1>2, <3>1, <3>2
    <2> QED
      <3>1. UNCHANGED <<loc, active, functions, functionCache, blockCache, hotMethods,
                        invoked, once, fault, moved, moves>>
        BY <1>1
      <3>2. methods' \in [Classes -> [Selectors -> Methods \union {Nil}]]
        BY <1>5
      <3> QED
        BY <2>1, <2>2, <2>3, <3>1, <3>2 DEF IInv, TypeOK, Placements, Space
  <1> QED
    BY <1>9, <1>10, <1>11, <1>12, <1>13, <1>14, <1>15 DEF IInv

\* What patchHotMethods() makes of a hot method: the method at its recorded
\* address, and the direct calls of its sites.
Recompiled(f) == CHOOSE m \in ObjectsAt(hotMethods[f].method, Methods) : TRUE

DirectsOf(f) ==
  [i \in Indices |->
     IF i \notin HotSites(f, Recompiled(f)) THEN {}
     ELSE {DirectBlock(hotMethods[f].sites[i].selector, c) : c \in Handlers(hotMethods[f].sites[i])}]

\* Patching that neither meets a stale address nor lacks a function.
Patched ==
  /\ \A f \in Hot : ObjectsAt(hotMethods[f].method, Methods) # {}
  /\ \A f \in Hot, i \in Indices : \A d \in DirectsOf(f)[i] : functions[d.function].method # Nil
  /\ functions' = [f \in Names |->
       IF f \in Hot
       THEN [compileMethod(functions, Recompiled(f))[FunctionName(Recompiled(f))]
               EXCEPT !.direct = DirectsOf(f)]
       ELSE functions[f]]
  /\ functionCache' = EmptyCache /\ blockCache' = EmptyCache
  /\ moved' = FALSE /\ fault' = fault

LEMMA PatchEffect ==
  ASSUME patchHotMethods
  PROVE  /\ UNCHANGED <<methods, loc, active, hotMethods, once, moves, changed, changes>>
         /\ invoked' = {} /\ fault = "none"
         /\ \/ /\ fault' \in {"stale address", "no direct function"}
               /\ UNCHANGED <<functions, functionCache, blockCache, moved>>
            \/ Patched
         /\ fault' = "stale address" =>
              \E f \in Hot :
                \/ ObjectsAt(hotMethods[f].method, Methods) = {}
                \/ \E i \in HotSites(f, Recompiled(f)) : \E a \in hotMethods[f].sites[i].classes :
                     ObjectsAt(a, Classes) = {}
         /\ fault' = "no direct function" =>
              \E f \in Hot, i \in Indices : \E d \in DirectsOf(f)[i] :
                functions[d.function].method = Nil
  BY DEF patchHotMethods, Patched, Recompiled, DirectsOf

\* A direct call names the function of the method its receiver's class finds.
LEMMA DirectsOfHot ==
  ASSUME IInv, NEW f \in Hot, NEW i \in Indices, NEW d \in DirectsOf(f)[i]
  PROVE  /\ d \in [klass : Addresses, method : Addresses, function : Names]
         /\ \E k \in Methods : /\ d.function = FunctionName(k)
                               /\ d.method = loc[k]
                               /\ k = Current(FunctionName(k))
  <1> DEFINE s == hotMethods[f].sites[i].selector
  <1>0. f \in Names
    BY DEF Hot
  <1>1. PICK c \in Handlers(hotMethods[f].sites[i]) : d = DirectBlock(s, c)
    BY DEF DirectsOf
  <1>2. c \in Classes /\ Find(s, c) # Nil /\ hotMethods[f].sites[i].classes # {}
    BY DEF Handlers
  <1>3. s \in Selectors
    BY <1>0, <1>2 DEF IInv, SitesNamed
  <1>4. Find(s, c) \in Methods /\ FunctionName(Find(s, c))[2] = s /\ Target(s, c) = Find(s, c)
    BY <1>2, <1>3, TargetCurrent DEF IInv, Target
  <1>5. Current(FunctionName(Find(s, c))) = Find(s, c)
    BY <1>2, <1>3, <1>4, TargetCurrent DEF IInv
  <1> HIDE DEF s
  <1>6. PICK k \in Methods : k = Find(s, c)
    BY <1>4
  <1>7. FunctionName(k) = <<klass[k], s>>
    BY <1>4, <1>6 DEF FunctionName
  <1>8. d = [klass |-> loc[c], method |-> loc[k], function |-> FunctionName(k)]
    BY <1>1, <1>6, <1>7 DEF DirectBlock
  <1>9. loc[c] \in Addresses /\ loc[k] \in Addresses /\ FunctionName(k) \in Names
    BY <1>2, NamesOfMethods, TypeLocated DEF IInv, Located, Objects
  <1> QED
    BY <1>5, <1>6, <1>8, <1>9

\* What a hot method is compiled to.
LEMMA PatchedCode ==
  ASSUME IInv, Patched, NEW f \in Hot
  PROVE  /\ functions'[f] \in Function
         /\ functions'[f].method = Recompiled(f) /\ Recompiled(f) \in Methods
         /\ \A i \in Indices : functions'[f].direct[i] = DirectsOf(f)[i]
         /\ Settled(f) => /\ Recompiled(f) = Current(f)
                          /\ functions'[f].block \in {Nil, Current(f)}
  <1> DEFINE m == Recompiled(f)
             old == compileMethod(functions, m)[FunctionName(m)]
             new == [old EXCEPT !.direct = DirectsOf(f)]
  <1>a. functions \in [Names -> Function] /\ Located(loc)
    BY TypeLocated DEF IInv, TypeOK
  <1>0. f \in Names /\ hotMethods[f].method # 0
    BY DEF Hot
  <1>1. functions'[f] = new
    BY <1>0 DEF Patched
  <1>2. m \in Methods /\ loc[m] = hotMethods[f].method
    BY DEF Patched, Recompiled, ObjectsAt
  <1> HIDE DEF m
  <1>3. /\ old \in Function /\ old.method = m
        /\ old.block = IF functions[FunctionName(m)].block = Nil THEN m
                       ELSE functions[FunctionName(m)].block
    BY <1>a, <1>2, CompileResult, NamesOfMethods
  <1> HIDE DEF old
  <1>4. DirectsOf(f) \in [Indices -> SUBSET [klass : Addresses, method : Addresses, function : Names]]
    <2>1. DirectsOf(f) = [i \in Indices |-> DirectsOf(f)[i]]
      BY DEF DirectsOf
    <2>2. \A i \in Indices : DirectsOf(f)[i] \subseteq [klass : Addresses, method : Addresses, function : Names]
      BY DirectsOfHot
    <2> QED
      BY <2>1, <2>2
  <1>5. /\ new \in Function /\ new.method = old.method /\ new.block = old.block
        /\ new.direct = DirectsOf(f)
    BY <1>3, <1>4 DEF Function
  <1> HIDE DEF new
  <1>6. ASSUME Settled(f) PROVE m = Current(f) /\ new.block \in {Nil, Current(f)}
    <2>1. PICK k \in Methods : /\ FunctionName(k) = f
                               /\ hotMethods[f].method = loc[k]
                               /\ k = Current(f)
      BY <1>0, <1>6 DEF IInv, HotCurrent, Settled
    <2>2. m = k
      BY <1>a, <1>2, <2>1, NamesOfMethods DEF Located
    <2>3. functions[f].block \in {Nil, Current(f)}
      BY <1>0, <1>6 DEF IInv, FunctionsCurrent
    <2> QED
      BY <1>3, <1>5, <2>1, <2>2, <2>3
  <1> QED
    BY <1>1, <1>2, <1>3, <1>5, <1>6 DEF m

LEMMA PatchStep == IInv /\ patchHotMethods => IInv'
  <1> SUFFICES ASSUME IInv, patchHotMethods PROVE IInv'
    OBVIOUS
  <1>1. UNCHANGED <<methods, loc, active, hotMethods, once, moves, changed, changes>> /\ invoked' = {}
    BY PatchEffect
  <1>2. RunsOwnCode'
    BY <1>1 DEF RunsOwnCode
  <1>3. CASE fault' \in {"stale address", "no direct function"}
             /\ UNCHANGED <<functions, functionCache, blockCache, moved>>
    BY <1>1, <1>2, <1>3, CodeUnchanged DEF IInv
  <1>4. CASE Patched
    <2>1. functions \in [Names -> Function] /\ Located(loc)
      BY TypeLocated DEF IInv, TypeOK
    <2>2. EmptyCache \in [Lines -> CacheEntry] /\ \A l \in Lines : EmptyCache[l].method = 0
      BY DEF EmptyCache, CacheEntry
    <2>3. \A f : (Settled(f)' <=> Settled(f)) /\ (StaysPut(f)' <=> StaysPut(f)) /\ Current(f)' = Current(f)
      BY <1>1 DEF Settled, StaysPut, Current
    <2>4. ASSUME NEW f \in Names, f \notin Hot PROVE functions'[f] = functions[f]
      BY <1>4, <2>4 DEF Patched
    <2>5. functions' \in [Names -> Function]
      <3>1. \A f \in Names : functions'[f] \in Function
        BY <1>4, <2>1, <2>4, PatchedCode
      <3>2. functions' = [f \in Names |-> functions'[f]]
        BY <1>4 DEF Patched
      <3> QED
        BY <3>1, <3>2
    <2>6. ASSUME NEW f \in Names, functions[f].method # Nil PROVE functions'[f].method # Nil
      <3>1. CASE f \in Hot
        BY <1>4, PatchedCode, <3>1, NamesOfMethods
      <3>2. CASE f \notin Hot
        BY <2>4, <2>6, <3>2
      <3> QED
        BY <3>1, <3>2
    <2>7. TypeOK'
      <3>1. loc' \in Placements(active)
        BY <1>1 DEF IInv, TypeOK
      <3>2. moved' \in BOOLEAN
        BY <1>4, Zenon DEF Patched
      <3>3. /\ functionCache' \in [Lines -> CacheEntry] /\ blockCache' \in [Lines -> CacheEntry]
            /\ fault' = fault
        BY <1>4, <2>2 DEF Patched
      <3> QED
        BY <1>1, <2>5, <3>1, <3>2, <3>3 DEF IInv, TypeOK, Placements, Space
    <2>8. Dictionary' /\ SitesNamed' /\ FunctionsCached' /\ BlocksCached'
      <3>1. functionCache' = EmptyCache /\ blockCache' = EmptyCache
        BY <1>4 DEF Patched
      <3> QED
        BY <1>1, <2>2, <2>3, <3>1 DEF IInv, Dictionary, SitesNamed, FunctionsCached, BlocksCached
    <2>9. FunctionsCurrent'
      <3> SUFFICES ASSUME NEW f \in Names, Settled(f)
                   PROVE  /\ functions'[f].method \in {Nil, Current(f)}
                          /\ functions'[f].block \in {Nil, Current(f)}
        BY <2>3 DEF FunctionsCurrent
      <3>1. CASE f \in Hot
        BY <1>4, PatchedCode, <3>1
      <3>2. CASE f \notin Hot
        BY <2>4, <3>2 DEF IInv, FunctionsCurrent
      <3> QED
        BY <3>1, <3>2
    <2>10. HotCurrent'
      BY <1>1, <2>3, <2>6 DEF IInv, HotCurrent
    <2>11. DirectsCurrent'
      <3> SUFFICES ASSUME NEW f \in Names, NEW i \in Indices, NEW d \in functions'[f].direct[i]
                   PROVE  \E m \in Methods :
                            /\ d.function = FunctionName(m)
                            /\ functions'[FunctionName(m)].method # Nil
                            /\ Noted(d.method, m, moves > 0)'
                            /\ Settled(FunctionName(m))' => m = Current(FunctionName(m))'
        BY DEF DirectsCurrent
      <3>1. PICK m \in Methods : /\ d.function = FunctionName(m)
                                 /\ functions[FunctionName(m)].method # Nil
                                 /\ Noted(d.method, m, moves > 0)
                                 /\ Settled(FunctionName(m)) => m = Current(FunctionName(m))
        <4>1. CASE f \in Hot
          <5>1. d \in DirectsOf(f)[i]
            BY <1>4, PatchedCode, <4>1
          <5>2. PICK k \in Methods : /\ d.function = FunctionName(k)
                                     /\ d.method = loc[k]
                                     /\ k = Current(FunctionName(k))
            BY <4>1, <5>1, DirectsOfHot
          <5>3. functions[FunctionName(k)].method # Nil
            BY <1>4, <4>1, <5>1, <5>2 DEF Patched
          <5>4. Noted(loc[k], k, moves > 0)
            BY <2>1, NamesOfMethods DEF Noted, Located
          <5> QED
            BY <5>2, <5>3, <5>4
        <4>2. CASE f \notin Hot
          BY <2>4, <4>2 DEF IInv, DirectsCurrent
        <4> QED
          BY <4>1, <4>2
      <3>2. functions'[FunctionName(m)].method # Nil
        BY <2>6, <3>1, NamesOfMethods
      <3>3. Noted(d.method, m, moves > 0)'
        BY <1>1, <3>1 DEF Noted
      <3> QED
        BY <2>3, <3>1, <3>2, <3>3
    <2>12. (moved => moves > 0)'
      BY <1>4 DEF Patched
    <2> QED
      BY <1>2, <2>7, <2>8, <2>9, <2>10, <2>11, <2>12 DEF IInv
  <1> QED
    BY <1>3, <1>4, PatchEffect

\* A collection: nothing is noted any more for what it moved, and static objects
\* stay where they are.
LEMMA CollectStep == IInv /\ collectGarbage => IInv'
  <1> SUFFICES ASSUME IInv, collectGarbage PROVE IInv'
    OBVIOUS
  <1>1. /\ active' = 3 - active /\ loc' \in Placements(active')
        /\ moved' = TRUE /\ moves' = moves + 1 /\ moves + changes < MaxDisturbances
        /\ UNCHANGED <<methods, functions, functionCache, blockCache, hotMethods, invoked,
                       once, fault, changed, changes>>
    BY DEF collectGarbage
  <1>2. active' \in {1, 2} /\ moves \in Nat /\ changes \in Nat /\ moved \in BOOLEAN
    <2>1. active \in {1, 2} /\ moves \in Nat /\ changes \in Nat /\ moved \in BOOLEAN
      BY DEF IInv, TypeOK
    <2> QED
      BY <1>1, <2>1
  <1>3. Located(loc) /\ Located(loc')
    BY <1>1, <1>2, TypeLocated, PlacementsLocate DEF IInv
  <1>4. moves' \in Nat /\ moves' > 0 /\ moves' # 0
    BY <1>1, <1>2
  <1>5. \A f : /\ StaysPut(f)' => \A m \in Methods : FunctionName(m) = f => m \notin Dynamic
               /\ StaysPut(f)' => StaysPut(f)
               /\ Settled(f)' => Settled(f)
               /\ Current(f)' = Current(f)
    BY <1>1, <1>4 DEF StaysPut, Settled, Current
  <1>6. \A o \in Objects \ Dynamic : loc'[o] = loc[o]
    BY <1>3 DEF Located
  <1>7. ASSUME NEW o \in Objects, NEW a, NEW old \in BOOLEAN, Noted(a, o, old)
        PROVE  IF o \in Dynamic THEN a \in SpaceOne \union SpaceTwo ELSE a = loc'[o]
    BY <1>3, <1>6, <1>7 DEF Noted, Located
  <1>8. TypeOK'
    <2>1. moved' \in BOOLEAN
      BY <1>1, Zenon
    <2>2. MaxDisturbances \in Nat
      BY JITRuntimeAssumption
    <2>3. moves' + changes <= MaxDisturbances
      BY <1>1, <1>2, <2>2
    <2>4. /\ loc' \in Placements(active') /\ Placements(active)' = Placements(active')
          /\ UNCHANGED <<methods, functions, functionCache, blockCache, hotMethods, invoked,
                         once, fault, changed, changes>>
      BY <1>1 DEF Placements, Space
    <2> QED
      BY <1>2, <1>4, <2>1, <2>3, <2>4 DEF IInv, TypeOK
  <1>9. Dictionary' /\ SitesNamed' /\ FunctionsCurrent' /\ (moved => moves > 0)'
    BY <1>1, <1>4, <1>5 DEF IInv, Dictionary, SitesNamed, FunctionsCurrent
  <1>10. FunctionsCached'
    <2> SUFFICES ASSUME NEW l \in Lines, functionCache[l].method # 0
                 PROVE  \E m \in Methods : /\ functionCache[l].function = FunctionName(m)
                                           /\ functions[FunctionName(m)].method # Nil
                                           /\ Noted(functionCache[l].method, m, moved)'
      BY <1>1 DEF FunctionsCached
    <2>1. PICK m \in Methods : /\ functionCache[l].function = FunctionName(m)
                               /\ functions[FunctionName(m)].method # Nil
                               /\ Noted(functionCache[l].method, m, moved)
      BY DEF IInv, FunctionsCached
    <2>2. IF m \in Dynamic THEN functionCache[l].method \in SpaceOne \union SpaceTwo
          ELSE functionCache[l].method = loc'[m]
      BY <1>2, <1>7, <2>1, NamesOfMethods
    <2>3. Noted(functionCache[l].method, m, moved)'
      BY <1>1, <2>2 DEF Noted
    <2> QED
      BY <2>1, <2>3
  <1>11. BlocksCached'
    <2> SUFFICES ASSUME NEW l \in Lines, blockCache[l].method # 0
                 PROVE  \E m \in Methods : /\ blockCache[l].function = FunctionName(m)
                                           /\ functions[FunctionName(m)].block # Nil
                                           /\ Noted(blockCache[l].method, m, moved)'
      BY <1>1 DEF BlocksCached
    <2>1. PICK m \in Methods : /\ blockCache[l].function = FunctionName(m)
                               /\ functions[FunctionName(m)].block # Nil
                               /\ Noted(blockCache[l].method, m, moved)
      BY DEF IInv, BlocksCached
    <2>2. IF m \in Dynamic THEN blockCache[l].method \in SpaceOne \union SpaceTwo
          ELSE blockCache[l].method = loc'[m]
      BY <1>2, <1>7, <2>1, NamesOfMethods
    <2>3. Noted(blockCache[l].method, m, moved)'
      BY <1>1, <2>2 DEF Noted
    <2> QED
      BY <2>1, <2>3
  <1>12. HotCurrent'
    <2> SUFFICES ASSUME NEW f \in Names, hotMethods[f].method # 0
                 PROVE  /\ functions[f].method # Nil
                        /\ StaysPut(f)' => \E m \in Methods : /\ FunctionName(m) = f
                                                              /\ hotMethods[f].method = loc'[m]
                                                              /\ f \notin changed => m = Current(f)
      BY <1>1, <1>5 DEF HotCurrent
    <2>1. functions[f].method # Nil
      BY DEF IInv, HotCurrent
    <2>2. ASSUME StaysPut(f)'
          PROVE  \E m \in Methods : /\ FunctionName(m) = f
                                    /\ hotMethods[f].method = loc'[m]
                                    /\ f \notin changed => m = Current(f)
      <3>1. PICK m \in Methods : /\ FunctionName(m) = f
                                 /\ hotMethods[f].method = loc[m]
                                 /\ f \notin changed => m = Current(f)
        BY <1>5, <2>2 DEF IInv, HotCurrent
      <3>2. loc'[m] = loc[m]
        BY <1>5, <1>6, <2>2, <3>1, NamesOfMethods
      <3> QED
        BY <3>1, <3>2
    <2> QED
      BY <2>1, <2>2
  <1>13. DirectsCurrent'
    <2> SUFFICES ASSUME NEW f \in Names, NEW i \in Indices, NEW d \in functions[f].direct[i]
                 PROVE  \E m \in Methods :
                          /\ d.function = FunctionName(m)
                          /\ functions[FunctionName(m)].method # Nil
                          /\ Noted(d.method, m, moves > 0)'
                          /\ Settled(FunctionName(m))' => m = Current(FunctionName(m))
      BY <1>1, <1>5 DEF DirectsCurrent
    <2>1. PICK m \in Methods : /\ d.function = FunctionName(m)
                               /\ functions[FunctionName(m)].method # Nil
                               /\ Noted(d.method, m, moves > 0)
                               /\ Settled(FunctionName(m)) => m = Current(FunctionName(m))
      BY DEF IInv, DirectsCurrent
    <2>2. IF m \in Dynamic THEN d.method \in SpaceOne \union SpaceTwo ELSE d.method = loc'[m]
      <3>1. (moves > 0) \in BOOLEAN
        OBVIOUS
      <3> QED
        BY <1>7, <2>1, <3>1, NamesOfMethods
    <2>3. Noted(d.method, m, moves > 0)'
      BY <1>4, <2>2 DEF Noted
    <2> QED
      BY <1>5, <2>1, <2>3
  <1>14. RunsOwnCode'
    <2> SUFFICES ASSUME NEW a \in invoked', StaysPut(FunctionName(a.method))',
                        FunctionName(a.method) \notin changed'
                 PROVE  a.function = FunctionName(a.method) /\ Code(a)' = a.method
      BY DEF RunsOwnCode
    <2>1. a \in invoked /\ StaysPut(FunctionName(a.method)) /\ FunctionName(a.method) \notin changed
      BY <1>1, <1>5
    <2> QED
      BY <1>1, <2>1 DEF IInv, RunsOwnCode, Code
  <1> QED
    BY <1>8, <1>9, <1>10, <1>11, <1>12, <1>13, <1>14 DEF IInv

LEMMA InitIInv == Init => IInv
  <1> SUFFICES ASSUME Init PROVE IInv
    OBVIOUS
  <1>1. /\ methods = [c \in Classes |-> [s \in Selectors |->
                       IF \E m \in Installed : FunctionName(m) = <<c, s>>
                       THEN CHOOSE m \in Installed : FunctionName(m) = <<c, s>> ELSE Nil]]
        /\ active = 1 /\ loc \in Placements(1)
        /\ functions = [f \in Names |-> NoFunction]
        /\ functionCache = EmptyCache /\ blockCache = EmptyCache
        /\ hotMethods = [f \in Names |-> NoHits]
        /\ invoked = {} /\ once = Nil /\ fault = "none"
        /\ moves = 0 /\ changed = {} /\ changes = 0
    BY DEF Init
  <1>2. moved = FALSE
    BY DEF Init
  <1>3. /\ NoFunction \in Function /\ NoFunction.method = Nil /\ NoFunction.block = Nil
        /\ \A i \in Indices : NoFunction.direct[i] = {}
    BY DEF NoFunction, Function
  <1>4. /\ NoHits \in HotMethod /\ NoHits.method = 0
        /\ \A i \in Indices : NoHits.sites[i].classes = {}
    BY DEF NoHits, HotMethod
  <1>5. EmptyCache \in [Lines -> CacheEntry] /\ \A l \in Lines : EmptyCache[l].method = 0
    BY DEF EmptyCache, CacheEntry
  <1>6. ASSUME NEW c \in Classes, NEW s \in Selectors
        PROVE  \/ methods[c][s] = Nil /\ ~\E m \in Installed : FunctionName(m) = <<c, s>>
               \/ methods[c][s] \in Installed /\ FunctionName(methods[c][s]) = <<c, s>>
    <2>1. CASE \E m \in Installed : FunctionName(m) = <<c, s>>
      <3>1. methods[c][s] = CHOOSE m \in Installed : FunctionName(m) = <<c, s>>
        BY <1>1, <2>1
      <3> QED
        BY <2>1, <3>1
    <2>2. CASE ~\E m \in Installed : FunctionName(m) = <<c, s>>
      BY <1>1, <2>2
    <2> QED
      BY <2>1, <2>2
  <1>7. methods \in [Classes -> [Selectors -> Methods \union {Nil}]]
    <2>1. Installed \subseteq Methods
      BY JITRuntimeAssumption
    <2>2. \A c \in Classes, s \in Selectors : methods[c][s] \in Methods \union {Nil}
      BY <1>6, <2>1
    <2>3. methods = [c \in Classes |-> [s \in Selectors |-> methods[c][s]]]
      BY <1>1
    <2> QED
      BY <2>2, <2>3
  <1>8. Dictionary
    <2>1. \A c \in Classes, s \in Selectors : methods[c][s] # Nil => FunctionName(methods[c][s]) = <<c, s>>
      BY <1>6
    <2>2. Current(FunctionName(doesNotUnderstand)) = doesNotUnderstand
      <3> DEFINE d == doesNotUnderstand
      <3>1. d \in Installed /\ d \in Methods
        BY JITRuntimeAssumption
      <3>2. klass[d] \in Classes /\ name[d] \in Selectors
        BY <3>1, JITRuntimeAssumption
      <3>3. FunctionName(d) = <<klass[d], name[d]>>
        BY DEF FunctionName
      <3>4. methods[klass[d]][name[d]] \in Installed /\ FunctionName(methods[klass[d]][name[d]]) = FunctionName(d)
        BY <1>6, <3>1, <3>2, <3>3
      <3>5. methods[klass[d]][name[d]] = d
        BY <3>1, <3>4, JITRuntimeAssumption
      <3> QED
        BY <3>3, <3>5 DEF Current
    <2> QED
      BY <2>1, <2>2 DEF Dictionary
  <1>9. TypeOK
    <2>1. moved \in BOOLEAN
      BY <1>2, Zenon
    <2>2. moves + changes <= MaxDisturbances
      BY <1>1, JITRuntimeAssumption
    <2>3. functions \in [Names -> Function] /\ hotMethods \in [Names -> HotMethod]
      BY <1>1, <1>3, <1>4
    <2>4. active \in {1, 2} /\ loc \in Placements(active)
      BY <1>1
    <2> QED
      BY <1>1, <1>5, <1>7, <2>1, <2>2, <2>3, <2>4 DEF TypeOK
  <1>10. FunctionsCurrent
    BY <1>1, <1>3 DEF FunctionsCurrent
  <1>11. FunctionsCached /\ BlocksCached
    BY <1>1, <1>5 DEF FunctionsCached, BlocksCached
  <1>12. HotCurrent /\ SitesNamed
    BY <1>1, <1>4 DEF HotCurrent, SitesNamed
  <1>13. DirectsCurrent
    BY <1>1, <1>3 DEF DirectsCurrent
  <1>14. RunsOwnCode
    BY <1>1 DEF RunsOwnCode
  <1> QED
    BY <1>2, <1>8, <1>9, <1>10, <1>11, <1>12, <1>13, <1>14 DEF IInv

\* Sites lie at indices of their method, and send a selector.
LEMMA SiteSends ==
  ASSUME IInv, NEW a \in invoked, Code(a) # Nil, NEW i \in DOMAIN SitesOf(a)
  PROVE  SitesOf(a)[i] \in Selectors
  <1>1. a.function \in Names /\ a.part \in Parts /\ a.part \in {"method", "block"}
    BY DEF IInv, TypeOK, Parts
  <1>2. functions[a.function] \in Function
    BY <1>1 DEF IInv, TypeOK
  <1>3. Code(a) \in Methods
    <2>1. functions[a.function].method \in Methods \union {Nil} /\ functions[a.function].block \in Methods \union {Nil}
      BY <1>2 DEF Function
    <2> QED
      BY <1>1, <2>1 DEF Code
  <1> QED
    BY <1>1, <1>3, JITRuntimeAssumption DEF SitesOf

\* Every step preserves the inductive invariant: one step per action.
LEMMA StepIInv == IInv /\ [Next]_vars => IInv'
  <1> SUFFICES ASSUME IInv, [Next]_vars PROVE IInv'
    OBVIOUS
  <1>1. ASSUME NEW s \in Entries, NEW c \in Classes, LLVMsendMessage(s, c) PROVE IInv'
    <2>1. s \in Selectors /\ {} \in SUBSET invoked /\ Dispatch({}, s, c, <<>>)
      BY <1>1, JITRuntimeAssumption DEF LLVMsendMessage
    <2> QED
      BY <2>1, DispatchStep
  <1>2. ASSUME NEW a \in invoked, NEW i \in Indices, NEW c \in Classes, SendMessage(a, i, c)
        PROVE  IInv'
    <2>1. SitesOf(a)[i] \in Selectors
      BY <1>2, SiteSends DEF SendMessage
    <2>2. PICK site : site = <<a, i>>
      OBVIOUS
    <2>3. site[1] \in invoked /\ site[2] \in Indices /\ Dispatch(invoked, SitesOf(a)[i], c, site)
      BY <1>2, <2>2 DEF SendMessage
    <2> QED
      BY <2>1, <2>3, DispatchStep
  <1>3. ASSUME NEW a \in invoked, NEW i \in Indices, NEW c \in Classes, DirectCall(a, i, c)
        PROVE  IInv'
    BY <1>3, DirectCallStep
  <1>4. ASSUME NEW m \in Methods, InvokeBlock(m) PROVE IInv'
    <2>1. /\ HasBlock(m) /\ once' = once /\ once \in Methods \union {Nil}
          /\ RunBlock(invoked, m, lookupInCache(blockCache, m))
      BY <1>4 DEF InvokeBlock, IInv, TypeOK
    <2> QED
      BY <2>1, RunBlockStep
  <1>5. ASSUME NEW m \in Methods, InvokeBlockOnce(m) PROVE IInv'
    <2>1. HasBlock(m) /\ once' = m /\ {} \in SUBSET invoked /\ RunBlock({}, m, Nil)
      BY <1>5 DEF InvokeBlockOnce
    <2> QED
      BY <2>1, RunBlockStep
  <1>6. CASE ReturnFromOnce
    BY <1>6, ReturnFromOnceStep
  <1>7. CASE patchHotMethods
    BY <1>7, PatchStep
  <1>8. ASSUME NEW c \in Classes, NEW s \in Selectors, NEW m \in Methods \union {Nil}, SetMethod(c, s, m)
        PROVE  IInv'
    BY <1>8, SetMethodStep
  <1>9. CASE collectGarbage
    BY <1>9, CollectStep
  <1>10. CASE UNCHANGED vars
    <2>1. /\ UNCHANGED <<methods, loc, active, functions, functionCache, blockCache,
                         hotMethods, once, moved, moves, changed, changes>>
          /\ UNCHANGED <<invoked, fault>>
      BY <1>10 DEF vars
    <2>2. TypeOK'
      BY <2>1, CodeUnchanged DEF IInv, TypeOK
    <2>3. RunsOwnCode'
      BY <2>1, CodeUnchanged DEF IInv, RunsOwnCode
    <2> QED
      BY <2>1, <2>2, <2>3, CodeUnchanged DEF IInv
  <1> QED
    BY <1>1, <1>2, <1>3, <1>4, <1>5, <1>6, <1>7, <1>8, <1>9, <1>10 DEF Next

LEMMA InvariantIInv == Spec => []IInv
  BY InitIInv, StepIInv, PTL DEF Spec
-----------------------------------------------------------------------------
(***************************************************************************)
(* Whatever is sent, compiled, patched, replaced and collected, the caches *)
(* answer with the function of the method asked for as long as it stayed   *)
(* where it was, and every activation runs the code of the method in its   *)
(* context unless that was replaced or moves.                              *)
(***************************************************************************)
THEOREM DispatchCorrect == Spec => []DispatchExact
  <1>1. IInv => CacheHitIsOwn
    BY FunctionHit, BlockHit DEF CacheHitIsOwn
  <1>2. IInv => DispatchExact
    BY <1>1 DEF IInv, DispatchExact
  <1> QED
    BY <1>2, InvariantIInv, PTL
-----------------------------------------------------------------------------
(***************************************************************************)
(* Patched call sites.  What a site counts was sent from it, with its      *)
(* selector, and a class is counted together with the function its message *)
(* ended in: patching then builds in what the search finds.                *)
(***************************************************************************)
\* A site of a method that its statistics do not share with one of its block.
OwnSite(m, i) == i \in DOMAIN Sends[m]["method"] /\ ~Collides(m, i)

SitesBlank ==
  \A f \in Names, i \in Indices :
    hotMethods[f].sites[i].classes = {} => hotMethods[f].sites[i].selector = Nil

SitesExact ==
  \A f \in Names, i \in Indices, m \in Methods :
    /\ Settled(f) /\ m = Current(f) /\ OwnSite(m, i)
    /\ hotMethods[f].sites[i].classes # {}
    => hotMethods[f].sites[i].selector = Sends[m]["method"][i]

SitesFilled ==
  \A f \in Names, i \in Indices : \A a \in hotMethods[f].sites[i].classes :
    functions[f].method # Nil /\ \E c \in Classes : Noted(a, c, moves > 0)

CountedCompiled ==
  \A f \in Names, i \in Indices, m \in Methods, c \in Classes :
    /\ changes = 0 /\ moves = 0 /\ m = Current(f) /\ OwnSite(m, i)
    /\ loc[c] \in hotMethods[f].sites[i].classes
    => functions[FunctionName(Target(Sends[m]["method"][i], c))].method # Nil

\* A direct call d of a site that sends s names what the search for s finds.
Finds(d, s) ==
  \E c \in Classes : /\ Noted(d.klass, c, moves > 0)
                     /\ Find(s, c) # Nil /\ d.function = FunctionName(Find(s, c))

DirectsExact ==
  \A f \in Names, i \in Indices, m \in Methods :
    LET s == Sends[m]["method"][i] IN
    /\ Settled(f) /\ m = functions[f].method /\ OwnSite(m, i)
    /\ \A k \in Classes : <<k, s>> \notin changed
    => \A d \in functions[f].direct[i] : Finds(d, s)

PatchInv ==
  /\ SitesBlank
  /\ SitesExact
  /\ SitesFilled
  /\ CountedCompiled
  /\ DirectsExact
  /\ changes = 0 => changed = {}
  /\ PatchFaultsExplained

LEMMA OwnSiteSends ==
  ASSUME NEW m \in Methods, NEW i, OwnSite(m, i)
  PROVE  Sends[m]["method"][i] \in Selectors
  BY JITRuntimeAssumption DEF OwnSite, Parts

\* Without changes and collections every name is settled.
LEMMA AllSettled ==
  ASSUME PatchInv, changes = 0, moves = 0
  PROVE  \A f : Settled(f)
  BY DEF PatchInv, Settled, StaysPut

\* A function whose calls are counted is that of the code that sends, if its
\* name is settled.
LEMMA CountedFunction ==
  ASSUME IInv, IInv', UNCHANGED <<loc, moved>>, NEW a \in invoked, Code(a) # Nil,
         NEW g \in Names, g = lookupInCache(functionCache', a.method)
  PROVE  /\ functions'[g].method # Nil
         /\ Settled(g) => Code(a) = Current(g) /\ a.part \in {"method", "block"}
  <1>1. /\ Located(loc) /\ functionCache' \in [Lines -> CacheEntry] /\ g # Nil
        /\ a \in [method : Methods, function : Names, part : Parts]
        /\ a.method \in Methods /\ a.part \in {"method", "block"}
        /\ moved \in BOOLEAN
    BY TypeLocated, JITRuntimeAssumption DEF IInv, TypeOK, Parts
  <1>2. PICK l \in Lines : /\ functionCache'[l].method = loc[a.method] /\ loc[a.method] # 0
                           /\ functionCache'[l].function = g
    BY <1>1, HitEntry
  <1>3. PICK k \in Methods : /\ g = FunctionName(k) /\ functions'[g].method # Nil
                             /\ Noted(loc[a.method], k, moved)
    <2>1. PICK k \in Methods : /\ functionCache'[l].function = FunctionName(k)
                               /\ functions'[FunctionName(k)].method # Nil
                               /\ Noted(functionCache[l].method, k, moved)'
      BY <1>2 DEF IInv, FunctionsCached
    <2> QED
      BY <1>2, <2>1 DEF Noted
  <1>4. ASSUME Settled(g) PROVE Code(a) = Current(g)
    <2>1. k \notin Dynamic \/ ~moved
      BY <1>3, <1>4, PutIsUnmoved DEF Settled
    <2>2. a.method = k
      BY <1>1, <1>3, <2>1, NamesOfMethods DEF Noted, Located
    <2>3. a.function = g /\ Code(a) = k /\ k # Nil
      BY <1>3, <1>4, <2>2, NamesOfMethods DEF IInv, RunsOwnCode, Settled
    <2>4. functions[g].method \in {Nil, Current(g)} /\ functions[g].block \in {Nil, Current(g)}
      BY <1>4 DEF IInv, FunctionsCurrent
    <2>5. CASE a.part = "method"
      BY <2>3, <2>4, <2>5 DEF Code
    <2>6. CASE a.part = "block"
      BY <2>3, <2>4, <2>6 DEF Code
    <2> QED
      BY <1>1, <2>5, <2>6
  <1> QED
    BY <1>1, <1>3, <1>4

\* What a step leaves of the invariant that counts no calls, and changes and
\* moves nothing.
LEMMA SitesKept ==
  ASSUME PatchInv,
         UNCHANGED <<methods, loc, hotMethods, moves, changed, changes>>,
         \A f \in Names : functions[f].method # Nil => functions'[f].method # Nil,
         TypeOK, Dictionary
  PROVE  /\ SitesBlank' /\ SitesExact' /\ SitesFilled' /\ CountedCompiled'
         /\ (changes = 0 => changed = {})'
  <1>1. \A f : (Settled(f)' <=> Settled(f)) /\ Current(f)' = Current(f)
    BY DEF Settled, StaysPut, Current
  <1>2. SitesBlank' /\ (changes = 0 => changed = {})'
    BY DEF PatchInv, SitesBlank
  <1>3. SitesExact'
    BY <1>1 DEF PatchInv, SitesExact
  <1>4. SitesFilled'
    BY DEF PatchInv, SitesFilled, Noted
  <1>5. CountedCompiled'
    <2> SUFFICES ASSUME NEW f \in Names, NEW i \in Indices, NEW m \in Methods, NEW c \in Classes,
                        changes = 0, moves = 0, m = Current(f), OwnSite(m, i),
                        loc[c] \in hotMethods[f].sites[i].classes
                 PROVE  functions'[FunctionName(Target(Sends[m]["method"][i], c)')].method # Nil
      BY <1>1 DEF CountedCompiled
    <2> DEFINE s == Sends[m]["method"][i]
    <2>1. s \in Selectors
      BY OwnSiteSends
    <2>2. functions[FunctionName(Target(s, c))].method # Nil
      BY DEF PatchInv, CountedCompiled
    <2> HIDE DEF s
    <2>3. Target(s, c)' = Target(s, c) /\ Target(s, c) \in Methods
      BY <2>1, FindKept, TargetCurrent
    <2>4. functions'[FunctionName(Target(s, c))].method # Nil
      BY <2>2, <2>3, NamesOfMethods
    <2> QED
      BY <2>3, <2>4 DEF s
  <1> QED
    BY <1>2, <1>3, <1>4, <1>5

\* What a step leaves of the direct calls that compiles, or changes no code.
LEMMA DirectsKept ==
  ASSUME PatchInv, UNCHANGED <<methods, loc, moves, changed>>,
         \A f \in Names : \/ functions'[f].method = functions[f].method
                             /\ functions'[f].direct = functions[f].direct
                          \/ \A i \in Indices : functions'[f].direct[i] = {}
  PROVE  DirectsExact'
  <1> SUFFICES ASSUME NEW f \in Names, NEW i \in Indices, NEW m \in Methods,
                      Settled(f)', m = functions'[f].method, OwnSite(m, i),
                      \A k \in Classes : <<k, Sends[m]["method"][i]>> \notin changed,
                      NEW d \in functions'[f].direct[i]
               PROVE  Finds(d, Sends[m]["method"][i])'
    BY DEF DirectsExact
  <1> DEFINE s == Sends[m]["method"][i]
  <1>1. s \in Selectors
    BY OwnSiteSends
  <1>2. Settled(f)
    BY DEF Settled, StaysPut
  <1>3. Finds(d, s)
    BY <1>2 DEF PatchInv, DirectsExact
  <1> HIDE DEF s
  <1>4. \A c \in Classes : Find(s, c)' = Find(s, c)
    BY <1>1, FindKept
  <1>5. Finds(d, s)'
    BY <1>3, <1>4 DEF Finds, Noted
  <1> QED
    BY <1>5 DEF s

\* sendMessage() counts the call at the site it is sent from.
LEMMA DispatchCounts ==
  ASSUME IInv, IInv', PatchInv, fault = "none", NEW callers \in SUBSET invoked,
         NEW selector \in Selectors, NEW c \in Classes, NEW site,
         \/ site = <<>>
         \/ /\ site[1] \in invoked /\ Code(site[1]) # Nil
            /\ site[2] \in Indices /\ site[2] \in DOMAIN SitesOf(site[1])
            /\ selector = SitesOf(site[1])[site[2]],
         Dispatch(callers, selector, c, site)
  PROVE  PatchInv'
  <1>0. PICK m, f : Dispatched(callers, selector, c, site, m, f)
    BY DispatchEffect
  <1>1. /\ m = Target(selector, c) /\ m \in Methods /\ m # Nil
        /\ StaysPut(FunctionName(m)) => f = FunctionName(m)
        /\ functions'[f].method # Nil
        /\ UNCHANGED <<methods, loc, moved, moves, changed, changes, fault>>
    BY <1>0, NamesOfMethods DEF Dispatched
  <1>2. \A g \in Names : functions[g].method # Nil => functions'[g].method # Nil
    BY <1>0, <1>1 DEF Dispatched
  <1>3. DirectsExact'
    <2>1. \A g \in Names : \/ functions'[g].method = functions[g].method
                              /\ functions'[g].direct = functions[g].direct
                           \/ \A i \in Indices : functions'[g].direct[i] = {}
      BY <1>0 DEF Dispatched
    <2> QED
      BY <1>1, <2>1, DirectsKept
  <1>4. ASSUME NEW g \in Names, NEW j \in Indices, hotMethods'[g].sites[j] # hotMethods[g].sites[j]
        PROVE  /\ hotMethods'[g].sites[j].selector =
                    IF hotMethods[g].sites[j].selector = Nil THEN selector
                    ELSE hotMethods[g].sites[j].selector
               /\ hotMethods'[g].sites[j].classes = hotMethods[g].sites[j].classes \union {loc[c]}
               /\ functions'[g].method # Nil
               /\ \A k \in Methods : Settled(g) /\ k = Current(g) /\ OwnSite(k, j) =>
                    Sends[k]["method"][j] = selector
    <2>1. /\ site # <<>> /\ g = lookupInCache(functionCache', site[1].method) /\ j = site[2]
          /\ hotMethods'[g].sites[j].selector =
                    IF hotMethods[g].sites[j].selector = Nil THEN selector
                    ELSE hotMethods[g].sites[j].selector
          /\ hotMethods'[g].sites[j].classes = hotMethods[g].sites[j].classes \union {loc[c]}
      BY <1>0, <1>4 DEF Dispatched
    <2>2. PICK a \in invoked : a = site[1]
      BY <2>1
    <2>3. /\ Code(a) # Nil /\ j \in DOMAIN SitesOf(a) /\ selector = SitesOf(a)[j]
          /\ g = lookupInCache(functionCache', a.method)
      BY <2>1, <2>2
    <2>4. /\ functions'[g].method # Nil
          /\ Settled(g) => Code(a) = Current(g) /\ a.part \in {"method", "block"}
      BY <1>1, <2>3, CountedFunction
    <2>5. ASSUME NEW k \in Methods, Settled(g), k = Current(g), OwnSite(k, j)
          PROVE  Sends[k]["method"][j] = selector
      <3>1. selector = Sends[k][a.part][j] /\ j \in DOMAIN Sends[k][a.part]
        BY <2>3, <2>4, <2>5 DEF SitesOf
      <3> QED
        BY <2>4, <2>5, <3>1 DEF OwnSite, Collides
    <2> QED
      BY <2>1, <2>4, <2>5
  <1>5. \A g : (Settled(g)' <=> Settled(g)) /\ Current(g)' = Current(g)
    BY <1>1 DEF Settled, StaysPut, Current
  <1>6. SitesBlank'
    <2> SUFFICES ASSUME NEW g \in Names, NEW j \in Indices, hotMethods'[g].sites[j].classes = {}
                 PROVE  hotMethods'[g].sites[j].selector = Nil
      BY DEF SitesBlank
    <2>1. loc[c] \in hotMethods[g].sites[j].classes \union {loc[c]}
      OBVIOUS
    <2>2. hotMethods'[g].sites[j] = hotMethods[g].sites[j]
      BY <1>4, <2>1
    <2> QED
      BY <2>2 DEF PatchInv, SitesBlank
  <1>7. SitesExact'
    <2> SUFFICES ASSUME NEW g \in Names, NEW j \in Indices, NEW k \in Methods,
                        Settled(g), k = Current(g), OwnSite(k, j),
                        hotMethods'[g].sites[j].classes # {}
                 PROVE  hotMethods'[g].sites[j].selector = Sends[k]["method"][j]
      BY <1>5 DEF SitesExact
    <2>1. hotMethods[g].sites[j].classes = {} => hotMethods[g].sites[j].selector = Nil
      BY DEF PatchInv, SitesBlank
    <2>2. hotMethods[g].sites[j].classes # {} => hotMethods[g].sites[j].selector = Sends[k]["method"][j]
      BY DEF PatchInv, SitesExact
    <2> QED
      BY <1>4, <2>1, <2>2
  <1>8. SitesFilled'
    <2> SUFFICES ASSUME NEW g \in Names, NEW j \in Indices, NEW a \in hotMethods'[g].sites[j].classes
                 PROVE  functions'[g].method # Nil /\ \E k \in Classes : Noted(a, k, moves > 0)'
      BY DEF SitesFilled
    <2>1. CASE a \in hotMethods[g].sites[j].classes
      BY <1>1, <1>2, <2>1 DEF PatchInv, SitesFilled, Noted
    <2>2. CASE a \notin hotMethods[g].sites[j].classes
      <3>1. functions'[g].method # Nil /\ a = loc[c]
        BY <1>4, <2>2
      <3>2. Located(loc) /\ c \in Objects /\ (moves > 0) \in BOOLEAN
        BY TypeLocated DEF IInv, Objects
      <3>3. Noted(a, c, moves > 0)
        BY <3>1, <3>2, NotedNow
      <3>4. Noted(a, c, moves > 0)'
        BY <1>1, <3>3 DEF Noted
      <3> QED
        BY <3>1, <3>4
    <2> QED
      BY <2>1, <2>2
  <1>9. CountedCompiled'
    <2> SUFFICES ASSUME NEW g \in Names, NEW j \in Indices, NEW k \in Methods, NEW b \in Classes,
                        changes = 0, moves = 0, k = Current(g), OwnSite(k, j),
                        loc[b] \in hotMethods'[g].sites[j].classes
                 PROVE  functions'[FunctionName(Target(Sends[k]["method"][j], b)')].method # Nil
      BY <1>1, <1>5 DEF CountedCompiled
    <2> DEFINE s == Sends[k]["method"][j]
    <2>1. s \in Selectors
      BY OwnSiteSends
    <2>2. functions'[FunctionName(Target(s, b))].method # Nil
      <3>1. CASE loc[b] \in hotMethods[g].sites[j].classes
        <4>1. functions[FunctionName(Target(s, b))].method # Nil
          BY <3>1 DEF PatchInv, CountedCompiled
        <4>2. Target(s, b) \in Methods
          BY <2>1, TargetCurrent DEF IInv
        <4> QED
          BY <1>2, <4>1, <4>2, NamesOfMethods
      <3>2. CASE loc[b] \notin hotMethods[g].sites[j].classes
        <4>1. Settled(g) /\ Settled(FunctionName(m))
          BY AllSettled
        <4>2. loc[b] = loc[c] /\ s = selector
          BY <1>4, <3>2, <4>1
        <4>3. b = c
          <5>1. Located(loc) /\ b \in Objects /\ c \in Objects
            BY TypeLocated DEF IInv, Objects
          <5> QED
            BY <4>2, <5>1 DEF Located
        <4> QED
          BY <1>1, <4>1, <4>2, <4>3 DEF Settled
      <3> QED
        BY <3>1, <3>2
    <2> HIDE DEF s
    <2>3. Target(s, b)' = Target(s, b)
      BY <1>1, <2>1, FindKept
    <2> QED
      BY <2>2, <2>3 DEF s
  <1>10. (changes = 0 => changed = {})' /\ PatchFaultsExplained'
    BY <1>1 DEF PatchInv, PatchFaultsExplained
  <1> QED
    BY <1>3, <1>6, <1>7, <1>8, <1>9, <1>10 DEF PatchInv

\* invokeBlock() and the return of primitive 247 leave the methods' code alone.
LEMMA BlockKeeps ==
  ASSUME IInv, PatchInv, fault = "none", fault' = fault,
         UNCHANGED <<methods, loc, hotMethods, moves, changed, changes>>,
         \A g \in Names : /\ functions'[g].method = functions[g].method
                          /\ functions'[g].direct = functions[g].direct
  PROVE  PatchInv'
  <1>1. SitesBlank' /\ SitesExact' /\ SitesFilled' /\ CountedCompiled' /\ (changes = 0 => changed = {})'
    BY SitesKept DEF IInv
  <1>2. DirectsExact'
    BY DirectsKept
  <1>3. PatchFaultsExplained'
    BY DEF PatchFaultsExplained
  <1> QED
    BY <1>1, <1>2, <1>3 DEF PatchInv

\* A direct call may meet a stale address, after a collection.
LEMMA DirectCallExplained ==
  ASSUME IInv, PatchInv, NEW a \in invoked, NEW i \in Indices, NEW c \in Classes, DirectCall(a, i, c)
  PROVE  PatchInv'
  <1>1. /\ UNCHANGED <<methods, loc, functions, hotMethods, moves, changed, changes>>
        /\ fault = "none"
    BY DEF DirectCall
  <1>2. PICK d \in DirectCalls(a, i) :
          fault' = IF ObjectsAt(d.method, Methods) = {} THEN "stale address" ELSE fault
    BY DEF DirectCall
  <1>3. PICK k \in Methods : Noted(d.method, k, moves > 0)
    <2>1. d \in functions[a.function].direct[i] /\ a.function \in Names
      BY DEF DirectCalls, IInv, TypeOK
    <2> QED
      BY <2>1 DEF IInv, DirectsCurrent
  <1>4. fault' = "stale address" => moves > 0
    BY <1>1, <1>2, <1>3 DEF Noted, ObjectsAt
  <1>5. PatchFaultsExplained'
    BY <1>1, <1>2, <1>4 DEF PatchFaultsExplained
  <1>6. SitesBlank' /\ SitesExact' /\ SitesFilled' /\ CountedCompiled' /\ (changes = 0 => changed = {})'
    BY <1>1, SitesKept DEF IInv
  <1>7. DirectsExact'
    BY <1>1, DirectsKept
  <1> QED
    BY <1>5, <1>6, <1>7 DEF PatchInv

\* A method added or removed: it speaks for no site that sends its selector any
\* more when something was compiled under such a name.
LEMMA SetMethodExplained ==
  ASSUME IInv, PatchInv, NEW c \in Classes, NEW s \in Selectors, NEW m \in Methods \union {Nil},
         SetMethod(c, s, m)
  PROVE  PatchInv'
  <1> DEFINE F == <<c, s>>
  <1>1. /\ methods' = [methods EXCEPT ![c][s] = m]
        /\ changes' = changes + 1 /\ fault = "none"
        /\ UNCHANGED <<loc, functions, hotMethods, fault, moves>>
    BY DEF SetMethod
  <1>2. changed \subseteq changed'
    BY DEF SetMethod
  <1>3. F \notin changed' => \A f \in Names : f[2] = s => functions[f] = NoFunction
    BY DEF SetMethod
  <1>4. methods \in [Classes -> [Selectors -> Methods \union {Nil}]] /\ changes' # 0
    BY <1>1 DEF IInv, TypeOK
  <1>5. \A k \in Classes, t \in Selectors : <<k, t>> # F => methods'[k][t] = methods[k][t]
    BY <1>1, <1>4
  <1>6. \A f : Settled(f)' => Settled(f) /\ f \notin changed'
    BY <1>1, <1>2 DEF Settled, StaysPut
  <1>7. ASSUME NEW f \in Names, Settled(f)', functions[f].method # Nil
        PROVE  Current(f)' = Current(f)
    <2>1. f \in Classes \X Selectors
      BY NamesOfMethods DEF Names
    <2>2. f # F
      <3>1. f = F => functions[f] = NoFunction
        BY <1>3, <1>6, <1>7
      <3> QED
        BY <1>7, <3>1 DEF NoFunction
    <2> QED
      BY <1>5, <2>1, <2>2 DEF Current
  <1>8. SitesBlank' /\ PatchFaultsExplained' /\ CountedCompiled' /\ (changes = 0 => changed = {})'
    BY <1>1, <1>4 DEF PatchInv, SitesBlank, PatchFaultsExplained, CountedCompiled
  <1>9. SitesExact'
    <2> SUFFICES ASSUME NEW g \in Names, NEW j \in Indices, NEW k \in Methods,
                        Settled(g)', k = Current(g)', OwnSite(k, j),
                        hotMethods[g].sites[j].classes # {}
                 PROVE  hotMethods[g].sites[j].selector = Sends[k]["method"][j]
      BY <1>1 DEF SitesExact
    <2>1. functions[g].method # Nil
      BY DEF PatchInv, SitesFilled
    <2> QED
      BY <1>6, <1>7, <2>1 DEF PatchInv, SitesExact
  <1>10. SitesFilled'
    BY <1>1 DEF PatchInv, SitesFilled, Noted
  <1>11. DirectsExact'
    <2> SUFFICES ASSUME NEW f \in Names, NEW i \in Indices, NEW k \in Methods,
                        Settled(f)', k = functions[f].method, OwnSite(k, i),
                        \A b \in Classes : <<b, Sends[k]["method"][i]>> \notin changed',
                        NEW d \in functions[f].direct[i]
                 PROVE  Finds(d, Sends[k]["method"][i])'
      BY <1>1 DEF DirectsExact
    <2> DEFINE t == Sends[k]["method"][i]
    <2>1. t \in Selectors
      BY OwnSiteSends
    <2>2. Finds(d, t)
      BY <1>2, <1>6 DEF PatchInv, DirectsExact
    <2>3. \A b \in Classes : <<b, t>> \notin changed'
      OBVIOUS
    <2> HIDE DEF t
    <2>4. PICK b \in Classes : /\ Noted(d.klass, b, moves > 0)
                               /\ Find(t, b) # Nil /\ d.function = FunctionName(Find(t, b))
      BY <2>2 DEF Finds
    <2>5. t # s
      <3>1. Find(t, b) \in Methods /\ FunctionName(Find(t, b))[2] = t
        BY <2>1, <2>4, TargetCurrent DEF IInv
      <3>2. functions[FunctionName(Find(t, b))].method # Nil
        BY <2>4 DEF IInv, DirectsCurrent
      <3>3. FunctionName(Find(t, b)) \in Names
        BY <3>1, NamesOfMethods
      <3>4. NoFunction.method = Nil
        BY DEF NoFunction
      <3> QED
        BY <1>3, <2>3, <3>1, <3>2, <3>3, <3>4
    <2>6. Find(t, b)' = Find(t, b)
      <3>1. \A a \in Classes : methods'[a][t] = methods[a][t]
        BY <1>5, <2>1, <2>5
      <3> QED
        BY <2>1, <3>1, FindKept
    <2>7. Finds(d, t)'
      BY <1>1, <2>4, <2>6 DEF Finds, Noted
    <2> QED
      BY <2>7 DEF t
  <1> QED
    BY <1>8, <1>9, <1>10, <1>11 DEF PatchInv

\* After a collection the statistics and the direct calls still tell of static
\* classes.
LEMMA CollectExplained == IInv /\ PatchInv /\ collectGarbage => PatchInv'
  <1> SUFFICES ASSUME IInv, PatchInv, collectGarbage PROVE PatchInv'
    OBVIOUS
  <1>1. /\ active' = 3 - active /\ loc' \in Placements(active')
        /\ moves' = moves + 1 /\ fault = "none"
        /\ UNCHANGED <<methods, functions, hotMethods, fault, changed, changes>>
    BY DEF collectGarbage
  <1>2. active' \in {1, 2} /\ moves \in Nat
    <2>1. active \in {1, 2} /\ moves \in Nat
      BY DEF IInv, TypeOK
    <2> QED
      BY <1>1, <2>1
  <1>3. Located(loc) /\ Located(loc')
    BY <1>1, <1>2, TypeLocated, PlacementsLocate DEF IInv
  <1>4. moves' > 0 /\ moves' # 0
    BY <1>1, <1>2
  <1>5. \A f : (Settled(f)' => Settled(f)) /\ Current(f)' = Current(f)
    BY <1>1, <1>4 DEF StaysPut, Settled, Current
  <1>6. ASSUME NEW c \in Classes, NEW a, Noted(a, c, moves > 0)
        PROVE  Noted(a, c, moves > 0)'
    <2>1. c \in Objects
      BY DEF Objects
    <2>2. c \notin Dynamic => loc'[c] = loc[c]
      BY <1>3, <2>1 DEF Located
    <2>3. IF c \in Dynamic THEN a \in SpaceOne \union SpaceTwo ELSE a = loc'[c]
      BY <1>3, <1>6, <2>1, <2>2 DEF Noted, Located
    <2> QED
      BY <1>4, <2>3 DEF Noted
  <1>7. SitesBlank' /\ PatchFaultsExplained' /\ CountedCompiled' /\ (changes = 0 => changed = {})'
    BY <1>1, <1>4 DEF PatchInv, SitesBlank, PatchFaultsExplained, CountedCompiled
  <1>8. SitesExact'
    BY <1>1, <1>5 DEF PatchInv, SitesExact
  <1>9. SitesFilled'
    BY <1>1, <1>6 DEF PatchInv, SitesFilled
  <1>10. DirectsExact'
    <2> SUFFICES ASSUME NEW f \in Names, NEW i \in Indices, NEW k \in Methods,
                        Settled(f)', k = functions[f].method, OwnSite(k, i),
                        \A b \in Classes : <<b, Sends[k]["method"][i]>> \notin changed,
                        NEW d \in functions[f].direct[i]
                 PROVE  Finds(d, Sends[k]["method"][i])'
      BY <1>1 DEF DirectsExact
    <2> DEFINE t == Sends[k]["method"][i]
    <2>1. t \in Selectors
      BY OwnSiteSends
    <2>2. Finds(d, t)
      BY <1>5 DEF PatchInv, DirectsExact
    <2> HIDE DEF t
    <2>3. PICK b \in Classes : /\ Noted(d.klass, b, moves > 0)
                               /\ Find(t, b) # Nil /\ d.function = FunctionName(Find(t, b))
      BY <2>2 DEF Finds
    <2>4. Find(t, b)' = Find(t, b)
      BY <1>1, <2>1, FindKept
    <2>5. Finds(d, t)'
      BY <1>6, <2>3, <2>4 DEF Finds
    <2> QED
      BY <2>5 DEF t
  <1> QED
    BY <1>7, <1>8, <1>9, <1>10 DEF PatchInv

\* The method at the recorded address is the one the function was compiled for.
LEMMA RecompiledCurrent ==
  ASSUME IInv, NEW f \in Hot, Settled(f)
  PROVE  /\ ObjectsAt(hotMethods[f].method, Methods) # {}
         /\ Recompiled(f) \in Methods /\ Recompiled(f) = Current(f)
         /\ functions[f].method = Recompiled(f)
  <1>1. f \in Names /\ hotMethods[f].method # 0
    BY DEF Hot
  <1>2. PICK k \in Methods : hotMethods[f].method = loc[k] /\ k = Current(f)
    BY <1>1 DEF IInv, HotCurrent, Settled
  <1>3. k \in ObjectsAt(hotMethods[f].method, Methods)
    BY <1>2 DEF ObjectsAt
  <1>4. Recompiled(f) \in Methods /\ loc[Recompiled(f)] = loc[k]
    BY <1>2, <1>3 DEF Recompiled, ObjectsAt
  <1>5. Recompiled(f) = k
    BY <1>2, <1>4, TypeLocated, NamesOfMethods DEF IInv, Located
  <1>6. functions[f].method = Current(f)
    BY <1>1 DEF IInv, HotCurrent, FunctionsCurrent
  <1> QED
    BY <1>2, <1>3, <1>5, <1>6

\* The direct calls of an own site: what its selector finds for a class that is
\* where the statistics say.
LEMMA DirectsOfOwnSite ==
  ASSUME IInv, PatchInv, NEW f \in Hot, Settled(f), NEW i \in Indices, OwnSite(Recompiled(f), i),
         NEW d \in DirectsOf(f)[i], NEW s, s = Sends[Recompiled(f)]["method"][i]
  PROVE  /\ s \in Selectors
         /\ \E c \in Classes : /\ loc[c] \in hotMethods[f].sites[i].classes
                               /\ d.klass = loc[c] /\ Find(s, c) # Nil
                               /\ d.function = FunctionName(Find(s, c))
  <1>1. PICK m \in Methods : m = Recompiled(f) /\ m = Current(f)
    BY RecompiledCurrent
  <1>2. s \in Selectors
    BY <1>1, OwnSiteSends
  <1>3. PICK c \in Handlers(hotMethods[f].sites[i]) :
          d = DirectBlock(hotMethods[f].sites[i].selector, c)
    BY DEF DirectsOf
  <1>4. f \in Names /\ c \in Classes /\ loc[c] \in hotMethods[f].sites[i].classes
    BY <1>3 DEF Hot, Handlers
  <1>5. hotMethods[f].sites[i].selector = s
    BY <1>1, <1>4 DEF PatchInv, SitesExact
  <1>6. Find(s, c) # Nil /\ d = DirectBlock(s, c)
    BY <1>3, <1>5 DEF Handlers
  <1>7. Find(s, c) \in Methods /\ FunctionName(Find(s, c))[2] = s
    BY <1>2, <1>4, <1>6, TargetCurrent DEF IInv
  <1>8. FunctionName(Find(s, c)) = <<klass[Find(s, c)], s>>
    BY <1>7 DEF FunctionName
  <1>9. d.klass = loc[c] /\ d.function = FunctionName(Find(s, c))
    BY <1>6, <1>8 DEF DirectBlock
  <1> QED
    BY <1>2, <1>4, <1>6, <1>9

\* patchHotMethods() has a reason to abort, and builds in what it should.
LEMMA PatchExplained ==
  ASSUME IInv, PatchInv, patchHotMethods
  PROVE  PatchInv'
  <1>1. UNCHANGED <<methods, loc, hotMethods, moves, changed, changes>> /\ fault = "none"
    BY PatchEffect
  <1>2. Located(loc) /\ moves \in Nat /\ changes \in Nat /\ functions \in [Names -> Function]
    BY TypeLocated DEF IInv, TypeOK
  <1>3. CASE fault' \in {"stale address", "no direct function"} /\ functions' = functions
    <2>1. SitesBlank' /\ SitesExact' /\ SitesFilled' /\ CountedCompiled' /\ (changes = 0 => changed = {})'
      BY <1>1, <1>3, SitesKept DEF IInv
    <2>2. DirectsExact'
      BY <1>1, <1>3, DirectsKept
    <2>3. ASSUME fault' = "stale address" PROVE moves > 0
      <3> SUFFICES ASSUME moves = 0 PROVE FALSE
        BY <1>2
      <3>1. PICK f \in Hot :
              \/ ObjectsAt(hotMethods[f].method, Methods) = {}
              \/ \E i \in HotSites(f, Recompiled(f)) : \E a \in hotMethods[f].sites[i].classes :
                   ObjectsAt(a, Classes) = {}
        BY <2>3, PatchEffect
      <3>2. f \in Names /\ hotMethods[f].method # 0
        BY DEF Hot
      <3>3. PICK k \in Methods : hotMethods[f].method = loc[k]
        BY <3>2 DEF IInv, HotCurrent, StaysPut
      <3>4. k \in ObjectsAt(hotMethods[f].method, Methods)
        BY <3>3 DEF ObjectsAt
      <3>5. PICK i \in HotSites(f, Recompiled(f)) : \E a \in hotMethods[f].sites[i].classes :
                   ObjectsAt(a, Classes) = {}
        BY <3>1, <3>4
      <3>6. PICK a \in hotMethods[f].sites[i].classes : ObjectsAt(a, Classes) = {}
        BY <3>5
      <3>7. Recompiled(f) \in Methods
        BY <3>4 DEF Recompiled, ObjectsAt
      <3>8. i \in Indices
        BY <3>7 DEF HotSites, Indices, Parts
      <3>9. PICK c \in Classes : Noted(a, c, moves > 0)
        BY <3>2, <3>8 DEF PatchInv, SitesFilled
      <3>10. c \in ObjectsAt(a, Classes)
        BY <3>9 DEF Noted, ObjectsAt
      <3> QED
        BY <3>6, <3>10
    <2>4. ASSUME fault' = "no direct function", changes = 0, moves = 0
          PROVE  \E f \in Hot : \E i \in HotSites(f, functions[f].method) :
                   Collides(functions[f].method, i)
      <3>1. PICK f \in Hot, i \in Indices : \E d \in DirectsOf(f)[i] : functions[d.function].method = Nil
        BY <2>4, PatchEffect
      <3>2. PICK d \in DirectsOf(f)[i] : functions[d.function].method = Nil
        BY <3>1
      <3>3. Settled(f) /\ f \in Names
        BY <2>4, AllSettled DEF Hot
      <3>4. PICK m \in Methods : m = Recompiled(f) /\ m = Current(f) /\ m = functions[f].method
        BY <3>3, RecompiledCurrent
      <3>5. i \in HotSites(f, m)
        BY <3>2, <3>4 DEF DirectsOf
      <3>6. ~Collides(m, i) => FALSE
        <4> SUFFICES ASSUME ~Collides(m, i) PROVE FALSE
          OBVIOUS
        <4>1. OwnSite(m, i)
          BY <3>5 DEF OwnSite, HotSites
        <4>2. PICK s : s = Sends[m]["method"][i]
          OBVIOUS
        <4>3. PICK c \in Classes : /\ loc[c] \in hotMethods[f].sites[i].classes
                                   /\ Find(s, c) # Nil /\ d.function = FunctionName(Find(s, c))
          BY <3>1, <3>2, <3>3, <3>4, <4>1, <4>2, DirectsOfOwnSite, ZenonT(40)
        <4>4. functions[FunctionName(Target(s, c))].method # Nil
          BY <2>4, <3>3, <3>4, <4>1, <4>2, <4>3 DEF PatchInv, CountedCompiled
        <4>5. Target(s, c) = Find(s, c)
          BY <4>3 DEF Target
        <4> QED
          BY <3>2, <4>3, <4>4, <4>5
      <3> QED
        BY <3>4, <3>5, <3>6
    <2>5. Hot' = Hot /\ \A f, m : HotSites(f, m)' = HotSites(f, m)
      BY <1>1 DEF Hot, HotSites
    <2>6. PatchFaultsExplained'
      <3>1. fault' = "stale address" => moves' > 0
        BY <1>1, <2>3
      <3>2. ASSUME fault' = "no direct function"
            PROVE  \/ changes > 0 \/ moves > 0
                   \/ \E f \in Hot : \E i \in HotSites(f, functions[f].method) :
                        Collides(functions[f].method, i)
        <4>1. CASE changes = 0 /\ moves = 0
          BY <2>4, <3>2, <4>1
        <4>2. CASE changes > 0 \/ moves > 0
          BY <4>2
        <4> QED
          BY <1>2, <4>1, <4>2
      <3> QED
        BY <1>1, <1>3, <2>5, <3>1, <3>2 DEF PatchFaultsExplained, HotSites
    <2> QED
      BY <2>1, <2>2, <2>6 DEF PatchInv
  <1>4. CASE Patched
    <2>1. \A f : Settled(f)' <=> Settled(f)
      BY <1>1 DEF Settled, StaysPut
    <2>2. ASSUME NEW f \in Names, f \notin Hot PROVE functions'[f] = functions[f]
      BY <1>4, <2>2 DEF Patched
    <2>3. ASSUME NEW f \in Names, functions[f].method # Nil PROVE functions'[f].method # Nil
      <3>1. CASE f \in Hot
        BY <1>4, <3>1, PatchedCode, NamesOfMethods
      <3>2. CASE f \notin Hot
        BY <2>2, <2>3, <3>2
      <3> QED
        BY <3>1, <3>2
    <2>4. SitesBlank' /\ SitesExact' /\ SitesFilled' /\ CountedCompiled' /\ (changes = 0 => changed = {})'
      BY <1>1, <2>3, SitesKept DEF IInv
    <2>5. DirectsExact'
      <3> SUFFICES ASSUME NEW f \in Names, NEW i \in Indices, NEW m \in Methods,
                          Settled(f), m = functions'[f].method, OwnSite(m, i),
                          \A k \in Classes : <<k, Sends[m]["method"][i]>> \notin changed,
                          NEW d \in functions'[f].direct[i]
                   PROVE  Finds(d, Sends[m]["method"][i])'
        BY <1>1, <2>1 DEF DirectsExact
      <3>1. PICK s : s = Sends[m]["method"][i]
        OBVIOUS
      <3>2. s \in Selectors
        BY <3>1, OwnSiteSends
      <3>3. Finds(d, s)
        <4>1. CASE f \in Hot
          <5>1. m = Recompiled(f) /\ d \in DirectsOf(f)[i]
            BY <1>4, <4>1, PatchedCode
          <5>2. PICK c \in Classes : /\ d.klass = loc[c] /\ Find(s, c) # Nil
                                     /\ d.function = FunctionName(Find(s, c))
            BY <3>1, <4>1, <5>1, DirectsOfOwnSite
          <5>3. c \in Objects /\ (moves > 0) \in BOOLEAN
            BY DEF Objects
          <5>4. Noted(d.klass, c, moves > 0)
            BY <1>2, <5>2, <5>3, NotedNow
          <5> QED
            BY <5>2, <5>4 DEF Finds
        <4>2. CASE f \notin Hot
          BY <2>2, <3>1, <4>2 DEF PatchInv, DirectsExact
        <4> QED
          BY <4>1, <4>2
      <3>4. \A c \in Classes : Find(s, c)' = Find(s, c)
        BY <1>1, <3>2, FindKept
      <3>5. Finds(d, s)'
        BY <1>1, <3>3, <3>4 DEF Finds, Noted
      <3> QED
        BY <3>1, <3>5
    <2>6. PatchFaultsExplained'
      BY <1>1, <1>4 DEF Patched, PatchFaultsExplained
    <2> QED
      BY <2>4, <2>5, <2>6 DEF PatchInv
  <1> QED
    BY <1>3, <1>4, PatchEffect

LEMMA InitPatchInv == Init => PatchInv
  <1> SUFFICES ASSUME Init PROVE PatchInv
    OBVIOUS
  <1>1. /\ functions = [f \in Names |-> NoFunction] /\ hotMethods = [f \in Names |-> NoHits]
        /\ fault = "none" /\ changed = {}
    BY DEF Init
  <1>2. /\ NoFunction.method = Nil
        /\ \A i \in Indices : NoFunction.direct[i] = {}
    BY DEF NoFunction
  <1>3. \A i \in Indices : NoHits.sites[i].classes = {} /\ NoHits.sites[i].selector = Nil
    BY DEF NoHits
  <1>4. SitesBlank /\ SitesExact /\ SitesFilled /\ CountedCompiled
    BY <1>1, <1>3 DEF SitesBlank, SitesExact, SitesFilled, CountedCompiled
  <1>5. DirectsExact
    BY <1>1, <1>2 DEF DirectsExact
  <1>6. PatchFaultsExplained
    BY <1>1 DEF PatchFaultsExplained
  <1> QED
    BY <1>1, <1>4, <1>5, <1>6 DEF PatchInv

LEMMA StepPatchInv == IInv /\ IInv' /\ PatchInv /\ [Next]_vars => PatchInv'
  <1> SUFFICES ASSUME IInv, IInv', PatchInv, [Next]_vars PROVE PatchInv'
    OBVIOUS
  <1>1. ASSUME NEW s \in Entries, NEW c \in Classes, LLVMsendMessage(s, c) PROVE PatchInv'
    <2>1. s \in Selectors /\ {} \in SUBSET invoked /\ Dispatch({}, s, c, <<>>) /\ fault = "none"
      BY <1>1, JITRuntimeAssumption DEF LLVMsendMessage
    <2> QED
      BY <2>1, DispatchCounts
  <1>2. ASSUME NEW a \in invoked, NEW i \in Indices, NEW c \in Classes, SendMessage(a, i, c)
        PROVE  PatchInv'
    <2>1. SitesOf(a)[i] \in Selectors
      BY <1>2, SiteSends DEF SendMessage
    <2>2. PICK site : site = <<a, i>>
      OBVIOUS
    <2>3. PICK s : s = SitesOf(a)[i]
      OBVIOUS
    <2>4. /\ site[1] = a /\ site[2] = i /\ Code(a) # Nil /\ i \in DOMAIN SitesOf(a)
          /\ fault = "none" /\ Dispatch(invoked, s, c, site)
      BY <1>2, <2>2, <2>3 DEF SendMessage
    <2> QED
      BY <2>1, <2>3, <2>4, DispatchCounts
  <1>3. ASSUME NEW a \in invoked, NEW i \in Indices, NEW c \in Classes, DirectCall(a, i, c)
        PROVE  PatchInv'
    BY <1>3, DirectCallExplained
  <1>4. ASSUME NEW m \in Methods, NEW callers, NEW found \in {Nil, lookupInCache(blockCache, m)},
               RunBlock(callers, m, found), fault = "none"
        PROVE  PatchInv'
    <2>1. PICK f : f = IF found = Nil THEN FunctionName(m) ELSE found
      OBVIOUS
    <2>2. /\ UNCHANGED <<methods, loc, hotMethods, fault, moves, changed, changes>>
          /\ \/ functions' = functions
             \/ functions' = [functions EXCEPT ![f].block = IF @ = Nil THEN m ELSE @]
      BY <1>4, <2>1 DEF RunBlock
    <2>3. \A g \in Names : /\ functions'[g].method = functions[g].method
                           /\ functions'[g].direct = functions[g].direct
      <3>1. functions \in [Names -> Function]
        BY DEF IInv, TypeOK
      <3> QED
        BY <2>2, <3>1 DEF Function
    <2> QED
      BY <1>4, <2>2, <2>3, BlockKeeps
  <1>5. ASSUME NEW m \in Methods, InvokeBlock(m) \/ InvokeBlockOnce(m) PROVE PatchInv'
    BY <1>4, <1>5 DEF InvokeBlock, InvokeBlockOnce
  <1>6. CASE ReturnFromOnce
    <2>1. /\ UNCHANGED <<methods, loc, hotMethods, fault, moves, changed, changes>>
          /\ fault = "none"
          /\ functions' = [functions EXCEPT ![FunctionName(once)].block = Nil]
      BY <1>6 DEF ReturnFromOnce
    <2>2. \A g \in Names : /\ functions'[g].method = functions[g].method
                           /\ functions'[g].direct = functions[g].direct
      <3>1. functions \in [Names -> Function]
        BY DEF IInv, TypeOK
      <3> QED
        BY <2>1, <3>1 DEF Function
    <2> QED
      BY <2>1, <2>2, BlockKeeps
  <1>7. CASE patchHotMethods
    BY <1>7, PatchExplained
  <1>8. ASSUME NEW c \in Classes, NEW s \in Selectors, NEW m \in Methods \union {Nil}, SetMethod(c, s, m)
        PROVE  PatchInv'
    BY <1>8, SetMethodExplained
  <1>9. CASE collectGarbage
    BY <1>9, CollectExplained
  <1>10. CASE UNCHANGED vars
    <2>1. UNCHANGED <<methods, loc, functions, hotMethods, fault, moves, changed, changes>>
      BY <1>10 DEF vars
    <2>2. SitesBlank' /\ SitesExact' /\ SitesFilled' /\ CountedCompiled' /\ (changes = 0 => changed = {})'
      BY <2>1, SitesKept DEF IInv
    <2>3. DirectsExact'
      BY <2>1, DirectsKept
    <2>4. PatchFaultsExplained'
      <3>1. Hot' = Hot /\ \A f, m : HotSites(f, m)' = HotSites(f, m)
        BY <2>1 DEF Hot, HotSites
      <3> QED
        BY <2>1, <3>1 DEF PatchInv, PatchFaultsExplained, HotSites
    <2> QED
      BY <2>2, <2>3, <2>4 DEF PatchInv
  <1> QED
    BY <1>1, <1>2, <1>3, <1>5, <1>6, <1>7, <1>8, <1>9, <1>10 DEF Next

(***************************************************************************)
(* Patching changes nothing but the speed: a direct call goes where the    *)
(* search for its site's own selector leads, and patchHotMethods() aborts, *)
(* or reads a stale address, only for one of the reasons named.            *)
(***************************************************************************)
THEOREM PatchingCorrect == Spec => []PatchingExact
  <1>1. ASSUME IInv, PatchInv PROVE PatchingExact
    <2> SUFFICES ASSUME NEW f \in Names, NEW c \in Classes, NEW m \in Methods,
                        m = functions[f].method, StaysPut(f), f \notin changed,
                        c \notin Dynamic \/ moves = 0,
                        NEW i \in DOMAIN Sends[m]["method"], ~Collides(m, i),
                        \A k \in Classes : <<k, Sends[m]["method"][i]>> \notin changed,
                        NEW d \in functions[f].direct[i], d.klass = loc[c]
                 PROVE  d.function = FunctionName(Target(Sends[m]["method"][i], c))
      <3>1. \A f \in Names : functions[f].method \in Methods \union {Nil}
        BY <1>1 DEF IInv, TypeOK, Function
      <3>2. PatchFaultsExplained
        BY <1>1 DEF PatchInv
      <3> QED
        BY <3>1, <3>2 DEF PatchingExact, DirectCallsExact
    <2>1. PICK s : s = Sends[m]["method"][i]
      OBVIOUS
    <2>2. i \in Indices
      BY DEF Indices, Parts
    <2>3. Finds(d, s)
      BY <1>1, <2>1, <2>2 DEF PatchInv, DirectsExact, Settled, OwnSite
    <2>4. PICK b \in Classes : /\ Noted(loc[c], b, moves > 0)
                               /\ Find(s, b) # Nil /\ d.function = FunctionName(Find(s, b))
      BY <2>3 DEF Finds
    <2>5. b = c
      <3>1. Located(loc) /\ b \in Objects /\ c \in Objects /\ (moves > 0) \in BOOLEAN
        BY <1>1, TypeLocated DEF IInv, Objects
      <3>2. c \notin Dynamic \/ ~(moves > 0)
        OBVIOUS
      <3> QED
        BY <2>4, <3>1, <3>2, NotedUnique
    <2> QED
      BY <2>1, <2>4, <2>5 DEF Target
  <1>2. Init => IInv /\ PatchInv
    BY InitIInv, InitPatchInv
  <1>3. IInv /\ PatchInv /\ [Next]_vars => IInv' /\ PatchInv'
    BY StepIInv, StepPatchInv
  <1>4. IInv /\ PatchInv => PatchingExact
    BY <1>1
  <1> QED
    BY <1>2, <1>3, <1>4, PTL DEF Spec
=============================================================================

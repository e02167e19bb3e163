----------------------------- MODULE JITRuntime -----------------------------
(***************************************************************************)
(* JITRuntime: dispatch of messages and blocks to compiled functions.      *)
(*                                                                         *)
(* A function is known to LLVM by the name of its class and selector, so   *)
(* all versions of a method share it.  The runtime finds functions by the  *)
(* raw address of a method, counts by raw addresses which classes a call   *)
(* site meets, and builds such addresses into the code when it patches hot *)
(* methods.  The collector moves objects and is not told of any of this.   *)
(*                                                                         *)
(* A method contains at most one block.  The answer of lookupMethod() is   *)
(* that of the full search; its cache is the subject of MethodCache.       *)
(***************************************************************************)
EXTENDS Integers, FiniteSets

CONSTANTS
  Classes, Selectors, Methods,
  Nil,            \* nilObject, no method, no function
  klass, name,    \* class and selector a method is compiled for
  parentClass,    \* the superclass of every class, Nil for Object
  Sends,          \* selectors of the call sites, by method, part and node index
  Installed,      \* methods in the dictionaries at the start
  Entries,        \* selectors the image sends by way of primitive 252
  doesNotUnderstand,       \* the method of Object
  StaticAddress,           \* where the objects of the static heap are
  SpaceOne, SpaceTwo,      \* addresses of the semispaces, 0 is the null pointer
  Line(_),                 \* line of the caches an address falls into
  MaxDisturbances, MaxInvoked  \* bounds: collections and changes, activations

Objects == Classes \union Methods
Dynamic == Objects \ DOMAIN StaticAddress
Addresses == {StaticAddress[o] : o \in DOMAIN StaticAddress} \union SpaceOne \union SpaceTwo
Lines == {Line(a) : a \in Addresses}
Parts == {"method", "block"}
Indices == UNION {DOMAIN Sends[m][p] : m \in Methods, p \in Parts}

FunctionName(m) == <<klass[m], name[m]>>

Names == {FunctionName(m) : m \in Methods}

\* A dictionary holds one method per selector, and every chain of superclasses
\* ends.
ASSUME JITRuntimeAssumption ==
  /\ Nil \notin Objects \union Names
  /\ klass \in [Methods -> Classes] /\ name \in [Methods -> Selectors]
  /\ parentClass \in [Classes -> Classes \union {Nil}]
  /\ \A T \in (SUBSET Classes) \ {{}} : \E c \in T : parentClass[c] \notin T
  /\ \A m \in Methods, p \in Parts : \A i \in DOMAIN Sends[m][p] : Sends[m][p][i] \in Selectors
  /\ Entries \subseteq Selectors /\ MaxDisturbances \in Nat
  /\ Installed \subseteq Methods /\ doesNotUnderstand \in Installed
  /\ \A m, k \in Installed : FunctionName(m) = FunctionName(k) => m = k
  /\ DOMAIN StaticAddress \subseteq Objects
  /\ \A o, p \in DOMAIN StaticAddress : StaticAddress[o] = StaticAddress[p] => o = p
  /\ SpaceOne \intersect SpaceTwo = {}
  /\ \A o \in DOMAIN StaticAddress : StaticAddress[o] \notin SpaceOne \union SpaceTwo
  /\ Addresses \subseteq Nat \ {0} /\ Indices \subseteq Nat \ {0}

VARIABLES
  methods,        \* the method dictionary of every class
  loc, active,    \* address of every object, the active semispace
  functions,      \* m_JITModule: code of a method, of its block, direct calls
  functionCache, blockCache,
  hotMethods,     \* THotMethod: address of the method, statistics of its sites
  invoked,        \* activations of compiled code since the interpreter entered it:
                  \* method of the context, function, part of the method
  once,           \* method whose block runs by way of jit once:, or Nil
  fault,          \* why patchHotMethods() aborted or read a stale address
  moved,          \* ghost: a collection since the caches were cleared
  moves,          \* ghost: collections since the start
  changed,        \* ghost: functions whose method was changed afterwards
  changes         \* ghost: changes of the method dictionaries

vars == <<methods, loc, active, functions, functionCache, blockCache, hotMethods,
          invoked, once, fault, moved, moves, changed, changes>>

Space(h) == IF h = 1 THEN SpaceOne ELSE SpaceTwo

\* Where a collection may put the dynamic objects.
Placements(h) ==
  {[o \in Objects |-> IF o \in Dynamic THEN l[o] ELSE StaticAddress[o]] :
     l \in {f \in [Dynamic -> Space(h)] : \A o, p \in Dynamic : f[o] = f[p] => o = p}}

NoFunction == [method |-> Nil, block |-> Nil, direct |-> [i \in Indices |-> {}]]

NoHits == [method |-> 0, sites |-> [i \in Indices |-> [selector |-> Nil, classes |-> {}]]]

EmptyCache == [i \in Lines |-> [method |-> 0, function |-> Nil]]

Init ==
  /\ methods = [c \in Classes |-> [s \in Selectors |->
                  IF \E m \in Installed : FunctionName(m) = <<c, s>>
                  THEN CHOOSE m \in Installed : FunctionName(m) = <<c, s>> ELSE Nil]]
  /\ active = 1 /\ loc \in Placements(1)
  /\ functions = [f \in Names |-> NoFunction]
  /\ functionCache = EmptyCache /\ blockCache = EmptyCache
  /\ hotMethods = [f \in Names |-> NoHits]
  /\ invoked = {} /\ once = Nil /\ fault = "none"
  /\ moved = FALSE /\ moves = 0 /\ changed = {} /\ changes = 0

-----------------------------------------------------------------------------
\* lookupMethod()
Find(selector, c) ==
  LET search[k \in Classes] ==
        IF methods[k][selector] # Nil THEN methods[k][selector]
        ELSE IF parentClass[k] = Nil THEN Nil
        ELSE search[parentClass[k]]
  IN  search[c]

\* The method a message ends in, with #doesNotUnderstand: as the last resort.
Target(selector, c) ==
  IF Find(selector, c) = Nil THEN doesNotUnderstand ELSE Find(selector, c)

\* lookupFunctionInCache(), lookupBlockFunctionInCache(): Nil is a miss.
lookupInCache(cache, m) ==
  IF cache[Line(loc[m])].method = loc[m] THEN cache[Line(loc[m])].function ELSE Nil

updateCache(cache, m, f) ==
  [cache EXCEPT ![Line(loc[m])] = [method |-> loc[m], function |-> f]]

\* compileMethod(): a block function that exists is not compiled again.
compileMethod(fs, m) ==
  [fs EXCEPT ![FunctionName(m)] =
     [method |-> m, block |-> IF @.block = Nil THEN m ELSE @.block,
      direct |-> NoFunction.direct]]

\* updateHotSites(): the site is counted for the function that the cache has
\* for the method of the calling context, also when the caller is its block.
updateHotSites(hot, cache, caller, index, selector, c) ==
  LET f == lookupInCache(cache, caller.method)
  IN  IF f = Nil THEN hot
      ELSE [hot EXCEPT ![f].sites[index] =
              [selector |-> IF @.selector = Nil THEN selector ELSE @.selector,
               classes  |-> @.classes \union {loc[c]}]]

Activation(m, f, part) == [method |-> m, function |-> f, part |-> part]

\* sendMessage(): the rest once the call site is known, an activation and an
\* index in it, or <<>> for none: only sends from a site are counted.
Dispatch(callers, selector, c, site) ==
  Cardinality(callers) < MaxInvoked /\
  LET m     == Target(selector, c)
      found == lookupInCache(functionCache, m)
      f     == IF found = Nil THEN FunctionName(m) ELSE found
  IN  /\ IF found # Nil THEN UNCHANGED <<functions, functionCache>>
         ELSE /\ functions' = IF functions[f].method = Nil
                              THEN compileMethod(functions, m) ELSE functions
              /\ functionCache' = updateCache(functionCache, m, f)
      /\ LET hot == IF found # Nil THEN hotMethods
                    ELSE [hotMethods EXCEPT ![f].method = loc[m]]
         IN  hotMethods' = IF site = <<>> THEN hot
                           ELSE updateHotSites(hot, functionCache', site[1], site[2],
                                               selector, c)
      /\ invoked' = callers \union {Activation(m, f, "method")}
      /\ UNCHANGED <<methods, loc, active, blockCache, once, fault, moved, moves,
                     changed, changes>>

\* Primitive 252: the message comes from the interpreter, without a site.
LLVMsendMessage(selector, c) ==
  /\ fault = "none" /\ once = Nil
  /\ Dispatch({}, selector, c, <<>>)

\* What runs in an activation, and the call sites in it.
Code(a) == functions[a.function][a.part]

SitesOf(a) == Sends[Code(a)][a.part]

\* Cases that patchCallSite() put in front of a site; blocks are not patched.
DirectCalls(a, index) ==
  IF a.part = "block" THEN {} ELSE functions[a.function].direct[index]

\* A site sends by way of the runtime: not patched, or the fallback block.
SendMessage(a, index, c) ==
  /\ fault = "none" /\ Code(a) # Nil /\ index \in DOMAIN SitesOf(a)
  /\ \A d \in DirectCalls(a, index) : d.klass # loc[c]
  /\ Dispatch(invoked, SitesOf(a)[index], c, <<a, index>>)

ObjectsAt(address, S) == {o \in S : loc[o] = address}

\* A direct block: the method of the new context is an address in the code.
DirectCall(a, index, c) ==
  /\ fault = "none" /\ Code(a) # Nil /\ index \in DOMAIN SitesOf(a)
  /\ Cardinality(invoked) < MaxInvoked
  /\ \E d \in DirectCalls(a, index) :
       /\ d.klass = loc[c]
       /\ invoked' = invoked \union {Activation(m, d.function, "method") :
                                       m \in ObjectsAt(d.method, Methods)}
       /\ fault' = IF ObjectsAt(d.method, Methods) = {} THEN "stale address" ELSE fault
  /\ UNCHANGED <<methods, loc, active, functions, functionCache, blockCache,
                 hotMethods, once, moved, moves, changed, changes>>

-----------------------------------------------------------------------------
\* invokeBlock(): found is the answer of the cache for the block of m.
RunBlock(callers, m, found) ==
  Cardinality(callers) < MaxInvoked /\
  LET f == IF found = Nil THEN FunctionName(m) ELSE found
  IN  /\ IF found # Nil THEN UNCHANGED <<functions, blockCache>>
         ELSE /\ functions' = [functions EXCEPT ![f].block = IF @ = Nil THEN m ELSE @]
              /\ blockCache' = updateCache(blockCache, m, f)
      /\ invoked' = callers \union {Activation(m, f, "block")}
      /\ UNCHANGED <<methods, loc, active, functionCache, hotMethods, fault, moved,
                     moves, changed, changes>>

\* An activation of m, compiled or interpreted, created its block.
HasBlock(m) ==
  /\ DOMAIN Sends[m]["block"] # {}
  /\ methods[klass[m]][name[m]] = m \/ \E a \in invoked : a.method = m

InvokeBlock(m) ==
  /\ fault = "none" /\ invoked # {} /\ HasBlock(m)
  /\ RunBlock(invoked, m, lookupInCache(blockCache, m))
  /\ UNCHANGED once

\* Primitive 247, jit once: does not ask the cache, and erases the function
\* when the block returns.
InvokeBlockOnce(m) ==
  /\ fault = "none" /\ once = Nil /\ HasBlock(m)
  /\ once' = m
  /\ RunBlock({}, m, Nil)

\* Mutant: the block cache is not flushed.
ReturnFromOnceKeepsCache ==
  /\ fault = "none" /\ once # Nil
  /\ once' = Nil
  /\ functions' = [functions EXCEPT ![FunctionName(once)].block = Nil]
  /\ invoked' = {}
  /\ UNCHANGED <<methods, loc, active, functionCache, blockCache, hotMethods, fault,
                 moved, moves, changed, changes>>

ReturnFromOnce ==
  /\ fault = "none" /\ once # Nil
  /\ once' = Nil
  /\ functions' = [functions EXCEPT ![FunctionName(once)].block = Nil]
  /\ blockCache' = EmptyCache /\ invoked' = {}
  /\ UNCHANGED <<methods, loc, active, functionCache, hotMethods, fault, moved,
                 moves, changed, changes>>

-----------------------------------------------------------------------------
\* Mutant: the method of the parent class is taken.
DirectBlockInherited(selector, c) ==
  LET m == Target(selector, IF parentClass[c] = Nil THEN c ELSE parentClass[c])
  IN  [klass |-> loc[c], method |-> loc[m], function |-> <<klass[m], selector>>]

\* createDirectBlocks() for a class of the statistics.
DirectBlock(selector, c) ==
  LET m == Find(selector, c)
  IN  [klass |-> loc[c], method |-> loc[m], function |-> <<klass[m], selector>>]

Hot == {f \in Names : /\ hotMethods[f].method # 0
                      /\ \E i \in Indices : hotMethods[f].sites[i].classes # {}}

HotSites(f, m) ==
  {i \in DOMAIN Sends[m]["method"] : hotMethods[f].sites[i].classes # {}}

\* Classes that the statistics of a site name and that have such a method.
Handlers(site) ==
  {c \in Classes : loc[c] \in site.classes /\ Find(site.selector, c) # Nil}

(***************************************************************************)
(* patchHotMethods(): every hot method is compiled again from the object   *)
(* at its recorded address, direct calls are put in front of its sites,    *)
(* and the caches are cleared.  findCallInstruction() skips a site that    *)
(* the method does not have.  Only the interpreter's performPrimitive()    *)
(* calls it (250): compiled code hands the opcode to callPrimitive(), which*)
(* does not know it, and never enters the interpreter.  So no function is  *)
(* on the stack whose body is replaced.                                    *)
(***************************************************************************)
patchHotMethods ==
  LET method(f)  == CHOOSE m \in ObjectsAt(hotMethods[f].method, Methods) : TRUE
      site(f, i) == hotMethods[f].sites[i]
      direct(f)  == [i \in Indices |->
                       IF i \notin HotSites(f, method(f)) THEN {}
                       ELSE {DirectBlock(site(f, i).selector, c) : c \in Handlers(site(f, i))}]
      dangling   == \E f \in Hot :
                      \/ ObjectsAt(hotMethods[f].method, Methods) = {}
                      \/ \E i \in HotSites(f, method(f)) : \E a \in site(f, i).classes :
                           ObjectsAt(a, Classes) = {}
      missing    == \E f \in Hot, i \in Indices : \E d \in direct(f)[i] :
                      functions[d.function].method = Nil
  IN  /\ fault = "none" /\ once = Nil
      /\ IF dangling \/ missing
         THEN /\ fault' = IF dangling THEN "stale address" ELSE "no direct function"
              /\ UNCHANGED <<functions, functionCache, blockCache, moved>>
         ELSE /\ functions' = [f \in Names |->
                   IF f \in Hot
                   THEN [compileMethod(functions, method(f))[FunctionName(method(f))]
                           EXCEPT !.direct = direct(f)]
                   ELSE functions[f]]
              /\ functionCache' = EmptyCache /\ blockCache' = EmptyCache
              /\ moved' = FALSE /\ UNCHANGED fault
      /\ invoked' = {}
      /\ UNCHANGED <<methods, loc, active, hotMethods, once, moves, changed, changes>>

-----------------------------------------------------------------------------
\* Class>>addMethod: and removeMethod:, whose primitive 34 flushes the method
\* cache of the interpreter and nothing of the runtime.
SetMethod(c, s, m) ==
  /\ fault = "none" /\ moves + changes < MaxDisturbances /\ changes' = changes + 1
  /\ m # methods[c][s] /\ methods[c][s] # doesNotUnderstand
  /\ m \in {Nil} \union {k \in Methods : FunctionName(k) = <<c, s>>}
  /\ methods' = [methods EXCEPT ![c][s] = m]
  /\ changed' = IF \E f \in Names : f[2] = s /\ functions[f] # NoFunction
                THEN changed \union {<<c, s>>} ELSE changed
  /\ UNCHANGED <<loc, active, functions, functionCache, blockCache, hotMethods,
                 invoked, once, fault, moved, moves>>

\* BakerMemoryManager::collectGarbage(), as the runtime sees it.
collectGarbage ==
  /\ fault = "none" /\ Dynamic # {} /\ moves + changes < MaxDisturbances
  /\ active' = 3 - active
  /\ loc' \in Placements(active')
  /\ moved' = TRUE /\ moves' = moves + 1
  /\ UNCHANGED <<methods, functions, functionCache, blockCache, hotMethods, invoked,
                 once, fault, changed, changes>>

Next ==
  \/ \E s \in Entries, c \in Classes : LLVMsendMessage(s, c)
  \/ \E a \in invoked, i \in Indices, c \in Classes :
       SendMessage(a, i, c) \/ DirectCall(a, i, c)
  \/ \E m \in Methods : InvokeBlock(m) \/ InvokeBlockOnce(m)
  \/ ReturnFromOnce
  \/ patchHotMethods
  \/ \E c \in Classes, s \in Selectors, m \in Methods \union {Nil} : SetMethod(c, s, m)
  \/ collectGarbage

Spec == Init /\ [][Next]_vars

-----------------------------------------------------------------------------
\* Code of a method and of its block, and the cases in front of its sites.
Function ==
  [method : Methods \union {Nil}, block : Methods \union {Nil},
   direct : [Indices -> SUBSET [klass : Addresses, method : Addresses, function : Names]]]

HotMethod ==
  [method : Addresses \union {0},
   sites : [Indices -> [selector : Selectors \union {Nil}, classes : SUBSET Addresses]]]

CacheEntry == [method : Addresses \union {0}, function : Names \union {Nil}]

TypeOK ==
  /\ methods \in [Classes -> [Selectors -> Methods \union {Nil}]]
  /\ active \in {1, 2} /\ loc \in Placements(active)
  /\ functions \in [Names -> Function] /\ hotMethods \in [Names -> HotMethod]
  /\ functionCache \in [Lines -> CacheEntry] /\ blockCache \in [Lines -> CacheEntry]
  /\ invoked \subseteq [method : Methods, function : Names, part : Parts]
  /\ once \in Methods \union {Nil}
  /\ moved \in BOOLEAN /\ fault \in {"none", "stale address", "no direct function"}
  /\ changed \subseteq Classes \X Selectors
  /\ moves \in Nat /\ changes \in Nat /\ moves + changes <= MaxDisturbances

(***************************************************************************)
(* The caches of functions, keyed by address, are exact for methods that   *)
(* do not move, and for all others until objects move: they answer with    *)
(* the function named after the method, or not at all.                     *)
(***************************************************************************)
CacheHitIsOwn ==
  \A m \in Methods :
    m \notin Dynamic \/ ~moved =>
      /\ lookupInCache(functionCache, m) \in {Nil, FunctionName(m)}
      /\ lookupInCache(blockCache, m) \in {Nil, FunctionName(m)}

(***************************************************************************)
(* An activation runs the code of the method in its context, patched or    *)
(* not, unless the method was changed after its function was compiled, or  *)
(* the collector has moved objects and a version of the method is dynamic. *)
(***************************************************************************)
StaysPut(f) == moves = 0 \/ \A m \in Methods : FunctionName(m) = f => m \notin Dynamic

RunsOwnCode ==
  \A a \in invoked :
    StaysPut(FunctionName(a.method)) /\ FunctionName(a.method) \notin changed =>
      a.function = FunctionName(a.method) /\ Code(a) = a.method

(***************************************************************************)
(* Dispatch reaches the right code: by the caches that sends and blocks    *)
(* look in, and in every activation that came about, whatever path it took *)
(* there.                                                                  *)
(***************************************************************************)
DispatchExact == TypeOK /\ CacheHitIsOwn /\ RunsOwnCode

\* A block has a send with the index of another send in its method: the
\* statistics of the two are mixed.
Collides(m, i) ==
  i \in DOMAIN Sends[m]["block"] /\ Sends[m]["block"][i] # Sends[m]["method"][i]

(***************************************************************************)
(* A patched call site sends a receiver where the runtime would: to the    *)
(* function of the method that its own selector finds.  Excepted are sites *)
(* mixed with one of a block, methods and selectors that were changed, and *)
(* dynamic classes and methods once the collector has moved objects.       *)
(***************************************************************************)
DirectCallsExact ==
  \A f \in Names, c \in Classes :
    LET m == functions[f].method IN
    m # Nil /\ StaysPut(f) /\ f \notin changed /\ (c \notin Dynamic \/ moves = 0) =>
      \A i \in DOMAIN Sends[m]["method"] :
        LET s == Sends[m]["method"][i] IN
        ~Collides(m, i) /\ (\A k \in Classes : <<k, s>> \notin changed) =>
          \A d \in functions[f].direct[i] :
            d.klass = loc[c] => d.function = FunctionName(Target(s, c))

(***************************************************************************)
(* patchHotMethods() meets a stale address only after a collection, and    *)
(* lacks a function to call (abort()) only when a method was changed or a  *)
(* send of a block was counted for a site of its method.                   *)
(***************************************************************************)
PatchFaultsExplained ==
  /\ fault = "stale address" => moves > 0
  /\ fault = "no direct function" =>
       \/ changes > 0 \/ moves > 0
       \/ \E f \in Hot : \E i \in HotSites(f, functions[f].method) :
            Collides(functions[f].method, i)

(***************************************************************************)
(* Patching the hot call sites of a program while it runs changes nothing  *)
(* but its speed, and does not end it, outside of the exceptions named.    *)
(***************************************************************************)
PatchingExact == DirectCallsExact /\ PatchFaultsExplained
=============================================================================

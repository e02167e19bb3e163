---------------------------- MODULE MethodCache ----------------------------
(***************************************************************************)
(* The method lookup cache of SmalltalkVM.  An entry is keyed by the raw   *)
(* addresses of a selector and a class and holds the raw address of a      *)
(* method, so it is spoiled by two things: a method dictionary that        *)
(* changes, and a collection that moves objects to new addresses.  A       *)
(* dictionary is two arrays, and the image changes them one after another. *)
(*                                                                         *)
(* Objects are classes, selectors and methods; loc gives their addresses.  *)
(* Static objects never move, the others change semispace with every       *)
(* collection and may land on an address another object had before.        *)
(***************************************************************************)
EXTENDS Integers, Sequences, SequencesExt

CONSTANTS
  Classes, Selectors, Methods,
  MethodName,     \* the name of a method: the selector it is installed under
  MethodClass,    \* the class it was parsed for
  Before(_, _),   \* the order of symbols
  parentClass,    \* the superclass of every class, Nil for Object
  ImageValues,    \* the methods of every class in the image
  Nil,            \* nilObject, or no method
  StaticAddress,  \* where the objects of the static heap are
  SpaceOne, SpaceTwo,  \* addresses of the semispaces, 0 is the null pointer
  Lines,          \* indices of m_lookupCache
  Hash(_, _),     \* (selector xor class) mod LOOKUP_CACHE_SIZE
  Strays          \* words that may lie behind an array, 0 is the null pointer

Objects == Classes \union Selectors \union Methods
StaticObjects == DOMAIN StaticAddress
StaticSpace == {StaticAddress[o] : o \in StaticObjects}
Addresses == StaticSpace \union SpaceOne \union SpaceTwo

\* The selectors that belong to an array of methods.
NamesOf(v) == [i \in DOMAIN v |-> MethodName[v[i]]]

ASSUME MethodCacheAssumption ==
  /\ Nil \notin Objects
  /\ StaticObjects \subseteq Objects
  /\ \A o, p \in StaticObjects : StaticAddress[o] = StaticAddress[p] => o = p
  /\ SpaceOne \intersect SpaceTwo = {}
  /\ StaticSpace \intersect (SpaceOne \union SpaceTwo) = {}
  /\ parentClass \in [Classes -> Classes \union {Nil}]
  \* Every chain of superclasses ends, or lookupMethod() would not.
  /\ \A T \in (SUBSET Classes) \ {{}} : \E c \in T : parentClass[c] \notin T
  /\ Addresses \subseteq Nat \ {0}
  /\ \A a, b \in Addresses : Hash(a, b) \in Lines
  /\ MethodName \in [Methods -> Selectors]
  /\ MethodClass \in [Methods -> Classes]
  /\ \A c \in Classes : ImageValues[c] \in Seq(Methods \intersect StaticObjects)
  /\ ImageValues \in [Classes -> Seq(Methods)]
  /\ Strays \subseteq Nat

VARIABLES
  keys,       \* the keys of the method dictionary of every class, in order
  values,     \* and its values
  change,     \* per class, what is still to be done to the values, or NoChange
  loc,        \* address of every object
  active,     \* the active semispace
  cache,      \* m_lookupCache
  dirty,      \* ghost: a dictionary changed since the last flush
  stale,      \* ghost: objects moved and the cache was not flushed
  torn        \* ghost: a search met a half changed dictionary, and no flush since

dictionaries == <<keys, values, change>>
vars == <<dictionaries, loc, active, cache, dirty, stale, torn>>

Entry == [methodName : Addresses \union {0},
          receiverClass : Addresses \union {0},
          method : Addresses \union Strays \union {0}]

NoChange == [position |-> 0, method |-> Nil]
Changes == [position : Nat, method : Methods \union {Nil}]

Space(h) == IF h = 1 THEN SpaceOne ELSE SpaceTwo

\* The placements of the dynamic objects in a semispace: no two share an address.
Placements(h) ==
  {l \in [Objects \ StaticObjects -> Space(h)] :
     \A o, p \in Objects \ StaticObjects : l[o] = l[p] => o = p}

LocWith(l) == [o \in Objects |-> IF o \in StaticObjects THEN StaticAddress[o] ELSE l[o]]

EmptyEntry == [methodName |-> 0, receiverClass |-> 0, method |-> 0]

Init ==
  /\ values = ImageValues
  /\ keys = [c \in Classes |-> NamesOf(values[c])]
  /\ change = [c \in Classes |-> NoChange]
  /\ \E l \in Placements(1) : loc = LocWith(l)
  /\ active = 1
  /\ cache = [i \in Lines |-> EmptyEntry]
  /\ dirty = FALSE
  /\ stale = FALSE
  /\ torn = FALSE

Has(c, selector) == \E i \in DOMAIN keys[c] : keys[c][i] = selector

(***************************************************************************)
(* TDictionary::find(): the value at the index of the key, whether the     *)
(* array of values is that long or not.                                    *)
(***************************************************************************)
DictionaryFind(beyond, c, selector) ==
  LET index == CHOOSE i \in DOMAIN keys[c] : keys[c][i] = selector
  IN  IF ~Has(c, selector) THEN 0
      ELSE IF index \in DOMAIN values[c] THEN loc[values[c][index]]
      ELSE beyond[c]

(***************************************************************************)
(* The full search of lookupMethod(): the dictionary of the class, then of *)
(* its superclasses up to Object.  beyond is what lies behind the values   *)
(* of every dictionary.                                                    *)
(***************************************************************************)
Find(beyond, selector, klass) ==
  LET search[c \in Classes] ==
        IF DictionaryFind(beyond, c, selector) # 0 THEN DictionaryFind(beyond, c, selector)
        ELSE IF parentClass[c] = Nil THEN 0
        ELSE search[parentClass[c]]
  IN  search[klass]

Beyond == [Classes -> Strays]

LineOf(selector, klass) == Hash(loc[selector], loc[klass])

\* Mutant: the class is left out of the comparison.
IsHitBySelector(selector, klass) ==
  cache[Hash(loc[selector], loc[klass])].methodName = loc[selector]

\* lookupMethodInCache(): the entry answers for this selector and class.
IsHit(selector, klass) ==
  /\ cache[LineOf(selector, klass)].methodName = loc[selector]
  /\ cache[LineOf(selector, klass)].receiverClass = loc[klass]

Cached(selector, klass) == cache[LineOf(selector, klass)].method

\* A hit returns Cached(selector, klass) and only counts itself.
LookupHit(selector, klass) ==
  /\ IsHit(selector, klass)
  /\ UNCHANGED vars

\* updateMethodCache() with the class the search started from.
updateMethodCache(selector, klass, m) ==
  [cache EXCEPT ![LineOf(selector, klass)] =
     [methodName |-> loc[selector], receiverClass |-> loc[klass], method |-> m]]

LookupMiss(selector, klass) ==
  /\ ~IsHit(selector, klass)
  /\ \E beyond \in Beyond :
       LET m == Find(beyond, selector, klass)
       IN  cache' = IF m = 0 THEN cache ELSE updateMethodCache(selector, klass, m)
  /\ torn' = (torn \/ \E c \in Classes : change[c] # NoChange /\ Has(c, selector))
  /\ UNCHANGED <<dictionaries, loc, active, dirty, stale>>

\* flushMethodCache(): only the selector of every entry is cleared.
Flushed == [i \in Lines |-> [cache[i] EXCEPT !.methodName = 0]]

\* Mutant: the loop stops short of the last entry.
FlushPartly ==
  /\ \E kept \in Lines : cache' = [i \in Lines |-> IF i = kept THEN cache[i] ELSE Flushed[i]]
  /\ dirty' = FALSE
  /\ stale' = FALSE
  /\ torn' = FALSE

flushMethodCache ==
  /\ cache' = Flushed
  /\ dirty' = FALSE
  /\ stale' = FALSE
  /\ torn' = FALSE

(***************************************************************************)
(* Class>>addMethod: and removeMethod: first change the dictionary and     *)
(* then call primitive 34.  Other processes may run, and send messages,    *)
(* between the two, and between the two assignments of a dictionary that   *)
(* gets a new key or loses one.  One process at a time changes a given     *)
(* dictionary.                                                             *)
(***************************************************************************)
Changing ==
  /\ dirty' = TRUE
  /\ UNCHANGED <<loc, active, cache, stale, torn>>

\* at:put: of a key that is there: values at: position put: value.
SetValue(c, m) ==
  /\ change[c] = NoChange
  /\ \E p \in DOMAIN keys[c] :
       /\ keys[c][p] = MethodName[m]
       /\ values' = [values EXCEPT ![c] = [@ EXCEPT ![p] = m]]
  /\ UNCHANGED <<keys, change>>
  /\ Changing

\* location: finds where a new key belongs.
Location(k, selector, p) ==
  /\ p \in 1 .. Len(k) + 1
  /\ \A i \in 1 .. p - 1 : Before(k[i], selector)
  /\ \A i \in p .. Len(k) : Before(selector, k[i])

\* at:put: of a new key: keys <- keys insert: key at: position.
InsertKey(c, m) ==
  /\ change[c] = NoChange /\ ~Has(c, MethodName[m])
  /\ \E p \in 1 .. Len(keys[c]) + 1 :
       /\ Location(keys[c], MethodName[m], p)
       /\ keys' = [keys EXCEPT ![c] = InsertAt(@, p, MethodName[m])]
       /\ change' = [change EXCEPT ![c] = [position |-> p, method |-> m]]
  /\ UNCHANGED values
  /\ Changing

\* removeKey: keys <- keys removeIndex: position.
RemoveKey(c, selector) ==
  /\ change[c] = NoChange
  /\ \E p \in DOMAIN keys[c] :
       /\ keys[c][p] = selector
       /\ keys' = [keys EXCEPT ![c] = RemoveAt(@, p)]
       /\ change' = [change EXCEPT ![c] = [position |-> p, method |-> Nil]]
  /\ UNCHANGED values
  /\ Changing

\* Mutant: the value goes behind the others, wherever its key went.
NewValuesAppended(c) ==
  IF change[c] = NoChange THEN values[c]
  ELSE IF change[c].method = Nil THEN RemoveAt(values[c], change[c].position)
  ELSE Append(values[c], change[c].method)

\* The values, once the change of the dictionary is complete.
NewValues(c) ==
  IF change[c] = NoChange THEN values[c]
  ELSE IF change[c].method = Nil THEN RemoveAt(values[c], change[c].position)
  ELSE InsertAt(values[c], change[c].position, change[c].method)

\* values <- values insert: value at: position, or removeIndex: position.
StoreValues(c) ==
  /\ change[c] # NoChange
  /\ values' = [values EXCEPT ![c] = NewValues(c)]
  /\ change' = [change EXCEPT ![c] = NoChange]
  /\ UNCHANGED keys
  /\ Changing

FlushCache ==
  /\ flushMethodCache
  /\ UNCHANGED <<dictionaries, loc, active>>

(***************************************************************************)
(* A collection moves the dynamic objects to the other semispace.          *)
(***************************************************************************)
collectGarbage ==
  /\ active' = 3 - active
  /\ \E l \in Placements(active') : loc' = LocWith(l)
  /\ UNCHANGED dictionaries

\* Mutant: newOrdinaryObject() does not look at m_lastGCOccured.
AllocateNoFlush ==
  /\ collectGarbage
  /\ UNCHANGED <<cache, dirty, stale, torn>>

\* newOrdinaryObject(), newBinaryObject(): a collection on the way to memory.
AllocateCollects ==
  /\ collectGarbage
  /\ flushMethodCache

\* The same when allocate() fails all the same: the early return skips the flush.
AllocateFails ==
  /\ collectGarbage
  /\ stale' = TRUE
  /\ UNCHANGED <<cache, dirty, torn>>

\* Primitive 254 collects and does not flush either.
ForceCollection ==
  /\ collectGarbage
  /\ stale' = TRUE
  /\ UNCHANGED <<cache, dirty, torn>>

Next ==
  \/ \E s \in Selectors, c \in Classes : LookupHit(s, c) \/ LookupMiss(s, c)
  \/ \E m \in Methods : SetValue(MethodClass[m], m) \/ InsertKey(MethodClass[m], m)
  \/ \E c \in Classes, s \in Selectors : RemoveKey(c, s)
  \/ \E c \in Classes : StoreValues(c)
  \/ FlushCache
  \/ AllocateCollects
  \/ ForceCollection
  \/ AllocateFails

Spec == Init /\ [][Next]_vars

-----------------------------------------------------------------------------
TypeOK ==
  /\ keys \in [Classes -> Seq(Selectors)]
  /\ values \in [Classes -> Seq(Methods)]
  /\ change \in [Classes -> Changes]
  /\ \E l \in Placements(active) : loc = LocWith(l)
  /\ active \in {1, 2}
  /\ cache \in [Lines -> Entry]
  /\ dirty \in BOOLEAN
  /\ stale \in BOOLEAN
  /\ torn \in BOOLEAN

(***************************************************************************)
(* A hit in the cache answers what the full search of the hierarchy would, *)
(* at the address the method has now, unless a dictionary changed or an    *)
(* unreported collection ran since the last flush.  In particular what a   *)
(* search found in a half changed dictionary does not outlive the flush    *)
(* behind the change.                                                      *)
(***************************************************************************)
CacheCoherent ==
  ~dirty /\ ~stale =>
    \A s \in Selectors, c \in Classes :
      IsHit(s, c) => \E beyond \in Beyond : Cached(s, c) = Find(beyond, s, c)

(***************************************************************************)
(* A hit never answers with another selector's method, or with a word that *)
(* is no method at all, although dictionaries change under the search and  *)
(* the values do not always belong to the keys: the method may only be an  *)
(* old version, until the flush.  The exception is a search that found its *)
(* selector in a dictionary whose keys were stored and whose values were   *)
(* not; find() takes what is at the index, or behind the array, and        *)
(* lookupMethod() caches it.                                               *)
(***************************************************************************)
HitsAreMethods ==
  \A s \in Selectors, c \in Classes :
    IsHit(s, c) => \E m \in Methods : MethodName[m] = s /\ Cached(s, c) = loc[m]

HitIsMethod == TypeOK /\ (~stale /\ ~torn => HitsAreMethods)

(***************************************************************************)
(* What the comment of TDictionary says of keys and values would make it   *)
(* without that exception: the value belongs to the key at its position,   *)
(* and find() answers it or null.                                          *)
(***************************************************************************)
ValueOfItsKey == ~stale => HitsAreMethods
=============================================================================

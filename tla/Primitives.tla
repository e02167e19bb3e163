----------------------------- MODULE Primitives -----------------------------
(***************************************************************************)
(* The primitives that compute or access objects, twice: as the            *)
(* interpreter performs them (performPrimitive(), callPrimitive() and its  *)
(* helpers) and as the method compiler writes them (compilePrimitive(),    *)
(* compileSmallIntPrimitive()).                                            *)
(*                                                                         *)
(* A call goes to one of the two engines and ends in one of its outcomes.  *)
(* An outcome is the reply (a value; "failed", on which the method goes on *)
(* behind the primitive; "broken" for what C++ throws or reads through     *)
(* when an operand has the wrong type) and the state it leaves.            *)
(*                                                                         *)
(* Fields and bytes are two views of the memory of an object, and nothing  *)
(* checks which of them suits the object that a primitive is given.  Seen  *)
(* through the wrong one, an element is what the other view makes of it:   *)
(* some byte, or a word that need be no value.                             *)
(***************************************************************************)
EXTENDS MachineWords, Sequences

CONSTANTS
  Width,          \* bits of a machine word; one of them tags an integer
  ByteBits,       \* bits of a byte
  WordBytes,      \* bytes of a word
  Strings,        \* binary objects
  Arrays,         \* objects with pointers in their fields
  StaticObjects,  \* those of them in the static heap
  InitialHeap,    \* contents of the objects
  Descriptors,    \* file descriptors the system hands out
  Indices,        \* integers used as indices and sizes
  MaxChanges,     \* bound on the calls that change an object
  nilObject, trueObject, falseObject

VARIABLES
  heap,      \* contents of every object
  outside,   \* objects behind whose end the call under way read or wrote
  files,     \* open file descriptors
  changes,   \* calls that changed an object
  call,      \* the primitive under way
  reply,
  mixed      \* ghost: a word was taken from a string or a byte put into an array

vars == <<heap, outside, files, changes, call, reply, mixed>>

Small(n) == [type |-> "int", is |-> n]
Ref(o) == [type |-> "ref", is |-> o]

Nil == Ref(nilObject)
Bool(b) == IF b THEN Ref(trueObject) ELSE Ref(falseObject)

isSmallInteger(v) == v.type = "int"

\* TInteger(n): shifted left for the tag, and back when it is read.
TInteger(n) == Small(Signed(n, Width - 1))

SmallInts == -Power2[Width - 2] .. Power2[Width - 2] - 1

Bytes == 0 .. Power2[ByteBits] - 1

Objects == Strings \union Arrays

\* What a field of an object may hold.
Values == {Small(n) : n \in SmallInts} \union {Ref(o) : o \in Objects}

\* Bytes read as a word, and a word read as bytes.
Wild == [type |-> "wild", is |-> nilObject]
SomeByte == 0

\* An index or a size is a SmallInteger.
ASSUME PrimitivesAssumption ==
  /\ Width \in Nat /\ Width >= 3
  /\ ByteBits \in Nat \ {0} /\ WordBytes \in Nat \ {0}
  /\ Width = WordBytes * ByteBits
  /\ Strings \intersect Arrays = {}
  /\ {nilObject, trueObject, falseObject} \subseteq Arrays
  /\ DOMAIN InitialHeap = Objects
  /\ \A t \in Strings : InitialHeap[t] \in Seq(Bytes)
  /\ \A a \in Arrays : InitialHeap[a] \in Seq(Values)
  /\ \A o \in Objects : Len(InitialHeap[o]) \in SmallInts
  /\ Indices \subseteq SmallInts

NoCall == [op |-> "none", args |-> <<>>, engine |-> "none"]
NoReply == [type |-> "none", is |-> nilObject]

\* Outcomes.
Replied(v) == [reply |-> v, heap |-> heap, outside |-> {}, files |-> files]
Failed == Replied([type |-> "failed", is |-> nilObject])
Broken == Replied([type |-> "broken", is |-> nilObject])

-----------------------------------------------------------------------------
SmallIntOps == {"add", "div", "mod", "less", "equal", "mul", "sub", "bitOr", "bitAnd",
                "bitShift"}

\* A shift by the width of the word or more is undefined.
AnyInteger == {Replied(Small(n)) : n \in SmallInts}

ShiftRight(l, by) ==
  IF by >= Width THEN AnyInteger ELSE {Replied(TInteger(l \div Power2[by]))}

ShiftLeft(l, by) ==
  LET result == Signed(l * Power2[by], Width)
  IN  IF by >= Width THEN AnyInteger \cup {Failed}
      ELSE IF l > result THEN {Failed}
      ELSE {Replied(TInteger(result))}

\* Mutant: the shift to the right brings in zeros.
callSmallIntPrimitiveLogical(op, l, r) ==
  IF op = "bitShift" /\ r < 0 /\ -r < Width
  THEN {Replied(TInteger(Unsigned(l, Width) \div Power2[-r]))}
  ELSE {Failed}

callSmallIntPrimitive(op, l, r) ==
  CASE op = "add" -> {Replied(TInteger(Signed(l + r, Width)))}
    [] op = "sub" -> {Replied(TInteger(Signed(l - r, Width)))}
    [] op = "mul" -> {Replied(TInteger(Signed(l * r, Width)))}
    [] op = "div" -> {IF r = 0 THEN Failed ELSE Replied(TInteger(Quotient(l, r)))}
    [] op = "mod" -> {IF r = 0 THEN Failed ELSE Replied(TInteger(Remainder(l, r)))}
    [] op = "less" -> {Replied(Bool(l < r))}
    [] op = "equal" -> {Replied(Bool(l = r))}
    [] op = "bitOr" -> {Replied(TInteger(BitOr(l, r, Width)))}
    [] op = "bitAnd" -> {Replied(TInteger(BitAnd(l, r, Width)))}
    [] op = "bitShift" -> IF r < 0 THEN ShiftRight(l, -r) ELSE ShiftLeft(l, r)

-----------------------------------------------------------------------------
Byte(v) == Unsigned(v, ByteBits)

\* Seen as unsigned, a negative index is beyond every size.
InBounds(index, o) == Unsigned(index, Width) < Len(heap[o])

\* The size of an object counts bytes in a string and fields in an array.
ByteSize(o) == IF o \in Strings THEN Len(heap[o]) ELSE WordBytes * Len(heap[o])

\* The bytes from one offset up to another, of which some lie behind o.
Outside(o, from, to) == IF from < to /\ to > ByteSize(o) THEN {o} ELSE {}

\* The offset of an element of o.
Offset(o, j) == IF o \in Strings THEN j - 1 ELSE WordBytes * (j - 1)

\* getField() and putField(), with words for the fields from k on.
GetField(o, k) ==
  [Replied(IF o \in Strings THEN Wild ELSE heap[o][k + 1]) EXCEPT
     !.outside = Outside(o, WordBytes * k, WordBytes * (k + 1))]

PutFields(o, k, words) ==
  LET from == WordBytes * k
      to   == WordBytes * (k + Len(words))
  IN  [Replied(Ref(o)) EXCEPT
         !.heap[o] = [j \in DOMAIN @ |->
                        IF Offset(o, j) \notin from .. to - 1 THEN @[j]
                        ELSE IF o \in Strings THEN SomeByte ELSE words[j - k]],
         !.outside = Outside(o, from, to)]

\* getByte() and putByte(), with the same byte at all offsets.
GetByte(o, k) == IF o \in Strings THEN heap[o][k + 1] ELSE SomeByte

PutBytes(o, from, to, byte) ==
  [Replied(Ref(o)) EXCEPT
     !.heap[o] = [j \in DOMAIN @ |->
                    IF from < to /\ Offset(o, j) < to /\ from < Offset(o, j + 1)
                    THEN IF o \in Strings THEN byte ELSE Wild
                    ELSE @[j]],
     !.outside = Outside(o, from, to)]

\* arrayAt and arrayAtPut, with the value to store, if any, as stored.
ArrayAccess(array, index, stored) ==
  IF ~isSmallInteger(index) THEN Failed
  ELSE IF isSmallInteger(array) THEN Broken
  ELSE IF ~InBounds(index.is - 1, array.is) THEN Failed
  ELSE IF stored = <<>> THEN GetField(array.is, index.is - 1)
  ELSE PutFields(array.is, index.is - 1, stored)

\* stringAt and stringAtPut in callPrimitive().
StringAccess(string, index, stored) ==
  IF ~isSmallInteger(index) \/ isSmallInteger(string) THEN Failed
  ELSE IF ~InBounds(index.is - 1, string.is) THEN Failed
  ELSE IF stored = <<>> THEN Replied(TInteger(GetByte(string.is, index.is - 1)))
  ELSE IF ~isSmallInteger(stored[1]) THEN Broken
  ELSE PutBytes(string.is, index.is - 1, index.is, Byte(stored[1].is))

\* Mutant: the last index is not checked.
TargetFitsAlways(dst, stop) == dst \in Objects

\* The last index, counted from 0, may be the size of the destination.
TargetFits(dst, stop) == Len(heap[dst]) >= stop

\* memmove() of count elements.
Moved(dst, start, src, from, count) ==
  LET size == Len(heap[dst])
  IN  [Replied(Ref(dst)) EXCEPT
         !.heap[dst] = [k \in 1 .. size |->
                          IF k \in start + 1 .. start + count
                          THEN heap[src][k - start + from] ELSE @[k]],
         !.outside = IF start + count > size THEN {dst} ELSE {}]

doBulkReplace(dst, start, stop, src, from) ==
  IF \E v \in {start, stop, from} : ~isSmallInteger(v) THEN Failed
  ELSE LET s == from.is - 1
           d == start.is - 1
           e == stop.is - 1
           n == e - d + 1
       IN  IF s < 0 \/ d < 0 \/ e < 0 \/ n < 1 THEN Failed
           ELSE IF isSmallInteger(dst) THEN Broken
           ELSE IF ~TargetFits(dst.is, e) THEN Failed
           ELSE IF isSmallInteger(src) THEN Broken
           ELSE IF Len(heap[src.is]) < s + n THEN Failed
           ELSE IF {src.is, dst.is} \subseteq Strings THEN Moved(dst.is, d, src.is, s, n)
           ELSE IF (src.is \in StaticObjects) # (dst.is \in StaticObjects) THEN Failed
           ELSE IF {src.is, dst.is} \subseteq Arrays THEN Moved(dst.is, d, src.is, s, n)
           ELSE Failed

-----------------------------------------------------------------------------
TooLong(size, buffer) == Unsigned(size, Width) > Len(heap[buffer])

\* What read() puts into a buffer.
FileByte == 1

Filled(buffer, n) ==
  [PutBytes(buffer, 0, n, FileByte) EXCEPT !.reply = TInteger(n)]

\* What fstat() says of a file: its size, its inode and its mode.
FileStat == <<Small(1), Small(1), Small(1)>>

(***************************************************************************)
(* callIOPrimitive().  The system may refuse any request, transfers as     *)
(* much as it likes up to the size, and knows which descriptors are open.  *)
(* Nothing asks whether there is room for the three fields of fileStat.    *)
(***************************************************************************)
callIOPrimitive(op, args) ==
  LET fd == args[1].is
  IN  CASE op = "ioFileOpen" ->
             IF isSmallInteger(args[1]) \/ ~isSmallInteger(args[2]) THEN {Broken}
             ELSE {Failed} \cup {[Replied(TInteger(d)) EXCEPT !.files = @ \cup {d}] :
                                   d \in Descriptors \ files}
        [] op # "ioFileOpen" /\ ~isSmallInteger(args[1]) -> {Broken}
        [] op = "ioFileClose" /\ isSmallInteger(args[1]) ->
             IF fd \notin files THEN {Failed}
             ELSE {[Replied(Nil) EXCEPT !.files = @ \ {fd}]}
        [] op = "ioFileSetStatIntoArray" /\ isSmallInteger(args[1]) ->
             IF fd \notin files THEN {Failed}
             ELSE {Failed, IF isSmallInteger(args[2]) THEN Broken
                           ELSE [PutFields(args[2].is, 0, FileStat) EXCEPT !.reply = Nil]}
        [] /\ op \in {"ioFileReadIntoByteArray", "ioFileWriteFromByteArray"}
           /\ isSmallInteger(args[1]) ->
             IF isSmallInteger(args[2]) \/ ~isSmallInteger(args[3]) THEN {Broken}
             ELSE IF TooLong(args[3].is, args[2].is) \/ fd \notin files THEN {Failed}
             ELSE {Failed} \cup
                  {IF op = "ioFileReadIntoByteArray" THEN Filled(args[2].is, n)
                   ELSE Replied(TInteger(n)) : n \in 0 .. args[3].is}
        [] op = "ioFileSeek" /\ isSmallInteger(args[1]) ->
             IF ~isSmallInteger(args[2]) THEN {Broken}
             ELSE IF args[2].is < 0 \/ fd \notin files THEN {Failed}
             ELSE {Failed, Replied(TInteger(args[2].is))}

IOOps == {"ioFileOpen", "ioFileClose", "ioFileSetStatIntoArray", "ioFileReadIntoByteArray",
          "ioFileWriteFromByteArray", "ioFileSeek"}

callPrimitive(op, args) ==
  CASE op = "objectsAreEqual" -> {Replied(Bool(args[1] = args[2]))}
    [] op = "getSize" ->
         {Replied(TInteger(IF isSmallInteger(args[1]) THEN 0 ELSE Len(heap[args[1].is])))}
    [] op = "stringAt"    -> {StringAccess(args[1], args[2], <<>>)}
    [] op = "stringAtPut" -> {StringAccess(args[2], args[3], <<args[1]>>)}
    [] op \in SmallIntOps ->
         IF ~isSmallInteger(args[1]) \/ ~isSmallInteger(args[2]) THEN {Failed}
         ELSE callSmallIntPrimitive(op, args[1].is, args[2].is)
    [] op \in IOOps -> callIOPrimitive(op, args)

\* SmalltalkVM::performPrimitive()
performPrimitive(op, args) ==
  CASE op = "arrayAt"     -> {ArrayAccess(args[1], args[2], <<>>)}
    [] op = "arrayAtPut"  -> {ArrayAccess(args[2], args[3], <<args[1]>>)}
    [] op = "integerNew"  -> {IF isSmallInteger(args[1]) THEN Replied(args[1]) ELSE Failed}
    [] op = "bulkReplace" -> {doBulkReplace(args[5], args[1], args[2], args[3], args[4])}
    [] OTHER -> callPrimitive(op, args)

-----------------------------------------------------------------------------
\* Mutant: no test for zero.
compileSmallIntPrimitiveUntested(op, l, r) ==
  IF op \in {"div", "mod"} /\ r = 0 THEN {Broken} ELSE callSmallIntPrimitive(op, l, r)

\* compileSmallIntPrimitive(): the instructions of LLVM wrap around.
compileSmallIntPrimitive(op, l, r) ==
  LET Sum(n)     == {Replied(TInteger(Signed(n, Width)))}
      Checked(n) == {IF r = 0 THEN Failed ELSE Replied(TInteger(n))}
      shifted    == Signed(l * Power2[IF r < 0 THEN 0 ELSE r], Width)
  IN  CASE op = "add" -> Sum(l + r)
        [] op = "sub" -> Sum(l - r)
        [] op = "mul" -> Sum(l * r)
        [] op = "div" -> Checked(IF r = 0 THEN 0 ELSE Quotient(l, r))
        [] op = "mod" -> Checked(IF r = 0 THEN 0 ELSE Remainder(l, r))
        [] op = "less" -> {Replied(Bool(l < r))}
        [] op = "equal" -> {Replied(Bool(l = r))}
        [] op = "bitOr" -> Sum(BitOr(l, r, Width))
        [] op = "bitAnd" -> Sum(BitAnd(l, r, Width))
        [] op = "bitShift" /\ r < 0 ->
             IF -r >= Width THEN AnyInteger ELSE Sum(l \div Power2[-r])
        [] op = "bitShift" /\ r >= 0 ->
             IF r >= Width THEN AnyInteger \cup {Failed}
             ELSE IF l > shifted THEN {Failed} ELSE Sum(shifted)

\* A pointer stored as a byte leaves some byte behind.
StoredByte(v) == IF isSmallInteger(v) THEN Byte(v.is) ELSE 0

\* Checks an index as two signed comparisons, behind which the size of the
\* object is read; asks nothing of the object, nor of a value to store.
compileAccess(object, index, stored, kind) ==
  IF isSmallInteger(object) THEN Broken
  ELSE IF ~isSmallInteger(index) THEN Failed
  ELSE IF ~(index.is - 1 >= 0 /\ index.is - 1 < Len(heap[object.is])) THEN Failed
  ELSE IF kind = "array"
       THEN IF stored = <<>> THEN GetField(object.is, index.is - 1)
            ELSE PutFields(object.is, index.is - 1, stored)
       ELSE IF stored = <<>> THEN Replied(TInteger(GetByte(object.is, index.is - 1)))
            ELSE PutBytes(object.is, index.is - 1, index.is, StoredByte(stored[1]))

(***************************************************************************)
(* compilePrimitive().  The primitives it has no case for are left to      *)
(* callPrimitive(), and every argument it hands over is the first one.     *)
(***************************************************************************)
compilePrimitive(op, args) ==
  CASE op = "objectsAreEqual" -> {Replied(Bool(args[1] = args[2]))}
    [] op = "getSize" ->
         {Replied(TInteger(IF isSmallInteger(args[1]) THEN 0 ELSE Len(heap[args[1].is])))}
    [] op = "integerNew" -> {Replied(args[1])}
    [] op = "arrayAt" -> {compileAccess(args[1], args[2], <<>>, "array")}
    [] op = "arrayAtPut" -> {compileAccess(args[2], args[3], <<args[1]>>, "array")}
    [] op = "stringAt" -> {compileAccess(args[1], args[2], <<>>, "string")}
    [] op = "stringAtPut" -> {compileAccess(args[2], args[3], <<args[1]>>, "string")}
    [] op = "bulkReplace" -> {doBulkReplace(args[5], args[1], args[2], args[3], args[4])}
    [] op \in SmallIntOps ->
         IF ~isSmallInteger(args[1]) \/ ~isSmallInteger(args[2]) THEN {Failed}
         ELSE compileSmallIntPrimitive(op, args[1].is, args[2].is)
    [] OTHER -> callPrimitive(op, [k \in DOMAIN args |-> args[1]])

-----------------------------------------------------------------------------
(***************************************************************************)
(* Image code calls primitives from methods of the classes they are meant  *)
(* for, but a method can name any, and the operands come from the caller:  *)
(* an index, size, mode or descriptor need be no integer, and where an     *)
(* object belongs there may be any object, or none.                        *)
(***************************************************************************)
Some == {Small(n) : n \in Indices} \cup {Nil}

Receivers == {Ref(o) : o \in Objects} \cup {Small(1)}

Handles == {Small(d) : d \in Descriptors} \cup {Nil}

Calls ==
  [op : SmallIntOps, args : {<<Small(l), Small(r)>> : l, r \in SmallInts}
                              \cup {<<Nil, Small(1)>>, <<Small(1), Nil>>}]
    \cup [op : {"objectsAreEqual"}, args : {<<Nil, Nil>>, <<Nil, Small(0)>>}]
    \cup [op : {"integerNew"}, args : {<<v>> : v \in Some}]
    \cup [op : {"getSize"}, args : {<<o>> : o \in Receivers}]
    \cup [op : {"arrayAt", "stringAt"}, args : {<<o, i>> : o \in Receivers, i \in Some}]
    \cup [op : {"arrayAtPut", "stringAtPut"},
          args : {<<v, o, i>> : v \in Some, o \in Receivers, i \in Some}]
    \cup [op : {"bulkReplace"},
          args : {<<i, j, o, k, p>> : i, j, k \in Some, o, p \in Receivers}]
    \cup [op : {"ioFileOpen"}, args : {<<o, m>> : o \in Receivers, m \in {Small(0), Nil}}]
    \cup [op : {"ioFileClose"}, args : {<<d>> : d \in Handles}]
    \cup [op : {"ioFileSeek"}, args : {<<d, n>> : d \in Handles, n \in Some}]
    \cup [op : {"ioFileSetStatIntoArray"}, args : {<<d, o>> : d \in Handles, o \in Receivers}]
    \cup [op : {"ioFileReadIntoByteArray", "ioFileWriteFromByteArray"},
          args : {<<d, o, n>> : d \in Handles, o \in Receivers, n \in Some}]

\* The object that an access is to.
Accessed(c) == c.args[IF c.op \in {"arrayAt", "stringAt"} THEN 1 ELSE 2]

WordAccesses == {"arrayAt", "arrayAtPut", "ioFileSetStatIntoArray"}

ByteStores == {"stringAtPut", "ioFileReadIntoByteArray"}

\* A call with an object of the other kind.
Mixes(c) ==
  \/ c.op \in WordAccesses /\ Accessed(c) \in {Ref(t) : t \in Strings}
  \/ c.op \in ByteStores /\ Accessed(c) \in {Ref(a) : a \in Arrays}

Init ==
  /\ heap = InitialHeap /\ outside = {} /\ files = {} /\ changes = 0
  /\ call = NoCall /\ reply = NoReply /\ mixed = FALSE

Engines == {"vm", "jit"}

ReadOnly == {"objectsAreEqual", "integerNew", "getSize", "arrayAt", "stringAt"}

ObjectCalls == {c \in Calls : c.op \notin SmallIntOps}

Readings == {c \in Calls : c.op \in ReadOnly}

\* Arithmetic is called before anything is changed: it does not see the heap.
Available ==
  IF changes = 0 THEN Calls ELSE IF changes < MaxChanges THEN ObjectCalls ELSE Readings

Invoke ==
  /\ call = NoCall
  /\ \E c \in Available, e \in Engines :
       /\ call' = [op |-> c.op, args |-> c.args, engine |-> e]
       /\ mixed' = (mixed \/ Mixes(c))
  /\ UNCHANGED <<heap, outside, files, changes, reply>>

Outcomes(c) ==
  IF c.engine = "vm" THEN performPrimitive(c.op, c.args) ELSE compilePrimitive(c.op, c.args)

Perform ==
  /\ call # NoCall /\ reply = NoReply
  /\ \E o \in Outcomes(call) :
       /\ reply' = o.reply
       /\ heap' = o.heap /\ outside' = o.outside /\ files' = o.files
  /\ changes' = IF heap' = heap THEN changes ELSE changes + 1
  /\ UNCHANGED <<call, mixed>>

Return ==
  /\ reply # NoReply
  /\ call' = NoCall /\ reply' = NoReply /\ outside' = {}
  /\ UNCHANGED <<heap, files, changes, mixed>>

Next == Invoke \/ Perform \/ Return

Spec == Init /\ [][Next]_vars

-----------------------------------------------------------------------------
\* Objects keep their sizes, bytes are bytes, arrays hold words.
TypeOK ==
  /\ DOMAIN heap = Objects
  /\ \A o \in Objects : Len(heap[o]) = Len(InitialHeap[o])
  /\ \A t \in Strings : heap[t] \in Seq(Bytes)
  /\ \A a \in Arrays : heap[a] \in Seq(Values \cup {Wild})
  /\ files \subseteq Descriptors
  /\ mixed \in BOOLEAN

\* What the operations on integers are meant to compute.
IsExact(op, l, r, n) ==
  CASE op = "add" -> n = l + r
    [] op = "sub" -> n = l - r
    [] op = "mul" -> n = l * r
    [] op = "div" -> \E m \in SmallInts :
                       /\ l = n * r + m
                       /\ m * m < r * r /\ (m = 0 \/ (m < 0) = (l < 0))
    [] op = "mod" -> /\ \E q \in -Power2[Width] .. Power2[Width] : l = q * r + n
                     /\ n * n < r * r /\ (n = 0 \/ (n < 0) = (l < 0))
    [] op = "bitOr"  -> \A k \in 0 .. Width : Bit(n, k) = 1 <=> Bit(l, k) + Bit(r, k) > 0
    [] op = "bitAnd" -> \A k \in 0 .. Width : Bit(n, k) = 1 <=> Bit(l, k) + Bit(r, k) = 2
    [] op = "bitShift" -> IF r >= 0 THEN n = l * Power2[r]
                          ELSE n * Power2[-r] <= l /\ l < (n + 1) * Power2[-r]

Representable(op, l, r) == \E n \in SmallInts : IsExact(op, l, r, n)

\* What a primitive on integers may answer.
RightReply(op, l, r, v) ==
  LET undefined == op = "bitShift" /\ (r >= Width \/ -r >= Width)
  IN  /\ isSmallInteger(v) /\ Representable(op, l, r) /\ ~undefined => IsExact(op, l, r, v.is)
      /\ v.type = "failed" /\ ~undefined =>
           \/ op \in {"div", "mod"} /\ r = 0
           \/ op = "bitShift" /\ r > 0 /\ (l < 0 \/ ~Representable(op, l, r))
      /\ v.type # "broken"

(***************************************************************************)
(* A primitive on integers computes the number it should whenever that     *)
(* number is a SmallInteger, and fails only for a divisor of 0 or, when    *)
(* shifting left, for a negative number or a result out of range.  (Sums,  *)
(* products and most shifts that leave the range wrap around unnoticed.)   *)
(***************************************************************************)
ArithmeticExact ==
  call.op \in SmallIntOps \ {"less", "equal"} /\ reply # NoReply
    /\ isSmallInteger(call.args[1]) /\ isSmallInteger(call.args[2]) =>
    RightReply(call.op, call.args[1].is, call.args[2].is, reply)

(***************************************************************************)
(* An access that succeeds had an index that counts from 1 up to the size, *)
(* or a number of bytes up to it: neither 0 nor a negative number, of      *)
(* which the code makes a large unsigned one, gets through.                *)
(***************************************************************************)
IndexInRange ==
  reply # NoReply /\ reply.type \notin {"failed", "broken"} =>
    LET a == call.args
        inside(o, i) == i.is \in 1 .. Len(heap[o.is])
    IN  /\ call.op \in {"arrayAt", "stringAt"} => inside(a[1], a[2])
        /\ call.op \in {"arrayAtPut", "stringAtPut"} => inside(a[2], a[3])
        /\ call.op \in {"ioFileReadIntoByteArray", "ioFileWriteFromByteArray"} =>
             a[3].is \in 0 .. Len(heap[a[2].is])

(***************************************************************************)
(* doBulkReplace() reads inside of its source and writes at most one       *)
(* element too far: behind the destination when the last index is its size *)
(* plus 1, which the comparison lets pass.                                 *)
(***************************************************************************)
OverrunIsOne ==
  call.op = "bulkReplace" /\ reply # NoReply /\ reply.type = "ref" =>
    LET a == call.args
        size == Len(heap[a[5].is])
    IN  /\ a[1].is \in 1 .. a[2].is /\ a[2].is <= size + 1
        /\ a[4].is \in 1 .. Len(heap[a[3].is])
        /\ a[4].is + a[2].is - a[1].is <= Len(heap[a[3].is])
        /\ a[2].is > size <=> a[5].is \in outside

(***************************************************************************)
(* A call that reads or writes behind an object is one of three: that bulk *)
(* move; the status of a file stored into an object of less than three     *)
(* words, which fstat's primitive never asks for; or arrayAt and           *)
(* arrayAtPut on a string, whose size counts bytes.  A byte access stays   *)
(* inside whatever it is given, since no object has less bytes than its    *)
(* size counts.                                                            *)
(***************************************************************************)
AccessInBounds ==
  \A o \in outside :
    \/ call.op = "bulkReplace" /\ call.args[5] = Ref(o) /\ call.args[2].is = Len(heap[o]) + 1
    \/ /\ call.op = "ioFileSetStatIntoArray" /\ call.args[2] = Ref(o)
       /\ ByteSize(o) < 3 * WordBytes
    \/ call.op \in {"arrayAt", "arrayAtPut"} /\ Accessed(call) = Ref(o) /\ o \in Strings

(***************************************************************************)
(* As long as every primitive was given an object of its kind, the fields  *)
(* of arrays hold values, which a collection can follow, and so do the     *)
(* replies.                                                                *)
(***************************************************************************)
KindsKept ==
  ~mixed =>
    /\ reply.type # "wild"
    /\ \A a \in Arrays : \A k \in 1 .. Len(heap[a]) : heap[a][k] # Wild

(***************************************************************************)
(* What primitives touch: indices are in range, three kinds of calls and   *)
(* no others leave their object, and only an object of the wrong kind      *)
(* makes words that are no values.                                         *)
(***************************************************************************)
MemorySafe == TypeOK /\ IndexInRange /\ OverrunIsOne /\ AccessInBounds /\ KindsKept

\* Operands as the primitive expects them: integers where it computes with them,
\* and objects where it looks into them.
WellTyped(c) ==
  /\ c.op \in {"integerNew", "stringAtPut"} => isSmallInteger(c.args[1])
  /\ c.op \in {"arrayAt", "stringAt", "arrayAtPut", "stringAtPut"} => ~isSmallInteger(Accessed(c))

(***************************************************************************)
(* Compiled code and the interpreter agree: whatever the state, a call has *)
(* the same outcomes in both.  (Not for operands of the wrong type, which  *)
(* only the interpreter looks for, nor for file primitives with several    *)
(* arguments: compiled code repeats the first one.)                        *)
(***************************************************************************)
EnginesAgree ==
  [][ call = NoCall /\ WellTyped(call') /\ (call'.op \in IOOps => Len(call'.args) = 1) =>
        performPrimitive(call'.op, call'.args) = compilePrimitive(call'.op, call'.args) ]_vars
=============================================================================

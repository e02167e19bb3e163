---------------------------- MODULE ImageFormat ----------------------------
(***************************************************************************)
(* Image files: ImageWriter::writeTo() writes the objects reachable from   *)
(* the globals, Image::loadImage() builds them again in the static heap.   *)
(*                                                                         *)
(* One action writes or reads one record, or one byte of a binary object.  *)
(* The recursion of writeObject() is the stack of its calls, that of       *)
(* readObject() the stack of objects that miss their class, fields or      *)
(* bytes.  The writer may be killed between two bytes; the file it leaves  *)
(* is loaded all the same.                                                 *)
(***************************************************************************)
EXTENDS Integers, Sequences, SequencesExt

CONSTANTS
  Images,      \* the images: objects, their classes and contents, and the globals
  Escape,      \* the byte 0xFF
  WordSize,    \* bytes of a pointer
  Orders       \* orders in which a build may call get() for an integer

VARIABLES
  image,       \* what is written
  phase,
  calls,       \* of writeObject(), innermost last: their values, how many are done
  written,     \* m_writtenObjects
  file,        \* the bytes
  order,       \* of the reads of an integer: a choice of the compiler
  cut,         \* the writer was killed
  pointer,     \* of m_inputStream: bytes read
  room,        \* bytes left in the static heap
  indirects,   \* m_indirects: the objects read, in the order of their records
  open,        \* objects waiting for a value, innermost last
  roots        \* globals read

vars == <<image, phase, calls, written, file, order, cut, pointer, room,
          indirects, open, roots>>

writerVars == <<image, calls, written, file, order, cut>>
readerVars == <<pointer, room, indirects, open, roots>>

\* enum TImageRecordType
Record == [ordinaryObject |-> 1, inlineInteger |-> 2, byteObject |-> 3,
           previousObject |-> 4, nilObject |-> 5]

\* The values: a SmallInteger, a pointer, a byte of a binary object.
Int32(n) == [type |-> "int", is |-> n]
Ref(o) == [type |-> "ref", is |-> o]
Byte(n) == [type |-> "byte", is |-> n]

\* An integer has four bytes.
Base == Escape + 1
Ints == LET half == (Base \div 2) * (Base * (Base * Base)) IN -half .. half - 1

IsImage(i) ==
  LET objects == DOMAIN i.class
      words   == {Int32(n) : n \in Ints} \union {Ref(o) : o \in objects}
      bytes   == {Byte(n) : n \in 0 .. Escape}
  IN  /\ i.class \in [objects -> objects]
      /\ DOMAIN i.contents = objects
      /\ \A o \in objects :
           i.contents[o] \in Seq(IF o \in i.binary THEN bytes ELSE words)
      /\ i.globals \in Seq(words) /\ i.globals # <<>>

ASSUME ImageFormatAssumption ==
  /\ Escape \in Nat /\ Escape % 2 = 1
  /\ WordSize \in Nat \ {0}
  /\ \A i \in Images : IsImage(i)
  /\ \A o \in Orders : o \in [1 .. 4 -> 1 .. 4]

\* What is written for an object behind its size: the class before the fields
\* of an ordinary object, behind the bytes of a binary one.
Values(o) ==
  LET class == <<Ref(image.class[o])>>
  IN  IF o \in image.binary THEN image.contents[o] \o class
      ELSE class \o image.contents[o]

Call(values) == [values |-> values, done |-> 0]

Init ==
  /\ image \in Images /\ order \in Orders
  /\ phase = "write" /\ cut = FALSE
  /\ calls = <<Call(image.globals)>>
  /\ written = <<>> /\ file = <<>>
  /\ pointer = 0 /\ room = 0 /\ indirects = <<>> /\ open = <<>> /\ roots = <<>>

-----------------------------------------------------------------------------
\* Mutant: the byte 0xFF is written as it is.
writeWordShort(word) ==
  [k \in 1 .. (word - 1) \div Escape |-> Escape]
    \o <<IF word = 0 THEN 0 ELSE ((word - 1) % Escape) + 1>>

writeWord(word) == [k \in 1 .. word \div Escape |-> Escape] \o <<word % Escape>>

Index(known, o) == CHOOSE k \in DOMAIN known : known[k] = o

\* The first object written is nil.
getObjectType(v, known) ==
  CASE v.type = "int"  -> "inlineInteger"
    [] v.type = "byte" -> "byte"
    [] v.type = "ref"  ->
         IF v.is \in ToSet(known)
         THEN IF Index(known, v.is) = 1 THEN "nilObject" ELSE "previousObject"
         ELSE IF v.is \in image.binary THEN "byteObject" ELSE "ordinaryObject"

\* The bytes of an integer, the lowest first.
IntegerBytes(n) ==
  LET n1 == n \div Base  n2 == n1 \div Base  n3 == n2 \div Base
  IN  <<n % Base, n1 % Base, n2 % Base, n3 % Base>>

\* What goes into the file for a value.
Bytes(v, known) ==
  LET type == getObjectType(v, known)
  IN  CASE type = "byte"           -> writeWord(v.is)
        [] type = "inlineInteger"  -> writeWord(Record.inlineInteger) \o IntegerBytes(v.is)
        [] type = "nilObject"      -> writeWord(Record.nilObject)
        [] type = "previousObject" ->
             writeWord(Record.previousObject) \o writeWord(Index(known, v.is) - 1)
        [] OTHER -> writeWord(Record[type]) \o writeWord(Len(image.contents[v.is]))

IsNew(v, known) == getObjectType(v, known) \in {"ordinaryObject", "byteObject"}

Due(s) == Last(s).values[Last(s).done + 1]

\* A call that is through with its values has returned.
Advance(s) ==
  IF Last(s).done + 1 = Len(Last(s).values) THEN Front(s)
  ELSE [s EXCEPT ![Len(s)].done = @ + 1]

\* writeObject() up to the values it writes in turn, or the next byte of one
\* that is binary.
writeObject ==
  /\ phase = "write" /\ calls # <<>>
  /\ LET v     == Due(calls)
         isNew == IsNew(v, written)
     IN  /\ file' = file \o Bytes(v, written)
         /\ calls' = Advance(calls) \o IF isNew THEN <<Call(Values(v.is))>> ELSE <<>>
         /\ written' = IF isNew THEN Append(written, v.is) ELSE written
  /\ UNCHANGED <<image, phase, order, cut, readerVars>>

\* The writer is killed before all of its buffer is in the file.
Kill ==
  /\ phase = "write" /\ calls = <<>> /\ ~cut
  /\ \E n \in 0 .. Len(file) - 1 : file' = SubSeq(file, 1, n)
  /\ cut' = TRUE
  /\ UNCHANGED <<image, phase, calls, written, order, readerVars>>

-----------------------------------------------------------------------------
\* loadImage(): the size of the file decides how large the static heap is.
StartLoading ==
  /\ phase = "write" /\ calls = <<>>
  /\ phase' = "read"
  /\ room' = (Len(file) * 3) \div 2
  /\ UNCHANGED <<writerVars, pointer, indirects, open, roots>>

\* readWord() at a place of the file: its value and the place behind it.  A
\* read behind the end throws: at is -1.
readWord(p) ==
  LET ends == {q \in p + 1 .. Len(file) : file[q] # Escape}
      end  == CHOOSE q \in ends : \A r \in ends : q <= r
  IN  IF p = -1 \/ ends = {} THEN [value |-> 0, at |-> -1]
      ELSE [value |-> (end - p - 1) * Escape + file[end], at |-> end]

\* Mutant: the sign is lost.
readIntegerUnsigned(p) ==
  file[p + order[1]] + Base * (file[p + order[2]]
    + Base * (file[p + order[3]] + Base * file[p + order[4]]))

\* Four calls of get() in one expression: the k-th byte of the number is the
\* order[k]-th that is read.
readInteger(p) ==
  LET n == file[p + order[1]] + Base * (file[p + order[2]]
             + Base * (file[p + order[3]] + Base * file[p + order[4]]))
  IN  IF n \in Ints THEN n ELSE n - Base * (Base * (Base * Base))

correctPadding(size) == ((size + WordSize - 1) \div WordSize) * WordSize

Complete(o) == o.class # <<>> /\ Len(o.is) = o.size

\* An object stores its class first, but a binary one its bytes.
WithValue(o, v) ==
  IF v.type = "byte" \/ o.class # <<>> THEN [o EXCEPT !.is = Append(@, v)]
  ELSE [o EXCEPT !.class = <<v>>]

\* The innermost open object stores the value; with none open it is the next
\* of the globals.
Take(v, new) ==
  IF open = <<>>
  THEN /\ roots' = Append(roots, v)
       /\ indirects' = indirects \o new
       /\ open' = [k \in 1 .. Len(new) |-> Len(indirects) + 1]
  ELSE LET o == WithValue(indirects[Last(open)], v)
       IN  /\ roots' = roots
           /\ indirects' = [indirects EXCEPT ![Last(open)] = o] \o new
           /\ open' = (IF Complete(o) THEN Front(open) ELSE open)
                        \o [k \in 1 .. Len(new) |-> Len(indirects) + 1]

\* A new object is in m_indirects before its class and fields are read.
Begin(size, binary, bytes) ==
  /\ room' = room - bytes
  /\ Take(Ref(Len(indirects) + 1),
          <<[class |-> <<>>, is |-> <<>>, size |-> size, binary |-> binary]>>)

\* Mutant: a load that failed is tried again.
StopRetries(why) ==
  /\ phase' = "write" /\ pointer' = 0 /\ room' = 0
  /\ indirects' = <<>> /\ open' = <<>> /\ roots' = <<>>

\* An exception or exit(): what is read so far is of no use.
Stop(why) == phase' = why /\ UNCHANGED readerVars

\* The innermost open object is binary and not all of its bytes are read.
ByteIsDue ==
  /\ open # <<>>
  /\ LET o == indirects[Last(open)] IN o.binary /\ Len(o.is) < o.size

readByte ==
  /\ phase = "read" /\ ByteIsDue
  /\ LET b == readWord(pointer)
     IN  IF b.at = -1 THEN Stop("refused")
         ELSE Take(Byte(b.value), <<>>) /\ pointer' = b.at /\ UNCHANGED <<phase, room>>
  /\ UNCHANGED writerVars

\* The words of a record: its type, and its size or index.
TypeWord == readWord(pointer)
NextWord == readWord(TypeWord.at)

readNewObject(binary, bytes) ==
  IF NextWord.at = -1 THEN Stop("refused")
  ELSE IF bytes > room THEN Stop("exhausted")
  ELSE Begin(NextWord.value, binary, bytes) /\ pointer' = NextWord.at /\ UNCHANGED phase

readInlineInteger ==
  IF TypeWord.at + 4 > Len(file) THEN Stop("refused")
  ELSE /\ Take(Int32(readInteger(TypeWord.at)), <<>>)
       /\ pointer' = TypeWord.at + 4 /\ UNCHANGED <<phase, room>>

readPreviousObject ==
  IF NextWord.at = -1 THEN Stop("refused")
  ELSE IF NextWord.value >= Len(indirects) THEN Stop("corrupt")
  ELSE /\ Take(Ref(NextWord.value + 1), <<>>)
       /\ pointer' = NextWord.at /\ UNCHANGED <<phase, room>>

readNilObject ==
  IF indirects = <<>> THEN Stop("corrupt")
  ELSE Take(Ref(1), <<>>) /\ pointer' = TypeWord.at /\ UNCHANGED <<phase, room>>

AllRead == open = <<>> /\ Len(roots) = Len(image.globals)

readObject ==
  /\ phase = "read" /\ ~AllRead /\ ~ByteIsDue
  /\ IF TypeWord.at = -1 THEN Stop("refused")
     ELSE CASE TypeWord.value = Record.ordinaryObject ->
                 readNewObject(FALSE, (2 + NextWord.value) * WordSize)
            [] TypeWord.value = Record.byteObject ->
                 readNewObject(TRUE, correctPadding(2 * WordSize + NextWord.value))
            [] TypeWord.value = Record.inlineInteger  -> readInlineInteger
            [] TypeWord.value = Record.previousObject -> readPreviousObject
            [] TypeWord.value = Record.nilObject      -> readNilObject
            [] OTHER -> Stop("corrupt")
  /\ UNCHANGED writerVars

EndLoading ==
  /\ phase = "read" /\ AllRead
  /\ phase' = "loaded"
  /\ UNCHANGED <<writerVars, readerVars>>

Over == phase \in {"loaded", "refused", "exhausted", "corrupt"}
Ended == Over /\ UNCHANGED vars

Next ==
  writeObject \/ Kill \/ StartLoading \/ readObject \/ readByte \/ EndLoading \/ Ended

\* Writer and loader are sequential programs and run to their end.  This is
\* WF_vars(Next): a step is possible unless the work is over.
Spec == Init /\ [][Next]_vars /\ ([]<>Over \/ []<><<Next>>_vars)

-----------------------------------------------------------------------------
TypeOK ==
  /\ phase \in {"write", "read", "loaded", "refused", "exhausted", "corrupt"}
  /\ \A k \in DOMAIN file : file[k] \in 0 .. Escape
  /\ IsInjective(written)
  /\ pointer \in 0 .. Len(file) /\ room >= 0
  /\ ToSet(open) \subseteq DOMAIN indirects

InOrder == \A k \in DOMAIN order : order[k] = k

\* A value of the image and what became of it, the k-th object read being the
\* k-th that was written.
SameValue(v, w) ==
  /\ v.type = w.type
  /\ v.type = "ref" => w.is \in DOMAIN written /\ written[w.is] = v.is
  /\ v.type = "byte" => v.is = w.is
  /\ v.type = "int" /\ InOrder => v.is = w.is

(***************************************************************************)
(* What is loaded is what was written: the same objects, shared and cyclic *)
(* as they were, with the same classes and contents, whatever the sizes,   *)
(* indices and bytes that need more than one byte.  (Integers only if the  *)
(* compiler keeps the order of the four reads.)                            *)
(***************************************************************************)
LoadedIsomorphic ==
  phase = "loaded" =>
    /\ Len(indirects) = Len(written) /\ Len(roots) = Len(image.globals)
    /\ \A k \in DOMAIN roots : SameValue(image.globals[k], roots[k])
    /\ \A k \in DOMAIN indirects :
         LET o  == written[k]
             is == image.contents[o]
         IN  /\ SameValue(Ref(image.class[o]), indirects[k].class[1])
             /\ indirects[k].binary = (o \in image.binary)
             /\ Len(indirects[k].is) = Len(is)
             /\ \A j \in DOMAIN is : SameValue(is[j], indirects[k].is[j])

(***************************************************************************)
(* A file that the writer did not finish is never taken for an image, and  *)
(* no file it leaves makes the loader follow an index to an object that    *)
(* was not read or meet a record it does not know.                         *)
(***************************************************************************)
CutNotLoaded == TypeOK /\ phase # "corrupt" /\ (cut => phase # "loaded")

\* Writing and loading come to an end, on cyclic images too.
LoadingEnds == <>(phase \in {"loaded", "refused", "exhausted"})
=============================================================================

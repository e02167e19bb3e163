--------------------------- MODULE MCImageFormat ---------------------------
(* Images with cycles among classes, sharing, integers of both signs, a    *)
(* byte 0xFF, an index that needs two bytes and an array of nil, for TLC.  *)
EXTENDS ImageFormat, TLC

Nil == Ref(1)

\* 1 is nil, 2 a class, 3 the class of classes, 4 an array, 5 a string, the
\* others are what the array needs.
Objects == 1 .. 9

MCClass == [o \in Objects |-> IF o \in {2, 3} THEN 3 ELSE 2]

MCContents(array, string) ==
  [o \in Objects |-> CASE o = 2 -> <<Ref(5), Nil>>
                       [] o = 3 -> <<Ref(2), Ref(4)>>
                       [] o = 4 -> array
                       [] o = 5 -> string
                       [] OTHER -> <<>>]

MCArrays == {<<>>, <<Ref(4), Ref(5)>>, <<Int32(-1), Nil, Int32(13)>>, [k \in 1 .. 9 |-> Nil],
             <<Ref(6), Ref(7), Ref(8), Ref(9), Ref(9)>>}

MCImages == {[class |-> MCClass, binary |-> {5}, globals |-> <<Nil, Ref(4), Ref(3)>>,
              contents |-> MCContents(a, s)] : a \in MCArrays, s \in {<<>>, <<Byte(7), Byte(0), Byte(6)>>}}

MCOrders == {<<1, 2, 3, 4>>, <<4, 3, 2, 1>>}
=============================================================================

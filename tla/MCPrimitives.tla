---------------------------- MODULE MCPrimitives ----------------------------
(* Two strings, of less than a word and of one, and two arrays, one of     *)
(* them static, next to nil, true and false, for TLC.                      *)
EXTENDS Primitives, TLC

CONSTANTS Short, Long, Dynamic, Static

MCHeap ==
  Short :> <<0, 1>> @@ Long :> <<2, 3, 1>>
    @@ Dynamic :> <<Small(0), Small(1)>> @@ Static :> <<Small(2), Ref(trueObject), Small(3)>>
    @@ nilObject :> <<>> @@ trueObject :> <<>> @@ falseObject :> <<>>

MCIndices == -1 .. 4
=============================================================================

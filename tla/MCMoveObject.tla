---------------------------- MODULE MCMoveObject ----------------------------
(* All object graphs of two shapes of old space: three objects (ordinary   *)
(* with two fields, binary, ordinary with one field) and two objects       *)
(* (ordinary with three fields, ordinary with none).                       *)
EXTENDS MoveObject, Sequences, TLC

MCOldSpace == 21 .. 32
MCStatic == 51

Ordinary(class, fields) ==
  Object(Len(fields), FALSE, [k \in 0 .. Len(fields) |-> IF k = 0 THEN class ELSE fields[k]])

Binary(class) == Object(1, TRUE, [k \in {0} |-> class])

A == 21
B == 26
C == 30

ThreeObjects ==
  {[mem |-> A :> Ordinary(ca, <<f1, f2>>) @@ B :> Binary(cb) @@ C :> Ordinary(cc, <<g>>),
    slot |-> <<r1, r2>>] :
     ca \in {MCStatic, A, C}, cb \in {MCStatic, A, C}, cc \in {MCStatic, A},
     f1, f2 \in {0, SmallInt, A, B, C}, g \in {0, SmallInt, A, B, C},
     r1 \in {A, B, C}, r2 \in {SmallInt, MCStatic, A, B}}

TwoObjects ==
  {[mem |-> A :> Ordinary(ca, <<f1, f2, f3>>) @@ B :> Ordinary(cb, <<>>),
    slot |-> <<r1, r2>>] :
     ca \in {MCStatic, A, B}, cb \in {MCStatic, A, B},
     f1, f2, f3 \in {0, SmallInt, A, B}, r1 \in {A, B}, r2 \in {SmallInt, A, B}}

MCHeaps == ThreeObjects \union TwoObjects
=============================================================================

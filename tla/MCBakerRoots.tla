--------------------------- MODULE MCBakerRoots ---------------------------
(* A static object with every field the image may load and a handful of    *)
(* hptr<>s, which are interchangeable, for TLC.                            *)
EXTENDS BakerRoots, TLC

MCAnyImageField == {"static", "int", "intStatic"}

MCSymmetry == Permutations(Hptrs)
=============================================================================

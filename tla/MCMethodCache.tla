--------------------------- MODULE MCMethodCache ---------------------------
(* A static class and its dynamic subclass, two selectors; two methods for *)
(* the first selector of the class, one of them dynamic, one for the       *)
(* second, which lies behind the first in the dictionary, and one of the   *)
(* subclass.  The cache has one line, so that all entries collide; what    *)
(* follows an array is null or no object's address.                        *)
EXTENDS MethodCache, FiniteSets

CONSTANTS object, sub, selector1, selector2, m1, m2, n1, k1

MCClasses == {object, sub}
MCSelectors == {selector1, selector2}
MCMethods == {m1, m2, n1, k1}
MCMethodName == [m \in MCMethods |-> IF m = n1 THEN selector2 ELSE selector1]
MCMethodClass == [m \in MCMethods |-> IF m = k1 THEN sub ELSE object]
MCBefore(s, t) == s = selector1 /\ t = selector2
MCParentClass == [c \in MCClasses |-> IF c = sub THEN object ELSE Nil]
MCImageValues == [c \in MCClasses |-> IF c = object THEN <<m1>> ELSE <<>>]
MCStaticAddress == [o \in {object, selector1, selector2, m1, n1, k1} |->
                      CASE o = object -> 1 [] o = selector1 -> 2 [] o = selector2 -> 3
                        [] o = m1 -> 4 [] o = n1 -> 5 [] o = k1 -> 6]
MCSpaceOne == {7, 8}
MCSpaceTwo == {9, 10}
MCLines == {0}
MCHash(a, b) == 0
MCStrays == {0, 11}
=============================================================================

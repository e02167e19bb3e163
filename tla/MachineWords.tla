---------------------------- MODULE MachineWords ----------------------------
(***************************************************************************)
(* Integers as a machine computes with them: words of a number of bits,    *)
(* in two's complement, which wrap around.                                 *)
(***************************************************************************)
EXTENDS Integers

Power2[k \in Nat] == IF k = 0 THEN 1 ELSE 2 * Power2[k - 1]

\* The low bits of n, read as an unsigned and as a signed number.
Unsigned(n, bits) == n % Power2[bits]

Signed(n, bits) ==
  LET m == Unsigned(n, bits)
  IN  IF m >= Power2[bits - 1] THEN m - Power2[bits] ELSE m

\* A negative number has infinitely many ones in front.
Bit(n, k) == (n \div Power2[k]) % 2

Ones(n, bits) == {k \in 0 .. bits - 1 : Bit(n, k) = 1}

\* The unsigned number that has ones in the places S.
WithOnes(S, bits) ==
  LET sum[k \in 0 .. bits] ==
        IF k = 0 THEN 0 ELSE sum[k - 1] + (IF k - 1 \in S THEN Power2[k - 1] ELSE 0)
  IN  sum[bits]

BitOr(l, r, bits) == WithOnes(Ones(l, bits) \union Ones(r, bits), bits)

BitAnd(l, r, bits) == WithOnes(Ones(l, bits) \intersect Ones(r, bits), bits)

\* Integer division of C rounds towards 0.
Abs(n) == IF n < 0 THEN -n ELSE n

Quotient(l, r) ==
  LET q == Abs(l) \div Abs(r) IN IF (l < 0) = (r < 0) THEN q ELSE -q

Remainder(l, r) == l - Quotient(l, r) * r
=============================================================================

------------------------------ MODULE Rounding ------------------------------
(***************************************************************************)
(* Decimal.quantize of a quotient n/d of integers: the two roundings the   *)
(* code uses.                                                              *)
(***************************************************************************)
EXTENDS Integers

Magnitude(n) == IF n < 0 THEN -n ELSE n

\* ROUND_HALF_UP: halves go away from zero.
HalfUp(n, d) ==
    LET magnitude == (2 * Magnitude(n) + Magnitude(d)) \div (2 * Magnitude(d))
    IN  IF n < 0 <=> d < 0 THEN magnitude ELSE -magnitude

\* ROUND_HALF_EVEN of a fee or an average, d > 0: quantize when no rounding is named.
HalfEven(n, d) ==
    LET q == n \div d
        r == n % d
    IN  IF 2 * r < d \/ (2 * r = d /\ q % 2 = 0) THEN q ELSE q + 1
=============================================================================

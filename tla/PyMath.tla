------------------------------- MODULE PyMath -------------------------------
(***************************************************************************)
(* The arithmetic of Python's builtins on the integers the models use.     *)
(***************************************************************************)
EXTENDS Integers

MaxOf(a, b) == IF a >= b THEN a ELSE b
MinOf(a, b) == IF a <= b THEN a ELSE b
AbsDiff(a, b) == IF a >= b THEN a - b ELSE b - a

(* Python's round(n / k): to the nearest integer, halves to even. *)
RoundDiv(n, k) ==
  LET q == n \div k
      r == n % k
  IN IF 2 * r < k \/ (2 * r = k /\ q % 2 = 0) THEN q ELSE q + 1
=============================================================================

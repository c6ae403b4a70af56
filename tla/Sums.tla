-------------------------------- MODULE Sums --------------------------------
(***************************************************************************)
(* Finite sums of integers indexed by 1..n.  Written with a recursive      *)
(* function so that the provers accept it; SumsProofs proves its algebra.  *)
(***************************************************************************)
EXTENDS Integers

SumTo(f, n) ==
  LET partial[i \in 0..n] == IF i = 0 THEN 0 ELSE partial[i - 1] + f[i]
  IN  partial[n]
=============================================================================

-------------------------------- MODULE Sums --------------------------------
(* Sums over functions with a finite domain.                                *)
EXTENDS Integers, FiniteSetsExt

SumOf(f) == MapThenSumSet(LAMBDA x : f[x], DOMAIN f)
=============================================================================

-------------------------------- MODULE Sums --------------------------------
(* The sum of a sequence of integers, by way of the sums of its prefixes.  *)
EXTENDS Integers, Sequences

\* What the first 0, 1, ... elements of s add up to.
Totals(s) ==
  LET total[i \in 0..Len(s)] == IF i = 0 THEN 0 ELSE total[i - 1] + s[i]
  IN  total

SumOf(s) == Totals(s)[Len(s)]
=============================================================================

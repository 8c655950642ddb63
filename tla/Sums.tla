-------------------------------- MODULE Sums --------------------------------
(* What a list of numbers adds up to.                                         *)
EXTENDS Integers, Sequences

Tally(counts) ==
  LET of[n \in 0 .. Len(counts)] == IF n = 0 THEN 0 ELSE of[n - 1] + counts[n]
  IN  of[Len(counts)]
=============================================================================

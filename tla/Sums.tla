-------------------------------- MODULE Sums --------------------------------
(* Sums of sequences of numbers, for the sizes of what the Relay packs.    *)
EXTENDS Integers, Sequences

Total(sizes) ==
    LET upto[n \in 0 .. Len(sizes)] == IF n = 0 THEN 0 ELSE upto[n - 1] + sizes[n]
    IN upto[Len(sizes)]
=============================================================================

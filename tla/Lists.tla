-------------------------------- MODULE Lists --------------------------------
(* Loops over a list that the components share, as recursive functions on    *)
(* the number of entries the loop has seen.                                  *)
EXTENDS Integers, Sequences, SequencesExt

\* The entries of s that are in keep, in order.
Kept(s, keep) ==
    LET f[n \in 0 .. Len(s)] ==
            IF n = 0 THEN <<>>
            ELSE IF s[n] \in keep THEN Append(f[n - 1], s[n]) ELSE f[n - 1]
    IN  f[Len(s)]

\* The sum of the numbers in s.
Total(s) ==
    LET sum[n \in 0 .. Len(s)] == IF n = 0 THEN 0 ELSE sum[n - 1] + s[n]
    IN  sum[Len(s)]

=============================================================================

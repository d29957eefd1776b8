-------------------------------- MODULE Sums --------------------------------
(* Sums over the characters of a text, or over the lines of one.           *)
EXTENDS Naturals

(* f[1] + ... + f[n]                                                       *)
SumTo(f, n) ==
  LET sum[i \in 0 .. n] == IF i = 0 THEN 0 ELSE sum[i - 1] + f[i] IN sum[n]
=============================================================================

------------------------------ MODULE Numerals ------------------------------
(***************************************************************************)
(* Numbers as they are written: what BigInt makes of decimal digits        *)
(* (src/src/zip321.js) and btoa and atob of bits (src/src/encoding.js).    *)
(* Recursive functions, not folds, so that they can be reasoned about.     *)
(***************************************************************************)
EXTENDS Integers, Sequences

\* The number that the digits d spell in base b, the most significant one first.
Number(b, d) ==
  LET upTo[n \in 0..Len(d)] == IF n = 0 THEN 0 ELSE b * upTo[n - 1] + d[n]
  IN  upTo[Len(d)]

Zeros(n) == [i \in 1..n |-> 0]

\* Ten to the n is written as a one and n zeros.
TenTo(n) == Number(10, <<1>> \o Zeros(n))
=============================================================================

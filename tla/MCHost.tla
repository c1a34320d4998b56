------------------------------- MODULE MCHost -------------------------------
(***************************************************************************)
(* Small instances of PublicationHost.                                     *)
(***************************************************************************)
EXTENDS PublicationHost, TLC

CONSTANTS a, b, d1, d2, d3

Snap(n, d, c, from, to) ==
  [sequence |-> n, digest |-> d, compact |-> c, issuedAt |-> from, expiresAt |-> to]

\* A first snapshot; one that equivocates with it; one with its payload under another
\* header; its successor, issued later.
SmallSigned ==
  {Snap(1, d1, 1, 0, 3), Snap(1, d2, 2, 0, 3), Snap(1, d1, 3, 0, 3), Snap(2, d3, 4, 1, 5)}

ClientSymmetry == Permutations(Clients)
=============================================================================

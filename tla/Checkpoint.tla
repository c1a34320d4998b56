----------------------------- MODULE Checkpoint -----------------------------
(***************************************************************************)
(* The anti-rollback promise a host and a wallet each make for one         *)
(* registry: an accepted checkpoint is only ever replaced by one with a    *)
(* higher sequence.  assertCheckpoint of src/src/index.js decides, the     *)
(* storage of the host or of the wallet remembers.                         *)
(***************************************************************************)
EXTENDS Integers

CONSTANTS
  Digests,    \* payload digests
  NoDigest    \* the digest of no snapshot

VARIABLE mark   \* the accepted checkpoint

Mark   == [sequence : Nat, digest : Digests \cup {NoDigest}]
NoMark == [sequence |-> 0, digest |-> NoDigest]

\* Mutant: equal sequences are not compared by digest.
AssertRising(previous, next) ==
  next.sequence > 0 /\ next.sequence >= previous.sequence

\* May `next` be accepted after `previous` (NoMark for none)?
AssertCheckpoint(previous, next) ==
  /\ next.sequence > 0
  /\ previous # NoMark =>
       /\ next.sequence >= previous.sequence
       /\ next.sequence = previous.sequence => next.digest = previous.digest

Init == mark = NoMark

Advance == mark' \in Mark /\ mark'.sequence > mark.sequence

Spec == Init /\ [][Advance]_mark
=============================================================================

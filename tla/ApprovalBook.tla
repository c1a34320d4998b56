---------------------------- MODULE ApprovalBook ----------------------------
(***************************************************************************)
(* What approve-enrollment.mjs promises about the operator ledger, and all *)
(* that release-registry.mjs relies on: an approval appears in one step,   *)
(* replaces the merchant's previous one, and satisfies the review rule of  *)
(* the moment it was accepted.                                             *)
(***************************************************************************)
EXTENDS RegistryRules, ReviewPolicy

CONSTANT Authors   \* GitHub logins that open pull requests

VARIABLES
  clock,   \* seconds
  ledger   \* at most one approval per merchant

Approval == [record : Record, verifiedAt : Nat, proofsUntil : Nat, exceptional : BOOLEAN,
             reviewers : SUBSET (Maintainers \cup {Reviewer}), author : Authors]

\* Approval `a` is written; it was accepted at a.verifiedAt, now or a moment ago, on
\* proofs that were at most a day old.
Accept(a) ==
  LET rule == Rule(a.verifiedAt)
  IN  /\ a \in Approval /\ a.verifiedAt <= clock
      /\ a.proofsUntil <= a.verifiedAt + Skew + Day
      /\ a.exceptional = rule.exceptional
      /\ a.reviewers \subseteq rule.maintainers \ {a.author}
      /\ Cardinality(a.reviewers) >= rule.quorum
      /\ ledger' = {b \in ledger : b.record.id # a.record.id} \cup {a}

Init == ledger = {}

Next == \E a \in ledger' \ ledger : Accept(a)

Spec == Init /\ [][Next]_ledger
=============================================================================

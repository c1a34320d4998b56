---------------------------- MODULE ReviewPolicy ----------------------------
(***************************************************************************)
(* Who has to review an enrollment and for how long a recorded approval    *)
(* stands: src/scripts/review-policy.mjs.  The maintainers come from the   *)
(* operator config; on one day a single named reviewer replaces them.      *)
(***************************************************************************)
EXTENDS Integers, FiniteSets

CONSTANTS
  Maintainers,      \* config.maintainers
  Reviewer,         \* temporaryReviewPolicy.reviewer
  ExceptionStart,   \* temporaryReviewPolicy.startsAt
  ExceptionEnd      \* temporaryReviewPolicy.expiresAt

ASSUME ExceptionAssumption == ExceptionStart \in Nat /\ ExceptionEnd \in Nat

\* The requirement in force at time `now` (reviewRequirement).
Rule(now) ==
  IF now >= ExceptionStart /\ now < ExceptionEnd
  THEN [maintainers |-> {Reviewer}, quorum |-> 1, exceptional |-> TRUE]
  ELSE [maintainers |-> Maintainers, quorum |-> 2, exceptional |-> FALSE]

\* Does the recorded approval `a` still allow a release at `now`?  `unchanged` says
\* that the previous snapshot already holds the record (validateApprovalLedger).
ApprovalStands(a, now, unchanged) ==
  LET rule == Rule(a.verifiedAt)
  IN  /\ a.verifiedAt <= now
      /\ a.exceptional = rule.exceptional
      /\ rule.exceptional /\ ~unchanged => now < ExceptionEnd
      /\ Cardinality(a.reviewers) >= rule.quorum
      /\ a.reviewers \subseteq rule.maintainers
      /\ rule.exceptional => a.author \notin a.reviewers
=============================================================================

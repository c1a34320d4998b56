----------------------------- MODULE TrustPath -----------------------------
(***************************************************************************)
(* From a maintainer's approval to a payment: the release tool and a       *)
(* wallet, with everything that may lie between them.  Hosts, mirrors and  *)
(* merchants' pages hand the wallet any snapshot ever recorded, in any     *)
(* order, as often and as late as they like, and anything at all that no   *)
(* pinned root signed.  Operator and wallet read different clocks.         *)
(***************************************************************************)
EXTENDS Release

\* Of the wallet; WalletTime bounds its clock.
CONSTANTS
  Calls, Compacts, Invoices, Digests, NoDigest, Networks, Network, Challenges, NoChallenge,
  Window, InvoiceLife, MinimumSequence, WalletTime

VARIABLES walletClock, checkpoint, held, call, returned

walletVars == <<walletClock, checkpoint, held, call, returned>>
allVars    == <<vars, walletVars>>

W == INSTANCE Wallet WITH clock <- walletClock, MaxTime <- WalletTime

\* A recorded payload has one digest.
ASSUME TrustPathAssumption ==
  /\ W!WalletAssumption
  /\ \A c, d \in W!Genuine : c.payload = d.payload => c.digest = d.digest

-----------------------------------------------------------------------------

\* The roots' keys sign what the release tool records and nothing else.
OnOffer(c) == c.genuine => \E i \in DOMAIN log : log[i] = c.payload

TrustInit == Init /\ W!Init

ReleaseStep == Next /\ UNCHANGED walletVars

WalletStep ==
  /\ W!Next
  /\ \A t \in Calls : W!At(t, "jws")' => OnOffer(call'[t].compact)
  /\ UNCHANGED vars

TrustNext == ReleaseStep \/ WalletStep

TrustSpec == TrustInit /\ [][TrustNext]_allVars

-----------------------------------------------------------------------------
(* What holds from one end to the other.                                    *)

Verified(t) == W!At(t, "verified")

\* An approval by the rule of its moment.
Approved(a) ==
  LET rule == Rule(a.verifiedAt)
  IN  /\ a.reviewers \subseteq rule.maintainers \ {a.author}
      /\ Cardinality(a.reviewers) >= rule.quorum
      /\ a.exceptional = rule.exceptional

\* Whoever is paid was approved: the key that signed a verified invoice is in a record, for
\* the invoice's merchant and origin, that maintainers other than its author approved, and
\* that was first released on that approval while its proofs were fresh and, if the one
\* exceptional reviewer gave it, the exception had not ended - however long ago, by
\* whatever route and whoever else offers snapshots (release-registry.mjs:38-43,
\* review-policy.mjs:14-20, index.js:28,42-49).
PaidWasApproved ==
  \A t \in Calls : Verified(t) =>
    LET i == call[t].invoice
    IN  \E a \in approvals, n \in DOMAIN log :
          /\ a.record.id = i.merchantId /\ i.origin \in a.record.origins
          /\ [kid |-> i.kid, data |-> i.signer] \in a.record.keys
          /\ Approved(a)
          /\ n <= call[t].compact.payload.sequence /\ a.record \in log[n].merchants
          /\ a.verifiedAt <= log[n].issuedAt /\ log[n].issuedAt < a.proofsUntil
          /\ a.exceptional => log[n].issuedAt < ExceptionEnd

\* A revocation that was recorded reaches every wallet within a day, even one that is never
\* shown it: nothing is assumed of the snapshots but that the tool recorded them
\* (lifecycle.mjs:35-37, index.js:36,48,65).
RevocationReachesWallets ==
  \A t \in Calls, i \in DOMAIN log :
    (Verified(t) /\ walletClock < W!ValidUntil(call[t].invoice, call[t].compact.payload))
      => \/ walletClock < log[i].issuedAt + Day
         \/ ~Revoked(log[i], call[t].invoice.merchantId, call[t].invoice.kid)

\* A key ID means one key to all wallets for ever: no snapshot, older or newer than the one
\* an invoice was verified with, shows another key under its key ID ("a kid is never
\* reused for a different key", registry.md:13-14; lifecycle.mjs:42,46, index.js:45-49).
KeyIdMeansOneKey ==
  \A t \in Calls : Verified(t) =>
    \A i \in DOMAIN log : \A k \in KeysOf(log[i], call[t].invoice.merchantId) :
      k.kid = call[t].invoice.kid => k.data = call[t].invoice.signer

\* No wallet is locked out: whatever it was offered before, the newest recorded snapshot is
\* neither a rollback nor an equivocation to it (release-registry.mjs:49,51-53,
\* index.js:11-20).
NewestIsNeverRefused ==
  \A c \in W!Genuine : c.payload = state =>
    state = Genesis \/ W!CP!AssertCheckpoint(checkpoint, W!MarkOf(c))
=============================================================================

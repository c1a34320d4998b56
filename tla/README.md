# Verification of the merchant registry

TLA+ models, TLC configurations and TLAPS proofs for
`open-zcash-merchant-payments`: the registry of merchants and their invoice
keys, the operator tools that approve and sign it, the host that publishes it
and the library with which wallets verify it. Source paths below are relative to
the repository.

## The system

| Part | State it keeps | Operations | What makes it correct |
|---|---|---|---|
| Registry rules: `src/validation.js`, `scripts/lifecycle.mjs` | none | shape and lifetime checks, `validateTransition` | one snapshot follows another only if key IDs, tombstones and history survive, however long the chain |
| Review policy: `scripts/review-policy.mjs` | none (the clock) | `reviewRequirement`, `validateApprovalLedger` | the rule of the moment of acceptance decides, on both sides of the exception's boundaries |
| Enrollment: `scripts/approve-enrollment.mjs` | the operator ledger, its lock file | fetch PR, reviews and record; lock; compare with the ledger; proofs; re-check; write | an entry is backed by approvals of exactly its commit; key IDs are never lost, rebound or reused |
| Release: `scripts/release-registry.mjs`, `signRegistry` | `state.json`, `registry-<n>.jws`, `registry.jws`, `release.lock` | lock; load state; check records; build, sign, verify; three durable writes; unlock | one snapshot per sequence, recorded before exposed, each a valid successor, only approved records with fresh evidence |
| Host: `hosting/worker.mjs` | Durable Object keys `latest`, `archive:<n>` | publish, read, health, hourly cron | no rollback, immutable archive, no stale answer, no silent expiry |
| Wallet library: `src/index.js` | the durable checkpoint (host's storage), the WeakSet of verified snapshots | `verifyRegistry`, `verifyInvoice`, `assertCheckpoint` | the checkpoint only advances, a revoked key is useless after a day, `validUntil` is exact |
| Encodings: `src/encoding.js`, `src/jws.js`, `src/zip321.js` | none | `strictJSON`, `b64`/`unb64`, `signJws`/`decodeJws`/`verifyJws`, `parsePaymentUri` | one document per accepted text and one text per document; nothing dropped; amounts exact; what may be signed can be verified and nothing else |
| Issuing and domain proof: `src/server.js`, `scripts/create-challenge.mjs`, `scripts/verify-domain.mjs`, `scripts/lifecycle.mjs` | none (the operator keeps the challenge) | sign; create a challenge; verify proof and TXT record; verify a rotation approval | evidence counts for one request only; an approval lasts until it expires and not longer |
| Checkout example: `examples/checkout/server.mjs`, `app.js` | server process: keys, one registry; page: checkpoint, configuration, invoice, details | `/api/config`, `/api/invoice`; create, verify, tamper | what is presented as verified is signed as it stands, by the process relied on, and is the invoice shown |
| Repository checks, fixtures, portal | none | | |

The parts meet in four places. Enrollment writes the **ledger** that release
reads (`ApprovalBook` is the contract between them). Release reads the **trusted
checkout** that merges move. Release writes **snapshots** that an operator posts to
the host and that anybody, at any time and in any order, hands to wallets
(`SnapshotLog` is what may be relied on about them). Host, wallet and
the checkout page each hold a **checkpoint** (`Checkpoint`) which `assertCheckpoint`
guards.

What is hard to test here: two operators on one directory; a crash between two of
three writes; the ledger, checkout and reviews changing between the reads of one
run; time taken once and used after awaits; the exception's boundaries; requests
that overtake each other at the host; mirrors that offer old or equivocating
snapshots to a wallet with several calls in flight; chains of legal snapshots
that reach an illegal one; handlers of a page that overlap while its server is
restarted; and the edges of the parsers, where two readers of one text may differ. `PROJECT.json` lists each hazard with its line.

## Modules

| Module | Models | Uses |
|---|---|---|
| `RegistryRules` | records, snapshots, `ValidRegistry`, `ValidTransition`: pure operators | |
| `ReviewPolicy` | `Rule(now)`, `ApprovalStands` | |
| `ApprovalBook` | abstract: the ledger as release may rely on it | both above |
| `SnapshotLog` | abstract: one growing log of snapshots and the exposed prefix | `RegistryRules` |
| `Checkpoint` | abstract: a mark that only advances; `AssertCheckpoint` | |
| `Enrollment` | `approve-enrollment.mjs`, GitHub and the checkout around it | rules, policy; implements `ApprovalBook` |
| `Release` | `release-registry.mjs`, the checkout and `ApprovalBook` around it | rules, policy; implements `SnapshotLog` |
| `PublicationHost` | the worker | implements `Checkpoint` |
| `Wallet` | `verifyRegistry`, `verifyInvoice` | rules; implements `Checkpoint` |
| `TrustPath` | the release tool and a wallet, everything between them arbitrary; what holds from one end to the other | `Release`, `Wallet` |
| `Checkout` | the demo server's processes and the page's handlers | `Checkpoint` |
| `Numerals` | numbers in decimal digits and in bits | |
| `StrictJson`, `Base64url`, `PaymentUri` | the parsers: pure operators, with reference definitions | `Numerals` (the last two) |
| `Jws` | signed documents: what signers issue, what verifiers take, sizes | |
| `Challenge` | challenges, registration proofs, TXT records, rotation approvals | |
| `JsonPrinter` | `JSON.stringify` | `StrictJson` |
| `Documents` | the inputs of the pure modules, of any size, and the properties of those inputs | all of them |
| `SnapshotLogProofs`, `ReleaseProofs`, `HostProofs`, `WalletProofs`, `EnrollmentProofs`, `CheckoutProofs`, `DocumentProofs` | theorems | the module they are named after; `ReleaseProofs` also `TrustPath`, with `WalletProofs` |
| `EncodingProofs` | induction, and theorems about digits, bits, the parsers of `encoding.js` and the printer | `Base64url`, `JsonPrinter` |
| `MCRelease`, `MCHost`, `MCWallet`, `MCEnrollment`, `MCTrustPath` | small instances for TLC | |
| `MCDocuments` | small inputs for `Documents` | `Documents` |

Conventions. A process has a `pc` and a record of the script's local variables;
each step runs up to the next `await` (or child process) at which something another
process can change is read or written. A throw is `Refuse` (a check fails), `Fail`
(a read, lookup or write throws) or `Crash` (the process dies, its lock stays).
Absent things are `Genesis`, `NoMark`, `None`. A payment key is its key ID and its
*data*, one value for public key, networks and validity window; `Window` opens the
data where the window matters. Lists whose order the code never uses are sets.
Signatures are perfect: a signed document says who signed it. Variables marked
*history* exist for the properties only. Definitions marked *Mutant* are plausible
bugs that the properties are measured against and take no part in a specification.

### Release

`Start` reads ledger and HEAD, before the lock; `TakeLock`/`LockBusy` is
`open(..., 'wx')`; `LoadState` reads `state.json` and takes the time; `ReadRecords`
checks every merchant file; `BuildSnapshot` is revocations, payload,
`validateTransition`, signing and verification; `WriteState`, `WriteArchive`,
`WriteLatest` are the three durable writes, `Unlock` the `finally` clause.
Sizes are counted in items (a record or a revocation is one): `state.json` holds the
payload twice, once of it base64-encoded, so it counts double. The live DNS lookups are
part of `ReadRecords`, and a `Fail` when they do not succeed. `sourceCommit`, files
and revocations come from three different reads of a checkout that `MergeMain` moves
at any time.

### Enrollment

`FetchPull`, `FetchReviews` (with `validateReviewEvidence` and the record of that
head), `TakeLock`, `LoadLedger` (retired and rebound key IDs), `ReadRevocations`,
`Verify` (proofs of every origin and key, mode, decision, rotation), `Recheck` (head
fetched again, the *old* reviews judged by the rule in force now), `WriteLedger` and
`Unlock`. What `Verify` leaves abstract, the proofs and the rotation approval, is in
`Challenge`.
GitHub (`Push`, `SubmitReview`, `DismissReview`, `CloseOrReopen`), the checkout
(`Revoke`) and time move between any two of them. What the operator's bundle says -
mode, decision, rotation key, the end of the earliest proof - is chosen freely.

### Publication host

A publish is `Publish` (token and body; the time is taken), `VerifySnapshot`, and
`Commit` or `Conflict`, the storage transaction; a read is `GetLatest`, `ReadLatest`;
`Answer` is the response reaching the caller. `Evict` loses every request in flight.
`Tick` does not pass a due cron: that the platform starts it hourly is assumed.

### Wallet

`BeginRegistry`, `CheckRegistry`, `Accept` (the wallet's storage transaction around
`assertCheckpoint`) and `ReturnRegistry`; `BeginInvoice` with *any* snapshot this
process verified, `EndInvoice` with the outcome, which depends on nothing but the
arguments and the time of the call. `Restart` loses memory, not the checkpoint. The
snapshots on offer are arbitrary - equivocating, unsigned, old - except that
in the run `wallet` revocations accumulate with issue time among genuine ones
(`RevocationsAccumulate`), which only `RevokedWithinADay` needs. Theorem
`RevocationsFollowIssueTimes` shows it of any two snapshots of the log that the release
tool implements, and `TrustPath` does without it.

### From approval to payment

`TrustPath` is `Release` and an instance of `Wallet` side by side. All that joins them is
`OnOffer`: the compact handed to `verifyRegistry` is any that was ever recorded in
`state.json` - released, withheld by a crash, replayed, overtaken - or any that no pinned
root signed. So host, mirrors and merchants' pages need no model: whatever they do is
allowed. Operator and wallet have clocks that know nothing of each other. The four properties
relate what a wallet returns to what maintainers approved and what the tool recorded.

### Documents

The parsers and signers keep no state, so they are operators, and `Documents` has one
variable, the input at hand: a text or a URI that grows from step to step, a JSON text that
is damaged lexeme by lexeme, a compact recombined from signed ones, a request for evidence
with what came back, or an approval. `MCDocuments` makes the inputs few.
`Numerals` gives numbers as they are spelled by recursive functions, because these can be
reasoned about.

* `StrictJson` follows `strictJSON`'s recursive descent over a sequence of lexemes: `Ws` is
  `ws()`, `Value` is `value()`, `Elements` and `Members` are its loops, `Loop` the end of
  their bodies, `StrictJSON` adds the end-of-input check. `Parse` ties the recursive calls
  together: a function of what is parsed next (`Tasks`), from which each step takes what
  the call further on returns. A result is a set of at most one value; empty means it threw.
  How a string or a number is spelled is not parsed character by character: `Meaning` maps
  each lexeme to what `JSON.parse` and `Number` make of it, several spellings to one meaning
  and unreadable ones to `Unreadable`. The reference, `Meanings`, has no position that moves:
  it says what a *part* of a text means as a value, as an array's elements or as an object's
  members, from the first to the last lexeme, trying every comma as the end of an item.
* `JsonPrinter` prints values again, as lexemes without spaces. `Printed[n]` is a function on
  the values that are nested less than n deep, made of `Printed[n - 1]`, for the same reason.
* `Base64url` computes with bits: `B64`, `Atob` (which drops the bits left over) and
  `Unb64`, which encodes again and compares.
* `PaymentUri` has a URI as its path and its list of parameters; amounts are digit by
  digit, since `Zatoshis` is what the property is about.
* `Jws` has sizes in bytes with the code's own limits, a compact as header, payload,
  signer and *what was signed*, so that parts of different documents can be put together.
* `Challenge` has a file as a value that stands for its own hash, and DNS as the TXT
  records of each origin.

### Checkout

`StartServer` is a new process with new keys and the registry it signs once. The page's
`#create` handler is `ClickCreate`, `AnswerConfig`, `ReceiveConfig`, `AnswerInvoice`,
`ReceiveInvoice` or, at either fetch, `FetchFails`; `#verify` is `ClickVerify` (configuration
and time are taken), `EndRegistry` (checkpoint; only now the invoice and the time are
read) and `EndInvoice`; `#tamper` has no await and is `Tamper`. `Back` is the `finally` of
`run`. `Reload` empties the page. The server process and the page share a clock.

The model makes three things visible that the demo accepts. A verification that is
overtaken by another invoice writes its result beside that invoice (`replaced`), so
`PresentedIsCurrent` holds only for the others. An error leaves the details of the last
success on the page. And after a restart of the server the page refuses everything until
it is reloaded, for the new registry has the old sequence; the registry is never renewed
and expires after an hour. The example makes no promise otherwise.

## Runs

Every run explores its instance completely (three of them within a state constraint); two
workers need from seconds to about two minutes each.

| Run | Instance | Shows |
|---|---|---|
| `release` | two instances in one state space: two operators, or a clock to 1 and back and an exception over [0,1), with one fault, over 2 snapshots of a record and its rotation; and one operator, three registry contents merged in any order (also in the middle of a run), over 3 snapshots | mutual exclusion, recorded before published, one snapshot per sequence, evidence fresh when recorded; key IDs are never rebound, retired ones never return; refines `SnapshotLog` |
| `release_live` | one operator, two faults, 3 snapshots, a `state.json` that can outgrow the parser | a lock file never stays for good; an interrupted snapshot gets published |
| `host` | two callers, four snapshots (equivocation, re-signed payload, successor), clock to 5 | archive, reads, alerts; refines `Checkpoint` |
| `wallet` | two calls, four compacts, two invoices, day of 2, clock to 4 | no rollback, no equivocation, bounded revocation delay, exact `validUntil`; refines `Checkpoint` |
| `trust_path` | one operator and one wallet, two commits (a record; another key under its key ID, revoked) whose files and revocations a run may mix, 2 snapshots, a forged one, both clocks to 1, `Day` 1, exception over [0,1), one fault | who is paid was approved; recorded revocations bind every wallet; a key ID is one key; the newest snapshot is acceptable |
| `enroll_review` | two instances in one state space: two operators, three heads, five events, no fault; and one operator at a time, an author among three maintainers, exception over [0,1), one fault, four events | entries are backed by approvals of their commit; accepted key IDs are kept for ever; refines `ApprovalBook` |
| `documents` | JSON texts of up to three levels damaged in two places, base64url texts and amounts of up to six characters, up to four URI parameters, every recombination of signed documents, every answer to two files, origins, keys, challenges and commits | parsers agree with their references and JSON values with their texts; signers and verifiers agree; evidence is for one request |
| `checkout` | two server processes, clock to 4, registry lives 3, invoices 2 | presented details are signed, current and of one process; buttons come back |
| `release_stale`, `release_size`, `enroll_request`, `enroll_reactivate` | smallest that shows it | the findings below |

Why the bounds suffice. The rules compare a snapshot with its predecessor only and
treat merchants independently, so one merchant with two key IDs and two key data
exercises them; the chain length that matters (bind, drop, bring back) is three.
Two processes are the least that race, and a lock admits no interaction that needs
three. One fault cuts a run at every step, two also cut its rerun. A clock of one
unit beyond each deadline crosses every comparison (`<` against `<=`), and `Day`,
`Skew` and the cron period keep the order they have in the code. `enroll_review` and
`release` use a state constraint (`InInstance`) to explore two small instances instead of
their product: racing operators need no faults, and the review rules need no second
operator; the rules on key IDs compare contents, so their three snapshots need neither
races nor faults nor a clock, which the shorter instance has. In the longer instance and
in `trust_path` the checkout moves between runs and between a run's two reads of it, of
the records and of the revocations: when it moves earlier only `sourceCommit`, which no
rule reads, comes out different. Only `release` checks its module's type invariant, for it
holds the bound on sequences; those of the other modules are proved. `trust_path`
also approves a record only once, on proofs made at that moment: proofs that end sooner
are in `release`. A fault cuts a run at every step there too, under an operator's clock
that stands still. Its mutants, one of which signs a snapshot without
`validateTransition`, show that two snapshots and a day of one tick reach the interesting cases.

For `documents`: a text with two lexemes wrong anywhere shows every pair of errors,
including those that repair each other; `MaxDepth` is 2 so that the limit is met and
missed; `Decimals`, `MaxMoney` and `MaxAmountLength` are 2, 1990 and 5 so that short
amounts reach each bound from both sides (TLC's integers end below 21 million ZEC in
zatoshis); sizes around each limit of `server.js` and `index.js` are enumerated at full
size. In `checkout` the registry expires before the clock ends, invoices before the
registry, and two processes are the least that equivocate. The proofs then
remove the bounds for the properties they cover. Deadlock is not checked: each run's
clock and counters end, and then the model may stop.

`MaxTime`, `MaxApprovals`, `MaxFaults`, `MaxEvents` bound the environment only;
`MaxSequence` is the code's own limit. Merges are unbounded.

Fairness (`release_live`). A process that is not dead is scheduled (`WF` of each
operator's `Step`), and the command is run again and again, as
`docs/operator-lifecycle.md` asks ("at least every six hours"). A stale lock is
eventually removed: `SF`, because the operator has to find a moment in which no
release runs, and these recur. Faults end after `MaxFaults`. Nothing is assumed of
approvals or merges: `Settled` names every condition that may keep an interrupted
snapshot from publication.

Fairness (`checkout`). A `fetch` ends, with an answer or because the server is gone
(`WF` of `Fetch`), and so does a signature check (`WF` of `Verify`); nobody has to click.

### Findings

* **`release_stale`** - `release-registry.mjs:40-42` takes "in `state.json`" for
  "published". A run that dies after writing `state.json` and before `registry.jws`
  makes the next run skip proof expiry, DNS and exception checks for a record nobody
  could download yet, against its own comment (line 39) and
  `docs/operator-lifecycle.md:45-46`.
* **`release_size`** - `state.json` is read with `strictJSON`'s default of 32768
  bytes but holds the payload about 2.3 times; beyond a payload of some 14 kB no run
  can load it again, although snapshots may have 4 MiB. "Rerun advances the
  sequence" (lines 51-52) then fails for good.
* **`enroll_request`** - before acceptance only the head is fetched again; a
  changes-request submitted during verification does not block acceptance, as
  `docs/operator-lifecycle.md:36` says it does.
* **`enroll_reactivate`** - a suspended merchant is reactivated in normal mode with
  no decision record, by a rotation its old key signs; `docs/registry.md:75-76`
  requires one.

Also observed, and not a defect: the key's expiry in `validUntil` (`index.js:65`) never
decides, because line 46-47 require the invoice to end no later than its key.

## Proofs

The theorems hold for every value of the constants that satisfies the modules'
`ASSUME`s: any number of merchants, key IDs, operators, callers, snapshots, faults
and any clock.

* **`SnapshotLogProofs`** (of `SnapshotLog`). `KidNeverRebinds` relates two
  snapshots any distance apart while the code compares neighbours, so it is not
  inductive. The invariant strengthens it: log positions carry their own number, every
  element is a valid successor, revocations accumulate, and whatever key a merchant
  ever showed under a key ID is still shown under it or is revoked and gone in the last
  snapshot. The new snapshot is then compared with the last only.
* **`ReleaseProofs`** (of `Release`). `Inv` adds to the checked properties what each
  process knows between its steps: past the lock its `previous` is `state.json`, its
  payload a valid successor, and past each write the file holds what was written; the
  approvals it read are among those ever given, and the records it passed have
  evidence at its `now`. Lemmas follow that structure: types, lock, log, agreement,
  evidence. From `Inv` follow the properties, and that every step is one of
  `SnapshotLog` or stutters; the log's guarantees then transfer to the tool.
* **`ReleaseProofs`, second part** (of `TrustPath`). A step of the composition is one of the
  tool or one of the wallet, so the invariants of both carry over (`PartsBehave`). The wallet's
  invariant speaks of genuine compacts and the tool's of the log; `WalletKnowsRecorded` joins them:
  every genuine snapshot a wallet verifies, has verified or keeps as its checkpoint is in the log
  under its number, and it stays there because the log only grows (`RecordedStays`).
  `EvidenceIsKept` says that each record of a snapshot in the log was first recorded at some
  position no later, with an approval and fresh proofs. From `TrustInv` follow all four properties:
  an invoice's key is in a record of a snapshot in the log, thus approved
  (`NoPaymentWithoutApproval`); a revocation recorded at i is known to every snapshot from i on,
  and a wallet that holds an earlier one holds one that expires within `Day` of i's issue time
  (`RevocationBindsEveryWallet`); positions of one log never differ about a key ID
  (`KeyIdsMeanOneKey`); a checkpoint's number is at most the last one, and at the last one its digest
  is the last one's (`NewestIsAcceptable`).
* **`HostProofs`** (of `PublicationHost`). `Inv` adds that an archive number stands for
  one snapshot, that nobody was answered with more than is stored, and that a cron that
  ran since the latest snapshot was stored has judged it. That the period is shorter
  than the lead makes the alert timely.
* **`WalletProofs`** (of `Wallet`). The invariant says that every snapshot returned or
  about to be is genuine, valid and not ahead of the checkpoint, that those of equal
  sequence have equal digests, and that a result in hand was valid at the time of its
  call. The first part is what makes the second inductive: `state.accept` compares with
  the checkpoint only, so everything known must lie behind it. All five properties of
  the run and the refinement of `Checkpoint` follow (`RevokedWithinADay` on the hypothesis
  `RevocationsAccumulate`); `RevokedWithinADay` and
  `ValidUntilIsExact` also need that `validUntil` is the least of three numbers and that
  a valid snapshot binds a key ID to one key.

* **`EnrollmentProofs`** (of `Enrollment`). As in the release tool, the lock is what makes
  local knowledge lasting: a run past `LoadLedger` holds the ledger as it is, with its
  time behind the clock and the merchant's key IDs compared with it (`RunsAgree`). What
  does *not* last are GitHub's reviews; instead `ReviewsGiven` says that every review a run
  holds was given, for the commit it names, by that login, and `approved` never
  shrinks. `LedgerSound` says that no entry holds a key ID it retires, which a replacement
  needs in order to keep the old retirements. `EntryWasApproved`,
  `AcceptedKidsAreForever` and the refinement of `ApprovalBook` follow.
* **`CheckoutProofs`** (of `Checkout`). `Known` says that what the page and its handlers
  hold between awaits came from a process that was started, `Relied` that once a
  registry was accepted every later one is of that process: all have sequence 1, so the
  checkpoint admits no other. From these follow that details are signed, current and
  of one issuer.
* **`EncodingProofs`** (of `Numerals`, `Base64url`, `StrictJson`, `JsonPrinter`). The provers cannot
  instantiate an induction rule that is stated with an operator. `Least` (every set of
  naturals has a least element) follows from the well-foundedness of `<`, and from it
  `Induction`, stated with a set: the naturals that have a property form a set with zero and
  every successor. With it, recursive functions are shown to exist and to satisfy their
  equations.
  - Numbers and base64url: numbers of concatenated digits, numbers that differ in a digit,
    powers of ten, the bits of bytes and characters. Bytes are read from one text only,
    because text and bytes have the same bits and the text that is written has no more of
    them than needed (`TextsAreCanonical`, `BytesHaveOneText`).
  - JSON: `TextsMeanWhatTheySay`. `ParserFacts` and `MeaningFacts` show that the parser and
    the reference satisfy their own equations: every call is for less of the text (`Size`),
    every part is made of smaller parts (`Extent`). The induction is over `Size`, and what it
    carries is `Right`: for *every* part that begins where the task begins, what the part
    means is what the task returns, if its result ends where the part ends, spaces apart; and
    a list never ends but with its own bracket. The second half is what makes the greedy
    parser and the reference, which tries every closing bracket and comma, agree: the bracket
    at which the parser stops is the only one at which the reference finds a meaning. One
    lemma per step of the parser follows (`BracketRight`, `LoopRight`, `ElementsRight`,
    `MembersRight`, `ValueRight`).
  - The printer: `ValuesSayTheirTexts`. It goes by the reference, which the parser was just
    shown to equal, because there every part has its two ends. Let P[n] be the plain text of the
    first n lexemes. By induction over `Extent`: whatever a part means, printing it is what
    P gains from the part's first lexeme to its last (`Says`), and it is a value the printer of
    that depth is defined on. An array or object adds its brackets (`BracketsSay`), a list its
    first item, a comma and the rest (`ListSays`), spaces nothing. For the whole text, P gains
    all of the plain text.
* **`DocumentProofs`** (of `Documents`). Eight properties, each first for every input there is
  and then, through the invariant `Typed`, for every input `Documents` reaches: JSON, its
  printing and base64url as above; amounts of any length are worth what their digits say, because padding
  and concatenation only move the power of ten (`AmountsAreExact`); an accepted URI lists
  exactly what the parser reports, because the positions of its items and the terms of the
  reference are in bijection, and reversing the items changes nothing
  (`NothingIsEverDropped`); verifiers take what signers issue and nothing else, because the
  size limits of both sides are the same function of the document, and a registration proof,
  which has no limit of its own when signed, is too short to reach the verifier's
  (`SignersAndVerifiersAgree`); evidence counts for the one request it was asked for
  (`EvidenceIsForOneRequest`); an accepted rotation approval is acceptable until it expires,
  and one refused once the approval and its key have begun is never accepted later
  (`AcceptedApprovalsLast`).

Assumptions, named in the modules: the lifetimes are naturals, payloads are as
`validation.js` admits them (`WellFormed`), an amount that is there is a sequence of digits,
punctuation is none of the JSON lexemes that are strings or scalars, `NoCommit` and the like
are no real values, a compact's bytes determine it, one digest belongs to one payload, the cron
period is shorter than the alert lead. `TrustPath` assumes of the wallet's inputs that genuine
compacts of one payload have one digest and, in `OnOffer`, that the roots' keys sign what the
release tool records and nothing else.

Model-checked only: liveness (`LockComesFree`, `InterruptedGetsPublished`, `ButtonsComeBack`),
which is outside the prover's reach, and the violations, which are counterexamples.

## Not modelled

* Field formats, list limits and error codes of `validation.js`: identifiers are model
  values that pass them. How strings, numbers and percent-encoded text are spelled, and
  UTF-8: outcomes are looked up (`Meaning`, `Texts`).
* Cryptography, TLS, GitHub permissions: outcomes are inputs. DNS is what a TXT lookup
  returns.
* The host's authorization, body limit, `HEAD`, `health` and archive reads: they refuse
  or only read. The registry ID and root trust changes of a deployed host.
* Power loss that undoes unsynced writes: `durableWrite` syncs; the ledger does not.
* Texts too long to be read: the limits of `strictJSON` on the ledger, merchant files and
  GitHub's answers in the approval tool, and of `parsePaymentUri` and `unb64` on their
  inputs. They only refuse. Where a limit decides something - the release tool's state,
  what is signed and must verify - it is in `Release` and `Jws`.
* A merchant directory read while the checkout moves: the records are read in one step,
  and a mixture of two commits is a tree of its own. Theorems hold for every `Tree`.
* A moment between the host's two writes of a publication: they are in one storage
  transaction. An empty and an absent label of a payment request are not told apart.
* What wallets do with a verified invoice (reservations, signing, broadcast): the
  library leaves it to them.
* `check-registry.mjs`, which applies the registry rules to the files of the repository
  and decides nothing the other parts rely on; the test-vector scripts; the portal, a
  static page. They keep no state, and a model of them would repeat `ValidRegistry`.

## Plan

Done: rules, policy, `SnapshotLog`, `Release`, `Checkpoint`, `PublicationHost`, `Wallet`,
`TrustPath`, `ApprovalBook`, `Enrollment`, `Checkout`, the pure modules, their runs and the
proofs above, which reach every safety property of every passing run.

What could follow: the time from a release to a wallet that *is* shown it, with the host and a
lossy mirror in between; changed trust (a raised `minimumSequence`, a new root) for host,
wallet and a release tool whose key changes.

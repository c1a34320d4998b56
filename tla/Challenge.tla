----------------------------- MODULE Challenge -----------------------------
(***************************************************************************)
(* How a merchant proves that it controls a key and a domain: the          *)
(* challenge an operator creates (src/scripts/create-challenge.mjs), the   *)
(* registration proof the merchant signs, verifyRegistrationProof          *)
(* (src/src/index.js), verifyEnrollment and verifyRotationAuthorization    *)
(* (src/scripts/lifecycle.mjs).  Everything about one registry.            *)
(*                                                                         *)
(* A file is a record with its bytes; a hash stands for exactly one file.  *)
(***************************************************************************)
EXTENDS Integers

CONSTANTS
  DayLength,    \* 86400: the longest proof lifetime
  Lead          \* 60: how far ahead of the clock an issue time may be

ASSUME ChallengeAssumption == DayLength \in Nat \ {0} /\ Lead \in Nat

\* keys[n]: public key, notBefore and expiresAt of each key ID the record lists.
File(owner, sites, keys, spelling) ==
  [id |-> owner, origins |-> sites, keys |-> keys, spelling |-> spelling]

\* create-challenge.mjs refuses an origin or key the record does not list.
Asks(file, origin, kid) == origin \in file.origins /\ kid \in DOMAIN file.keys

ChallengeEnvelope(proof, repository, revision) ==
  [repository |-> repository, sourceCommit |-> revision, proof |-> proof]

\* The proof an operator asks for at `now`, in its trusted envelope.
CreateChallenge(file, origin, kid, nonce, now, repository, revision) ==
  IF Asks(file, origin, kid)
  THEN {ChallengeEnvelope([merchantId |-> file.id, kid |-> kid, origin |-> origin,
                           recordSha256 |-> file, challenge |-> nonce,
                           issuedAt |-> now, expiresAt |-> now + DayLength],
                          repository, revision)}
  ELSE {}

\* What the merchant returns: the proof signed with `signer`, under the proof's key ID.
Signed(proof, signer) == [proof |-> proof, kid |-> proof.kid, signer |-> signer]

Matches(proof, file) == proof.recordSha256 = file /\ proof.merchantId = file.id

VerifyRegistrationProof(compact, file, expected, now) ==
  LET p == compact.proof
  IN  /\ compact.kid \in DOMAIN file.keys /\ compact.signer = file.keys[compact.kid].publicKey
      /\ p.issuedAt < p.expiresAt /\ p.expiresAt - p.issuedAt <= DayLength
      /\ p.issuedAt <= now + Lead /\ now < p.expiresAt
      /\ Matches(p, file) /\ p.kid = compact.kid
      /\ p.origin \in file.origins
      /\ p = expected

\* The TXT record of an origin's host, but for the registry and its wording.
Txt(proof) == [merchant |-> proof.merchantId, record |-> proof.recordSha256,
               challenge |-> proof.challenge]

\* Mutant: the record shown in DNS may be for another challenge.
InDnsAnyChallenge(proof, dns) ==
  \E t \in dns[proof.origin] : t.merchant = proof.merchantId /\ t.record = proof.recordSha256

InDns(proof, dns) == Txt(proof) \in dns[proof.origin]

\* verify-domain.mjs and approve-enrollment.mjs: the evidence, or nothing if it throws.
\* dns[o] are the TXT records of origin o.
VerifyEnrollment(file, compact, envelope, repository, revision, dns, now) ==
  IF /\ envelope.repository = repository /\ envelope.sourceCommit = revision
     /\ VerifyRegistrationProof(compact, file, envelope.proof, now)
     /\ InDns(compact.proof, dns)
  THEN {[merchantId |-> file.id, record |-> file, kid |-> compact.kid,
         origin |-> compact.proof.origin, verifiedAt |-> now,
         expiresAt |-> compact.proof.expiresAt]}
  ELSE {}

\* Mutant: an approval may outlive the key that gave it.
ApprovalCurrentLong(proof, key, now) == proof.issuedAt <= now /\ now < proof.expiresAt

\* No lead here: an approval from the future is refused, and it ends with its key.
ApprovalCurrent(proof, key, now) ==
  /\ proof.issuedAt <= now /\ now < proof.expiresAt /\ proof.expiresAt <= key.expiresAt

\* A key of the previous record signs the hash of the file that replaces it.
VerifyRotationAuthorization(previous, file, compact, expected, revokedKids, now) ==
  LET p == compact.proof
  IN  /\ compact.kid \in DOMAIN previous.keys \ revokedKids
      /\ LET key == previous.keys[compact.kid]
         IN  /\ key.notBefore <= now /\ now < key.expiresAt
             /\ compact.signer = key.publicKey
             /\ p.issuedAt < p.expiresAt /\ p.expiresAt - p.issuedAt <= DayLength
             /\ ApprovalCurrent(p, key, now)
      /\ file.id = previous.id /\ Matches(p, file) /\ p.kid = compact.kid
      /\ p.origin \in previous.origins
      /\ p = expected

-----------------------------------------------------------------------------
(* Properties of a request (file, origin, kid, challenge, time), of what    *)
(* the merchant answered and of what it published, each for some request.   *)

\* Evidence exists exactly if the merchant, with the key the file lists, signed and
\* published this very request, for the file at hand byte for byte and its commit, and not
\* longer ago than a day: nothing for another origin, key, file, commit or challenge counts
\* (index.js:67-81, lifecycle.mjs:19-27).
EvidenceIsForTheRequest(file, revision, asked, answered, signer, shown, now) ==
  \A e \in CreateChallenge(asked.file, asked.origin, asked.kid, asked.nonce, asked.at,
                           "zcash/registry", asked.revision) :
    VerifyEnrollment(file, Signed(answered, signer), e, "zcash/registry", revision,
                     [o \in {asked.origin, shown.origin} |->
                        IF o = shown.origin THEN {Txt(shown)} ELSE {}], now) # {}
      <=> /\ revision = asked.revision /\ file = asked.file
          /\ answered = e.proof /\ signer = file.keys[asked.kid].publicKey
          /\ Txt(shown) = Txt(e.proof) /\ shown.origin = asked.origin
          /\ now \in (asked.at - Lead)..(asked.at + DayLength - 1)

\* A rotation approval that is accepted stays acceptable until it expires and no longer: the
\* key that gave it does not run out underneath.  One that is refused although it and the key
\* have begun is never accepted, however often it is tried (lifecycle.mjs:60-62).
ApprovalLasts(previous, file, answered, signer, now, horizon) ==
  LET Accepted(t) ==
        VerifyRotationAuthorization(previous, file, Signed(answered, signer), answered, {}, t)
      begun == /\ answered.issuedAt <= now
               /\ \A k \in DOMAIN previous.keys : previous.keys[k].notBefore <= now
  IN  \A t \in now..horizon :
        /\ Accepted(now) => (Accepted(t) <=> t < answered.expiresAt)
        /\ (begun /\ ~Accepted(now)) => ~Accepted(t)
=============================================================================

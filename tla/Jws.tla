-------------------------------- MODULE Jws --------------------------------
(***************************************************************************)
(* Signed documents: decodeJws, verifyJws and signJws of src/src/jws.js,   *)
(* the signing API of src/src/server.js and what the three verifiers of    *)
(* src/src/index.js ask of a compact before they look at its content.      *)
(* Keys sign perfectly.  Sizes are bytes, and the numbers are the code's.  *)
(***************************************************************************)
EXTENDS Integers

Purposes == {"invoice", "registry", "registration"}

\* A payload is a record [shape, kid, body, size]: `shape` is the kind of document its
\* fields make it (validation.js), `kid` its key ID, of which the length matters here.

\* Key IDs have 1 to 64 characters.
KidLengths == 1..64

\* The longest registration proof: three names of 64 characters, an origin of 253, a hash of
\* 64, a challenge of 43 and two times of 16, with 124 characters of field names around them.
MaxProofSize == 708

\* What validation.js admits as a payload, as far as it matters here.
WellFormed(p) ==
  /\ p.shape \in Purposes /\ p.kid \in KidLengths /\ p.size \in Nat
  /\ p.shape = "registration" => p.size <= MaxProofSize

\* A compact: header and payload, and what was signed with which key.
Compact(header, payload, by, signed) ==
  [header |-> header, payload |-> payload, by |-> by, signed |-> signed]

-----------------------------------------------------------------------------
(* Sizes.                                                                   *)

MiB4 == 4194304
B64Length(n) == (4 * n + 2) \div 3

\* {"alg":"Ed25519","typ":"zcash-merchant-<purpose>+jws","kid":"<kid>"}
HeaderSize(h) == 35 + (CASE h.typ = "invoice" -> 26 [] h.typ = "registry" -> 27
                         [] h.typ = "registration" -> 31) + h.kid

\* Three parts, two dots, a signature of 64 bytes.
Length(c) == B64Length(HeaderSize(c.header)) + B64Length(c.payload.size) + 2 + B64Length(64)

-----------------------------------------------------------------------------
(* Signing.                                                                 *)

SignJws(payload, purpose, kid, key) ==
  IF payload.size > MiB4 THEN {}
  ELSE LET header == [typ |-> purpose, kid |-> kid]
       IN  {Compact(header, payload, key, <<header, payload>>)}

SignInvoice(payload, key) ==
  {c \in SignJws(payload, "invoice", payload.kid, key) :
     payload.shape = "invoice" /\ Length(c) <= 32768}

\* Mutant: the payload's size is compared, not the compact's.
SignRegistryBySize(payload, kid, key) ==
  {c \in SignJws(payload, "registry", kid, key) :
     payload.shape = "registry" /\ payload.size <= MiB4}

\* The release key's ID is the caller's, not in the payload.
SignRegistry(payload, kid, key) ==
  {c \in SignJws(payload, "registry", kid, key) :
     payload.shape = "registry" /\ Length(c) <= MiB4}

SignRegistrationProof(payload, key) ==
  {c \in SignJws(payload, "registration", payload.kid, key) : payload.shape = "registration"}

-----------------------------------------------------------------------------
(* Verifying.                                                               *)

DecodeJws(c, purpose, max) ==
  Length(c) <= max /\ HeaderSize(c.header) <= 512 /\ c.header.typ = purpose

\* The signing input is header and payload as they were transported.
VerifyJws(c, key) == c.by = key /\ c.signed = <<c.header, c.payload>>

\* What the three verifiers of index.js require; the key is the one the header's kid names
\* in the trust root or in the merchant's record.
VerifiesRegistry(c, key) ==
  DecodeJws(c, "registry", MiB4) /\ VerifyJws(c, key) /\ c.payload.shape = "registry"

\* The payload is parsed once more, with strictJSON's default limit.
VerifiesInvoice(c, key) ==
  /\ DecodeJws(c, "invoice", 32768) /\ c.payload.size <= 32768
  /\ c.payload.shape = "invoice" /\ c.header.kid = c.payload.kid /\ VerifyJws(c, key)

VerifiesProof(c, key) ==
  /\ DecodeJws(c, "registration", 32768) /\ VerifyJws(c, key)
  /\ c.payload.shape = "registration" /\ c.payload.kid = c.header.kid

Verifies(c, purpose, key) ==
  CASE purpose = "registry"     -> VerifiesRegistry(c, key)
    [] purpose = "invoice"      -> VerifiesInvoice(c, key)
    [] purpose = "registration" -> VerifiesProof(c, key)

\* What the API signs for that purpose with that key, given a registry key ID.
Signs(payload, purpose, kid, key) ==
  CASE purpose = "registry"     -> SignRegistry(payload, kid, key)
    [] purpose = "invoice"      -> SignInvoice(payload, key)
    [] purpose = "registration" -> SignRegistrationProof(payload, key)

-----------------------------------------------------------------------------

\* A verifier takes a compact with a key exactly if the signing API returned it for that
\* purpose from that key: what a signer may issue, however large, no verifier's limit
\* refuses, and no header, payload or signature of another document passes with it
\* (server.js:14,19; index.js:25,37,72; jws.js:4-13).
VerifiesWhatWasSigned(c, key) ==
  \A purpose \in Purposes :
    Verifies(c, purpose, key) <=> c \in Signs(c.payload, purpose, c.header.kid, key)
=============================================================================

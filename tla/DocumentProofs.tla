--------------------------- MODULE DocumentProofs ---------------------------
(***************************************************************************)
(* Proofs about the pure parts: JSON texts, base64url texts and amounts of *)
(* any length, URIs with any number of parameters, compacts of any size,   *)
(* any request, file, challenge and clock.                                 *)
(***************************************************************************)
EXTENDS Documents, EncodingProofs, FiniteSetTheorems

-----------------------------------------------------------------------------
(* Signed documents.                                                        *)

\* Base64url is longer than what it encodes, and by a third at most.
LEMMA B64LengthBounds ==
  ASSUME NEW n \in Nat
  PROVE  B64Length(n) \in Nat /\ n <= B64Length(n) /\ 3 * B64Length(n) <= 4 * n + 2
BY DEF B64Length

\* No header of a key ID that fits is too large.
LEMMA HeadersFit ==
  ASSUME NEW h, h.typ \in Purposes, h.kid \in KidLengths
  PROVE  HeaderSize(h) \in 62..130
BY DEF HeaderSize, Purposes, KidLengths

\* A compact is longer than its payload, and a registration proof always fits.
LEMMA LengthBounds ==
  ASSUME NEW c, c.header.typ \in Purposes, c.header.kid \in KidLengths, WellFormed(c.payload)
  PROVE  /\ Length(c) \in Nat /\ c.payload.size <= Length(c)
         /\ c.payload.shape = "registration" => Length(c) <= 32768
<1> DEFINE size == c.payload.size
           head == HeaderSize(c.header)
<1>1. size \in Nat /\ (c.payload.shape = "registration" => size <= 708)
  BY DEF WellFormed, MaxProofSize
<1>2. head \in 62..130
  BY HeadersFit
<1>3. B64Length(64) = 86
  BY DEF B64Length
<1>4. Length(c) = B64Length(head) + B64Length(size) + 2 + 86
  BY <1>3 DEF Length
<1> HIDE DEF size, head
<1>5. B64Length(size) \in Nat /\ size <= B64Length(size) /\ 3 * B64Length(size) <= 4 * size + 2
  BY <1>1, B64LengthBounds
<1>6. B64Length(head) \in Nat /\ 3 * B64Length(head) <= 4 * head + 2
  BY <1>2, B64LengthBounds
<1> QED
  BY <1>1, <1>2, <1>4, <1>5, <1>6 DEF size

\* A compact that the signing API returns, part by part.
LEMMA SignedParts ==
  ASSUME NEW h \in [typ : Purposes, kid : KidLengths], NEW p, WellFormed(p), NEW by, NEW signed,
         NEW purpose \in Purposes, NEW key
  PROVE  Compact(h, p, by, signed) \in SignJws(p, purpose, h.kid, key)
           <=> /\ p.size <= MiB4 /\ h.typ = purpose /\ by = key /\ signed = <<h, p>>
<1> DEFINE header == [typ |-> purpose, kid |-> h.kid]
<1>1. header = h <=> h.typ = purpose
  OBVIOUS
<1>2. Compact(h, p, by, signed) = Compact(header, p, key, <<header, p>>)
        <=> h = header /\ by = key /\ signed = <<header, p>>
  BY DEF Compact
<1>3. p.size \in Nat
  BY DEF WellFormed
<1> QED
  BY <1>1, <1>2, <1>3 DEF SignJws, MiB4

\* Every header, payload, key and signed text: whatever the verifiers take with a key, the
\* signing API returned, and whatever it returns the verifiers take (server.js:7-21;
\* index.js:25,37,72; jws.js:3-29).
THEOREM SignersAndVerifiersAgree ==
  ASSUME NEW h \in [typ : Purposes, kid : KidLengths], NEW p, WellFormed(p), NEW by, NEW signed,
         NEW key
  PROVE  VerifiesWhatWasSigned(Compact(h, p, by, signed), key)
<1> DEFINE c == Compact(h, p, by, signed)
<1>1. c.header = h /\ c.payload = p /\ c.by = by /\ c.signed = signed
  BY DEF Compact
<1>2. h.typ \in Purposes /\ h.kid \in KidLengths
  OBVIOUS
<1> HIDE DEF c
<1>3. /\ Length(c) \in Nat /\ p.size \in Nat /\ p.size <= Length(c)
      /\ p.shape = "registration" => Length(c) <= 32768
  BY <1>1, <1>2, LengthBounds DEF WellFormed
<1>4. HeaderSize(h) <= 512
  BY <1>2, HeadersFit
<1>5. \A purpose \in Purposes :
        c \in SignJws(p, purpose, h.kid, key)
          <=> p.size <= MiB4 /\ h.typ = purpose /\ by = key /\ signed = <<h, p>>
  BY SignedParts DEF c
<1>6. VerifiesRegistry(c, key) <=> c \in SignRegistry(p, h.kid, key)
  <2>1. VerifiesRegistry(c, key)
          <=> /\ Length(c) <= MiB4 /\ h.typ = "registry" /\ by = key /\ signed = <<h, p>>
              /\ p.shape = "registry"
    BY <1>1, <1>4 DEF VerifiesRegistry, DecodeJws, VerifyJws
  <2> QED
    BY <1>3, <1>5, <2>1 DEF SignRegistry, Purposes, MiB4
<1>7. VerifiesInvoice(c, key) <=> c \in SignInvoice(p, key)
  <2>1. VerifiesInvoice(c, key)
          <=> /\ Length(c) <= 32768 /\ p.size <= 32768 /\ h.typ = "invoice" /\ by = key
              /\ signed = <<h, p>> /\ p.shape = "invoice" /\ h.kid = p.kid
    BY <1>1, <1>4 DEF VerifiesInvoice, DecodeJws, VerifyJws
  <2>2. c \in SignJws(p, "invoice", p.kid, key)
          <=> /\ p.size <= MiB4 /\ h.typ = "invoice" /\ by = key /\ signed = <<h, p>>
              /\ h.kid = p.kid
    <3>1. CASE h.kid = p.kid
      BY <1>5, <3>1 DEF Purposes
    <3>2. CASE h.kid # p.kid
      BY <1>1, <3>2 DEF SignJws, Compact
    <3> QED
      BY <3>1, <3>2
  <2> QED
    BY <1>3, <2>1, <2>2 DEF SignInvoice, MiB4
<1>8. VerifiesProof(c, key) <=> c \in SignRegistrationProof(p, key)
  <2>1. VerifiesProof(c, key)
          <=> /\ Length(c) <= 32768 /\ h.typ = "registration" /\ by = key
              /\ signed = <<h, p>> /\ p.shape = "registration" /\ p.kid = h.kid
    BY <1>1, <1>4 DEF VerifiesProof, DecodeJws, VerifyJws
  <2>2. c \in SignJws(p, "registration", p.kid, key)
          <=> /\ p.size <= MiB4 /\ h.typ = "registration" /\ by = key /\ signed = <<h, p>>
              /\ h.kid = p.kid
    <3>1. CASE h.kid = p.kid
      BY <1>5, <3>1 DEF Purposes
    <3>2. CASE h.kid # p.kid
      BY <1>1, <3>2 DEF SignJws, Compact
    <3> QED
      BY <3>1, <3>2
  <2> QED
    BY <1>3, <2>1, <2>2 DEF SignRegistrationProof, MiB4
<1>9. ASSUME NEW purpose \in Purposes
      PROVE  Verifies(c, purpose, key) <=> c \in Signs(c.payload, purpose, c.header.kid, key)
  <2>1. CASE purpose = "registry"
    BY <1>1, <1>6, <2>1 DEF Verifies, Signs
  <2>2. CASE purpose = "invoice"
    BY <1>1, <1>7, <2>2 DEF Verifies, Signs
  <2>3. CASE purpose = "registration"
    BY <1>1, <1>8, <2>3 DEF Verifies, Signs
  <2> QED
    BY <2>1, <2>2, <2>3 DEF Purposes
<1> QED
  BY <1>9 DEF VerifiesWhatWasSigned, c

-----------------------------------------------------------------------------
(* Evidence of control.                                                     *)

\* For every file, request, answer, publication and clock: evidence is exactly for the
\* request the operator made (index.js:67-81, lifecycle.mjs:19-28).
THEOREM EvidenceIsForOneRequest ==
  ASSUME NEW file, NEW revision, NEW asked, asked.at \in Int, NEW answered, NEW signer,
         NEW shown, NEW now \in Int
  PROVE  EvidenceIsForTheRequest(file, revision, asked, answered, signer, shown, now)
<1> DEFINE made == CreateChallenge(asked.file, asked.origin, asked.kid, asked.nonce, asked.at,
                                   "zcash/registry", asked.revision)
           dns  == [o \in {asked.origin, shown.origin} |->
                      IF o = shown.origin THEN {Txt(shown)} ELSE {}]
           compact == Signed(answered, signer)
<1> SUFFICES ASSUME NEW e \in made
             PROVE  VerifyEnrollment(file, compact, e, "zcash/registry", revision, dns, now) # {}
                      <=> /\ revision = asked.revision /\ file = asked.file
                          /\ answered = e.proof /\ signer = file.keys[asked.kid].publicKey
                          /\ Txt(shown) = Txt(e.proof) /\ shown.origin = asked.origin
                          /\ now \in (asked.at - Lead)..(asked.at + DayLength - 1)
  BY DEF EvidenceIsForTheRequest
<1>1. /\ asked.origin \in asked.file.origins /\ asked.kid \in DOMAIN asked.file.keys
      /\ e.repository = "zcash/registry" /\ e.sourceCommit = asked.revision
      /\ e.proof.merchantId = asked.file.id /\ e.proof.kid = asked.kid
      /\ e.proof.origin = asked.origin /\ e.proof.recordSha256 = asked.file
      /\ e.proof.issuedAt = asked.at /\ e.proof.expiresAt = asked.at + DayLength
  BY DEF CreateChallenge, Asks, ChallengeEnvelope
<1>2. compact.proof = answered /\ compact.kid = answered.kid /\ compact.signer = signer
  BY DEF Signed
<1>3. VerifyEnrollment(file, compact, e, "zcash/registry", revision, dns, now) # {}
        <=> /\ revision = asked.revision
            /\ VerifyRegistrationProof(compact, file, e.proof, now) /\ InDns(answered, dns)
  BY <1>1, <1>2 DEF VerifyEnrollment
<1> HIDE DEF made, compact
<1>4. VerifyRegistrationProof(compact, file, e.proof, now)
        <=> /\ file = asked.file /\ answered = e.proof
            /\ signer = file.keys[asked.kid].publicKey
            /\ asked.at <= now + Lead /\ now < asked.at + DayLength
  <2>1. ASSUME VerifyRegistrationProof(compact, file, e.proof, now)
        PROVE  /\ file = asked.file /\ answered = e.proof
               /\ signer = file.keys[asked.kid].publicKey
               /\ asked.at <= now + Lead /\ now < asked.at + DayLength
    BY <1>1, <1>2, <2>1 DEF VerifyRegistrationProof, Matches
  <2>2. ASSUME file = asked.file, answered = e.proof, signer = file.keys[asked.kid].publicKey,
               asked.at <= now + Lead, now < asked.at + DayLength
        PROVE  VerifyRegistrationProof(compact, file, e.proof, now)
    <3>1. asked.at < asked.at + DayLength /\ (asked.at + DayLength) - asked.at <= DayLength
      BY ChallengeAssumption
    <3> QED
      BY <1>1, <1>2, <2>2, <3>1 DEF VerifyRegistrationProof, Matches
  <2> QED
    BY <2>1, <2>2
<1>5. ASSUME answered = e.proof
      PROVE  InDns(answered, dns) <=> Txt(shown) = Txt(e.proof) /\ shown.origin = asked.origin
  <2>1. answered.origin = asked.origin
    BY <1>1, <1>5
  <2>2. CASE shown.origin = asked.origin
    BY <1>5, <2>1, <2>2 DEF InDns
  <2>3. CASE shown.origin # asked.origin
    BY <1>5, <2>1, <2>3 DEF InDns
  <2> QED
    BY <2>2, <2>3
<1>6. asked.at <= now + Lead /\ now < asked.at + DayLength
        <=> now \in (asked.at - Lead)..(asked.at + DayLength - 1)
  BY ChallengeAssumption
<1> HIDE DEF dns
<1> QED
  BY <1>3, <1>4, <1>5, <1>6

\* A rotation approval that was accepted is acceptable until it expires, whenever it is looked
\* at again; one that was refused after it and the keys had begun stays refused
\* (lifecycle.mjs:55-66).
THEOREM AcceptedApprovalsLast ==
  ASSUME NEW previous, NEW file, NEW answered, NEW signer, NEW now \in Int, NEW horizon \in Int,
         answered.issuedAt \in Int, answered.expiresAt \in Int,
         \A k \in DOMAIN previous.keys :
           previous.keys[k].notBefore \in Int /\ previous.keys[k].expiresAt \in Int
  PROVE  ApprovalLasts(previous, file, answered, signer, now, horizon)
<1> DEFINE compact == Signed(answered, signer)
           Accepted(t) == VerifyRotationAuthorization(previous, file, compact, answered, {}, t)
           key == previous.keys[compact.kid]
<1>1. compact.proof = answered /\ compact.kid = answered.kid
  BY DEF Signed
<1>2. SUFFICES ASSUME NEW t \in now..horizon
               PROVE  /\ Accepted(now) => (Accepted(t) <=> t < answered.expiresAt)
                      /\ (/\ answered.issuedAt <= now
                          /\ \A k \in DOMAIN previous.keys : previous.keys[k].notBefore <= now
                          /\ ~Accepted(now)) => ~Accepted(t)
  BY DEF ApprovalLasts
<1> HIDE DEF compact
<1>3. ASSUME NEW s, Accepted(s)
      PROVE  /\ compact.kid \in DOMAIN previous.keys /\ key.notBefore <= s
             /\ answered.issuedAt <= s /\ s < answered.expiresAt
             /\ answered.expiresAt <= key.expiresAt
             /\ key.notBefore \in Int /\ key.expiresAt \in Int
  BY <1>1, <1>3 DEF VerifyRotationAuthorization, ApprovalCurrent
\* Two times at which approval and key are current are judged alike.
<1>4. ASSUME NEW s \in Int, NEW u \in Int, Accepted(s), u < answered.expiresAt,
             key.notBefore <= u, answered.issuedAt <= u
      PROVE  Accepted(u)
  <2>1. u < key.expiresAt
    BY <1>3, <1>4
  <2> QED
    BY <1>1, <1>4, <2>1 DEF VerifyRotationAuthorization, ApprovalCurrent
<1>5. t \in Int /\ now <= t
  OBVIOUS
<1> HIDE DEF Accepted, key
<1>6. ASSUME Accepted(now) PROVE Accepted(t) <=> t < answered.expiresAt
  <2>1. key.notBefore <= t /\ answered.issuedAt <= t
    BY <1>3, <1>5, <1>6
  <2> QED
    BY <1>3, <1>4, <1>5, <1>6, <2>1
<1>7. ASSUME answered.issuedAt <= now, ~Accepted(now), Accepted(t),
             \A k \in DOMAIN previous.keys : previous.keys[k].notBefore <= now
      PROVE  FALSE
  <2>1. key.notBefore <= now /\ now < answered.expiresAt
    BY <1>3, <1>5, <1>7 DEF key
  <2> QED
    BY <1>4, <1>5, <1>7, <2>1
<1> QED
  BY <1>6, <1>7
-----------------------------------------------------------------------------
(* Amounts.                                                                 *)

\* FirstDot finds the first dot there is.
LEMMA FirstDotFacts ==
  ASSUME NEW s \in Seq(Nat), Dot \in Range(s)
  PROVE  /\ FirstDot(s) \in 1..Len(s) /\ s[FirstDot(s)] = Dot
         /\ \A n \in 1..(FirstDot(s) - 1) : s[n] # Dot
<1> DEFINE I == {i \in 1..Len(s) : s[i] = Dot}
<1>1. I # {} /\ I \subseteq Nat
  BY DEF Range
<1>2. PICK n \in I : \A k \in I : n <= k
  BY <1>1, Least
<1>3. FirstDot(s) = Min(I)
  BY <1>1 DEF FirstDot, SelectInSeq
<1>4. Min(I) \in I /\ \A k \in I : Min(I) <= k
  <2> HIDE DEF I
  <2> QED
    BY <1>2 DEF Min
<1>5. Min(I) \in 1..Len(s) /\ s[Min(I)] = Dot
  BY <1>4
<1>6. ASSUME NEW j \in 1..(Min(I) - 1), s[j] = Dot PROVE FALSE
  <2>1. j \in I /\ j < Min(I)
    BY <1>5, <1>6
  <2> QED
    BY <1>1, <1>4, <2>1
<1> HIDE DEF I
<1> QED
  BY <1>3, <1>5, <1>6

\* What an amount is worth, written with its dot and without it.
LEMMA Scaled ==
  ASSUME NEW w \in Seq(Nat), NEW f \in Seq(Nat), Len(f) <= Decimals
  PROVE  Number(10, w) * TenTo(Decimals) + Number(10, PadEnd(f))
           = Number(10, w \o f) * TenTo(Decimals - Len(f))
<1> DEFINE q == Len(f)
           r == Decimals - q
<1>1. q \in Nat /\ r \in Nat /\ Decimals = q + r
  BY UriAssumption
<1> HIDE DEF q, r
<1>2. PadEnd(f) = f \o Zeros(r) /\ Zeros(r) \in Seq(Nat) /\ Len(Zeros(r)) = r
  BY <1>1, ZerosFacts DEF PadEnd, q, r
<1>3. Number(10, PadEnd(f)) = Number(10, f) * TenTo(r) + 0
  BY <1>1, <1>2, NumberConcat, NumberZeros
<1>4. Number(10, w \o f) = Number(10, w) * TenTo(q) + Number(10, f)
  BY NumberConcat DEF q
<1>5. TenTo(Decimals) = TenTo(q) * TenTo(r)
  BY <1>1, TenToSum
<1>6. Number(10, w) \in Nat /\ Number(10, f) \in Nat /\ TenTo(q) \in Nat /\ TenTo(r) \in Nat
  BY <1>1, NumberFacts, TenToFacts
<1>7. \A a, b, t, u \in Nat : a * (t * u) + (b * u + 0) = (a * t + b) * u
  OBVIOUS
<1>8. Number(10, w) * (TenTo(q) * TenTo(r)) + (Number(10, f) * TenTo(r) + 0)
        = (Number(10, w) * TenTo(q) + Number(10, f)) * TenTo(r)
  BY <1>6, <1>7
<1> QED
  BY <1>3, <1>4, <1>5, <1>8 DEF q, r

\* The digits of every text, whatever their number, before and behind its dot
\* (zip321.js:30-33).
THEOREM AmountsAreExact ==
  ASSUME NEW s \in Seq(Nat)
  PROVE  AmountIsExact(s)
<1>1. CASE Dot \in Range(s)
  <2> DEFINE p == FirstDot(s)
             w == SubSeq(s, 1, p - 1)
             f == SubSeq(s, p + 1, Len(s))
             worth == Number(10, w \o f) * TenTo(Decimals - Len(f))
  <2>1. p \in 1..Len(s) /\ s[p] = Dot /\ \A n \in 1..(p - 1) : s[n] # Dot
    BY <1>1, FirstDotFacts
  <2>2. WholePart(s) = w /\ Fraction(s) = f /\ RemoveAt(s, p) = w \o f
    BY <1>1 DEF WholePart, Fraction, RemoveAt
  <2> HIDE DEF p
  <2>3. /\ w \in Seq(Nat) /\ f \in Seq(Nat) /\ Len(w) = p - 1 /\ Len(f) = Len(s) - p
        /\ \A n \in 1..Len(f) : f[n] = s[p + n]
    <3>1. /\ 1 \in Int /\ p - 1 \in Int /\ p + 1 \in Int /\ Len(s) \in Int
          /\ \A i \in 1..p - 1 : s[i] \in Nat
          /\ \A i \in p + 1..Len(s) : s[i] \in Nat
      BY <2>1
    <3>2. w \in Seq(Nat) /\ Len(w) = IF 1 <= p - 1 THEN (p - 1) - 1 + 1 ELSE 0
      BY <3>1, SubSeqProperties
    <3>3. /\ f \in Seq(Nat) /\ Len(f) = IF p + 1 <= Len(s) THEN Len(s) - (p + 1) + 1 ELSE 0
          /\ \A n \in 1..Len(s) - (p + 1) + 1 : f[n] = s[p + 1 + n - 1]
      BY <3>1, SubSeqProperties
    <3> HIDE DEF w, f
    <3>4. Len(w) = p - 1 /\ Len(f) = Len(s) - p
      BY <2>1, <3>2, <3>3
    <3>5. ASSUME NEW n \in 1..Len(f) PROVE f[n] = s[p + n]
      <4>1. n \in 1..Len(s) - (p + 1) + 1 /\ p + 1 + n - 1 = p + n
        BY <2>1, <3>4
      <4> QED
        BY <3>3, <4>1
    <3> QED
      BY <3>2, <3>3, <3>4, <3>5
  <2>4. Range(w \o f) = Range(w) \cup Range(f)
    <3> HIDE DEF w, f
    <3> QED
      BY <2>3, RangeConcatenation
  <2>5. s # <<>> /\ (s[1] # Dot <=> w # <<>>)
    BY <2>1, <2>3
  <2>6. Range(f) \subseteq 0..9 => (s[Len(s)] # Dot <=> Len(f) >= 1)
    <3>1. CASE p = Len(s)
      BY <2>1, <2>3, <3>1
    <3>2. CASE p < Len(s)
      <4> HIDE DEF f
      <4>1. Len(f) \in 1..Len(f) /\ Len(f) >= 1 /\ DOMAIN f = 1..Len(f) /\ p + Len(f) = Len(s)
        BY <2>1, <2>3, <3>2
      <4>2. f[Len(f)] = s[Len(s)]
        BY <2>3, <4>1
      <4>3. f[Len(f)] \in Range(f)
        BY <4>1 DEF Range
      <4>4. Dot \notin 0..9
        BY DEF Dot
      <4> QED
        BY <4>1, <4>2, <4>3, <4>4
    <3> QED
      BY <2>1, <3>1, <3>2
  <2>7. Len(f) <= Decimals => Zatoshis(s) = worth
    BY <2>2, <2>3, Scaled DEF Zatoshis
  <2>8. ValidAmount(s)
          <=> /\ Len(s) <= MaxAmountLength /\ w # <<>> /\ Range(w) \cup Range(f) \subseteq 0..9
              /\ Len(f) \in 1..Decimals /\ Zatoshis(s) \in 1..MaxMoney
    BY <1>1, <2>2 DEF ValidAmount
  <2>9. Decimals \in Nat /\ Len(f) \in Nat
    BY <2>3, UriAssumption
  <2>10. AmountIsExact(s)
           <=> /\ ValidAmount(s)
                    <=> /\ Range(w \o f) \subseteq 0..9 /\ Len(f) <= Decimals
                        /\ Len(s) <= MaxAmountLength /\ s # <<>> /\ s[1] # Dot
                        /\ s[Len(s)] # Dot /\ worth \in 1..MaxMoney
               /\ ValidAmount(s) => Zatoshis(s) = worth
    BY <1>1, <2>2, <2>3, Zenon DEF AmountIsExact, p
  <2> HIDE DEF w, f, worth
  <2> QED
    BY <2>4, <2>5, <2>6, <2>7, <2>8, <2>9, <2>10
<1>2. CASE Dot \notin Range(s)
  <2> DEFINE worth == Number(10, s) * TenTo(Decimals - 0)
  <2>1. WholePart(s) = s /\ Fraction(s) = <<>>
    BY <1>2 DEF WholePart, Fraction
  <2>2. Zatoshis(s) = worth
    <3>1. <<>> \in Seq(Nat) /\ Len(<<>>) = 0 /\ s \o <<>> = s /\ 0 <= Decimals
      BY UriAssumption
    <3>2. Number(10, s) * TenTo(Decimals) + Number(10, PadEnd(<<>>))
            = Number(10, s \o <<>>) * TenTo(Decimals - Len(<<>>))
      BY <3>1, Scaled
    <3> QED
      BY <2>1, <3>1, <3>2, Zenon DEF Zatoshis
  <2>3. s # <<>> => s[1] # Dot /\ s[Len(s)] # Dot
    BY <1>2 DEF Range
  <2>4. ValidAmount(s)
          <=> /\ Len(s) <= MaxAmountLength /\ s # <<>> /\ Range(s) \subseteq 0..9
              /\ Zatoshis(s) \in 1..MaxMoney
    <3>1. Range(<<>>) = {}
      BY DEF Range
    <3> QED
      BY <1>2, <2>1, <3>1 DEF ValidAmount
  <2>5. 0 <= Decimals
    BY UriAssumption
  <2>6. AmountIsExact(s)
          <=> /\ ValidAmount(s)
                   <=> /\ Range(s) \subseteq 0..9 /\ 0 <= Decimals /\ Len(s) <= MaxAmountLength
                       /\ s # <<>> /\ s[1] # Dot /\ s[Len(s)] # Dot /\ worth \in 1..MaxMoney
              /\ ValidAmount(s) => Zatoshis(s) = worth
    BY <1>2, Zenon DEF AmountIsExact
  <2> HIDE DEF worth
  <2> QED
    BY <2>2, <2>3, <2>4, <2>5, <2>6
<1> QED
  BY <1>1, <1>2
-----------------------------------------------------------------------------
(* Payment URIs.                                                            *)

\* The value of a parameter that is given once.
LEMMA ParamIsItem ==
  ASSUME NEW items, Allowed(items), NEW n \in DOMAIN items
  PROVE  Has(items, items[n][1]) /\ Param(items, items[n][1]) = items[n][2]
<1> DEFINE k == CHOOSE j \in DOMAIN items : items[j][1] = items[n][1]
<1>1. k \in DOMAIN items /\ items[k][1] = items[n][1]
  OBVIOUS
<1> HIDE DEF k
<1>2. k = n
  BY <1>1 DEF Allowed
<1>3. Has(items, items[n][1])
  BY DEF Has
<1> QED
  BY <1>2, <1>3 DEF Param, k

\* Parameters that are all different are found in any order.
LEMMA ReversedItems ==
  ASSUME NEW V, NEW items \in Seq(V)
  PROVE  /\ \A name : Has(Reverse(items), name) <=> Has(items, name)
         /\ Allowed(Reverse(items)) <=> Allowed(items)
         /\ Allowed(items) => \A name : Param(Reverse(items), name) = Param(items, name)
<1> DEFINE r == Reverse(items)
           D == 1..Len(items)
           At(n) == Len(items) - n + 1
<1>1. DOMAIN items = D /\ DOMAIN r = D /\ \A n \in D : At(n) \in D /\ At(At(n)) = n
  BY DEF Reverse
<1>2. \A n \in D : r[n] = items[At(n)]
  BY DEF Reverse
<1>3. \A n \in D : items[n] = r[At(n)]
  BY <1>1, <1>2
<1>4. \A n, k \in D : At(n) = At(k) => n = k
  OBVIOUS
<1> HIDE DEF r, D, At
<1>5. ASSUME NEW name PROVE Has(r, name) <=> Has(items, name)
  BY <1>1, <1>2, <1>3 DEF Has
<1>6. Allowed(r) <=> Allowed(items)
  <2>1. ASSUME Allowed(items) PROVE Allowed(r)
    BY <1>1, <1>2, <1>4, <2>1 DEF Allowed
  <2>2. ASSUME Allowed(r) PROVE Allowed(items)
    BY <1>1, <1>3, <1>4, <2>2 DEF Allowed
  <2> QED
    BY <2>1, <2>2
<1>7. ASSUME Allowed(items), NEW name PROVE Param(r, name) = Param(items, name)
  <2>1. CASE Has(items, name)
    <3>1. PICK n \in D : items[n][1] = name
      BY <1>1, <2>1 DEF Has
    <3>2. At(n) \in D /\ r[At(n)] = items[n]
      BY <1>1, <1>3
    <3>3. Param(items, items[n][1]) = items[n][2]
      BY <1>1, <1>7, ParamIsItem
    <3>4. Param(r, r[At(n)][1]) = r[At(n)][2]
      BY <1>1, <1>6, <1>7, <3>2, ParamIsItem
    <3> QED
      BY <3>1, <3>2, <3>3, <3>4
  <2>2. CASE ~Has(items, name)
    BY <1>5, <2>2 DEF Param
  <2> QED
    BY <2>1, <2>2
<1> QED
  BY <1>5, <1>6, <1>7 DEF r

\* As many terms as the URI states.
LEMMA TermsAreSaid ==
  ASSUME NEW V, NEW items \in Seq(V), NEW path, NEW network,
         \A n \in DOMAIN items : items[n][1] = "amount" => items[n][2] # Nothing,
         Payable([path |-> path, items |-> items], network),
         NEW t \in ParsePaymentUri([path |-> path, items |-> items], network)
  PROVE  Terms(t) = Said([path |-> path, items |-> items])
<1> DEFINE uri   == [path |-> path, items |-> items]
           S     == {n \in DOMAIN items : items[n][2] # Nothing}
           T     == {f \in ParamNames : t[f] # Nothing}
           Q     == IF path # Nothing THEN T \ {"address"} ELSE T
           names == [n \in S |-> items[n][1]]
<1>1. uri.path = path /\ uri.items = items
  OBVIOUS
<1>2. /\ t = [address |-> AddressOf(uri), amount |-> Zatoshis(Param(items, "amount")),
              memo |-> Param(items, "memo"), label |-> Param(items, "label"),
              message |-> Param(items, "message")]
      /\ DOMAIN t = ParamNames
  BY DEF ParsePaymentUri, ParamNames
<1>3. /\ Allowed(items) /\ AddressOf(uri) \in Addresses
      /\ path # Nothing => ~Has(items, "address")
      /\ Has(items, "amount") /\ Zatoshis(Param(items, "amount")) \in 1..MaxMoney
  BY <1>1 DEF Payable, ValidAmount
<1>4. Terms(t) = Cardinality(T)
  BY <1>2 DEF Terms
<1>5. Said(uri) = Cardinality(S) + (IF path # Nothing THEN 1 ELSE 0)
  BY <1>1 DEF Said
<1>6. t["address"] # Nothing /\ t["amount"] # Nothing
  <2>1. Zatoshis(Param(items, "amount")) \in Nat
    BY <1>3, UriAssumption
  <2> QED
    BY <1>2, <1>3, <2>1, UriAssumption
<1>7. ASSUME NEW f \in ParamNames, f = "address" => path = Nothing
      PROVE  t[f] = Nothing <=> Param(items, f) = Nothing
  <2>1. CASE f = "address"
    BY <1>1, <1>2, <1>7, <2>1 DEF AddressOf
  <2>2. CASE f = "amount"
    <3>1. PICK n \in DOMAIN items : items[n][1] = "amount"
      BY <1>3 DEF Has
    <3>2. Param(items, "amount") # Nothing
      BY <1>3, <3>1, ParamIsItem
    <3> QED
      BY <1>6, <2>2, <3>2
  <2>3. CASE f \in {"memo", "label", "message"}
    BY <1>2, <2>3
  <2> QED
    BY <2>1, <2>2, <2>3 DEF ParamNames
<1> HIDE DEF uri
<1>8. ASSUME NEW n \in DOMAIN items
      PROVE  /\ items[n][1] \in ParamNames /\ items[n][1] = "address" => path = Nothing
             /\ n \in S <=> items[n][1] \in Q
  <2>1. items[n][1] \in ParamNames
    BY <1>3 DEF Allowed
  <2>2. Has(items, items[n][1]) /\ Param(items, items[n][1]) = items[n][2]
    BY <1>3, ParamIsItem
  <2>3. items[n][1] = "address" => path = Nothing
    BY <1>3, <2>2
  <2>4. t[items[n][1]] = Nothing <=> items[n][2] = Nothing
    BY <1>7, <2>1, <2>2, <2>3
  <2> QED
    BY <2>1, <2>3, <2>4
<1>9. ASSUME NEW f \in Q PROVE \E n \in S : items[n][1] = f
  <2>1. f \in ParamNames /\ t[f] # Nothing /\ (f = "address" => path = Nothing)
    OBVIOUS
  <2>2. Param(items, f) # Nothing
    BY <1>7, <2>1
  <2>3. Has(items, f)
    BY <2>2 DEF Param
  <2> QED
    BY <1>8, <2>3 DEF Has
<1>10. names \in Bijection(S, Q)
  <2>1. names \in [S -> Q]
    BY <1>8
  <2>2. \A n, k \in S : names[n] = names[k] => n = k
    BY <1>3 DEF Allowed
  <2>3. \A f \in Q : \E n \in S : names[n] = f
    BY <1>9
  <2> HIDE DEF S, Q, names
  <2> QED
    BY <2>1, <2>2, <2>3 DEF Bijection, Injection, Surjection, IsInjective
<1>11. IsFiniteSet(S)
  <2>1. S \in SUBSET (1..Len(items))
    OBVIOUS
  <2>2. 1 \in Int /\ Len(items) \in Int
    OBVIOUS
  <2>3. IsFiniteSet(1..Len(items))
    BY <2>2, FS_Interval
  <2> QED
    BY <2>1, <2>3, FS_Subset
<1>12. IsFiniteSet(Q) /\ Cardinality(Q) = Cardinality(S)
  BY <1>10, <1>11, FS_Bijection DEF ExistsBijection
<1>13. CASE path = Nothing
  <2>1. Cardinality(S) \in Nat
    BY <1>11, FS_CardinalityType
  <2> QED
    BY <1>4, <1>5, <1>12, <1>13, <2>1 DEF uri
<1>14. CASE path # Nothing
  <2>1. T = Q \cup {"address"} /\ "address" \notin Q
    BY <1>6, <1>14 DEF ParamNames
  <2>2. Cardinality(T) = Cardinality(Q) + 1
    BY <1>12, <2>1, FS_AddElement
  <2> QED
    BY <1>4, <1>5, <1>12, <1>14, <2>2 DEF uri
<1> QED
  BY <1>13, <1>14

\* Every path, any number of parameters in any order (zip321.js:11-41).
THEOREM NothingIsEverDropped ==
  ASSUME NEW V, NEW items \in Seq(V), NEW path, NEW network,
         \A n \in DOMAIN items : items[n][1] = "amount" => items[n][2] # Nothing
  PROVE  NothingIsDropped([path |-> path, items |-> items], network)
<1> DEFINE uri  == [path |-> path, items |-> items]
           back == [path |-> path, items |-> Reverse(items)]
<1>1. [uri EXCEPT !.items = Reverse(@)] = back
  OBVIOUS
<1>2. ASSUME NEW t \in ParsePaymentUri(uri, network) PROVE Terms(t) = Said(uri)
  <2>1. Payable(uri, network)
    BY DEF ParsePaymentUri
  <2> QED
    BY <2>1, TermsAreSaid
<1>3. ParsePaymentUri(back, network) = ParsePaymentUri(uri, network)
  <2>1. uri.path = path /\ uri.items = items /\ back.path = path /\ back.items = Reverse(items)
    OBVIOUS
  <2> HIDE DEF uri, back
  <2>2. CASE Allowed(items)
    <3>1. AddressOf(back) = AddressOf(uri)
      BY <2>1, <2>2, ReversedItems DEF AddressOf
    <3>2. \A name : /\ Param(back.items, name) = Param(uri.items, name)
                    /\ Has(back.items, name) <=> Has(uri.items, name)
      BY <2>1, <2>2, ReversedItems
    <3>3. Allowed(back.items) /\ Allowed(uri.items)
      BY <2>1, <2>2, ReversedItems
    <3>4. Payable(back, network) <=> Payable(uri, network)
      BY <2>1, <3>1, <3>2, <3>3 DEF Payable
    <3>5. CASE Payable(uri, network)
      <4>1. /\ Param(back.items, "amount") = Param(uri.items, "amount")
            /\ Param(back.items, "memo") = Param(uri.items, "memo")
            /\ Param(back.items, "label") = Param(uri.items, "label")
            /\ Param(back.items, "message") = Param(uri.items, "message")
        BY <3>2
      <4> QED
        BY <3>1, <3>4, <3>5, <4>1, Zenon DEF ParsePaymentUri
    <3>6. CASE ~Payable(uri, network)
      BY <3>4, <3>6 DEF ParsePaymentUri
    <3> QED
      BY <3>5, <3>6
  <2>3. CASE ~Allowed(items)
    BY <2>1, <2>3, ReversedItems DEF ParsePaymentUri, Payable
  <2> QED
    BY <2>2, <2>3
<1> QED
  BY <1>1, <1>2, <1>3 DEF NothingIsDropped
-----------------------------------------------------------------------------
(* Documents: the theorems above, for every input that is reached.          *)

TextInputs(k, chars) == [kind : {k}, text : Seq(chars)]

JsonInputs == [kind : {"json"}, text : Seq(Lexemes), damage : Nat]

UriInputs ==
  [kind : {"uri"}, uri : [path : Addresses \cup {Nothing}, items : Seq(Items)],
   network : Networks]

JwsInputs == [kind : {"jws"}, compact : Recombined, key : Signers]

EnrollmentInputs ==
  [kind : {"enrollment"}, asked : Requests, answered : Proofs, shown : Proofs, file : Files,
   signer : Signers, now : Times]

RotationInputs ==
  [kind : {"rotation"}, previous : Files, file : Files, approval : Approvals, signer : Signers,
   now : Times]

\* The invariant: an input is of one of seven kinds, and its parts are what may be chosen for
\* them.
Typed ==
  \/ doc \in TextInputs("base64", Alphabet)
  \/ doc \in TextInputs("amount", AmountChars)
  \/ doc \in JsonInputs
  \/ doc \in UriInputs
  \/ doc \in JwsInputs
  \/ doc \in EnrollmentInputs
  \/ doc \in RotationInputs

\* First inputs,
LEMMA InitTyped == Init => Typed
<1> SUFFICES ASSUME Init PROVE Typed
  OBVIOUS
<1>1. CASE doc = [kind |-> "base64", text |-> <<>>]
  BY <1>1 DEF Typed, TextInputs
<1>2. CASE doc = [kind |-> "amount", text |-> <<>>]
  BY <1>2 DEF Typed, TextInputs
<1>3. ASSUME NEW path \in Addresses \cup {Nothing}, NEW network \in Networks,
             doc = [kind |-> "uri", uri |-> [path |-> path, items |-> <<>>],
                    network |-> network]
      PROVE  Typed
  BY <1>3 DEF Typed, UriInputs
<1>4. ASSUME NEW c \in Recombined, NEW key \in Signers,
             doc = [kind |-> "jws", compact |-> c, key |-> key]
      PROVE  Typed
  BY <1>4 DEF Typed, JwsInputs
<1>5. ASSUME NEW asked \in Requests, NEW answered \in Proofs, NEW shown \in Proofs,
             NEW file \in Files, NEW signer \in Signers, NEW now \in Times,
             doc = [kind |-> "enrollment", asked |-> asked, answered |-> answered,
                    shown |-> shown, file |-> file, signer |-> signer, now |-> now]
      PROVE  Typed
  BY <1>5 DEF Typed, EnrollmentInputs
<1>6. ASSUME NEW previous \in Files, NEW file \in Files, NEW approval \in Approvals,
             NEW signer \in Signers, NEW now \in Times,
             doc = [kind |-> "rotation", previous |-> previous, file |-> file,
                    approval |-> approval, signer |-> signer, now |-> now]
      PROVE  Typed
  BY <1>6 DEF Typed, RotationInputs
<1>7. ASSUME NEW s \in Intact, doc = [kind |-> "json", text |-> s, damage |-> 0]
      PROVE  Typed
  <2>1. s \in Seq(Lexemes)
    BY DocumentsAssumption
  <2> QED
    BY <1>7, <2>1 DEF Typed, JsonInputs
<1> QED
  BY <1>1, <1>2, <1>3, <1>4, <1>5, <1>6, <1>7 DEF Init

\* What is left of a text with a lexeme too few, too many or wrong.
LEMMA DamagedText ==
  ASSUME NEW s \in Seq(Lexemes), NEW i \in 1..Len(s), NEW t \in Lexemes
  PROVE  {RemoveAt(s, i), InsertAt(s, i, t), Append(s, t), ReplaceAt(s, i, t)}
           \subseteq Seq(Lexemes)
<1>1. /\ SubSeq(s, 1, i - 1) \in Seq(Lexemes) /\ SubSeq(s, i + 1, Len(s)) \in Seq(Lexemes)
      /\ SubSeq(s, i, Len(s)) \in Seq(Lexemes)
  <2>1. \A m \in 1..Len(s) + 1, n \in Int : n <= Len(s) => SubSeq(s, m, n) \in Seq(Lexemes)
    BY SubSeqProperties
  <2> QED
    BY <2>1
<1>2. RemoveAt(s, i) \in Seq(Lexemes) /\ InsertAt(s, i, t) \in Seq(Lexemes)
  BY <1>1 DEF RemoveAt, InsertAt
<1>3. Append(s, t) \in Seq(Lexemes) /\ ReplaceAt(s, i, t) \in Seq(Lexemes)
  BY DEF ReplaceAt
<1> QED
  BY <1>2, <1>3

\* and longer ones.
LEMMA StepTyped == Typed /\ [Next]_doc => Typed'
<1> SUFFICES ASSUME Typed, Next PROVE Typed'
  BY DEF Typed, TextInputs, JsonInputs, UriInputs, JwsInputs, EnrollmentInputs, RotationInputs
<1>1. CASE ExtendText
  <2>1. PICK c \in IF doc.kind = "base64" THEN Alphabet ELSE AmountChars :
          doc' = [doc EXCEPT !.text = Append(@, c)]
    BY <1>1 DEF ExtendText
  <2>2. doc.kind \in {"base64", "amount"}
    BY <1>1 DEF ExtendText
  <2>3. CASE doc \in TextInputs("base64", Alphabet)
    <3>1. doc' \in TextInputs("base64", Alphabet)
      BY <2>1, <2>3 DEF TextInputs
    <3> QED
      BY <3>1 DEF Typed
  <2>4. CASE doc \in TextInputs("amount", AmountChars)
    <3>1. doc' \in TextInputs("amount", AmountChars)
      BY <2>1, <2>4 DEF TextInputs
    <3> QED
      BY <3>1 DEF Typed
  <2> QED
    BY <2>2, <2>3, <2>4 DEF Typed, JsonInputs, UriInputs, JwsInputs, EnrollmentInputs,
         RotationInputs
<1>2. CASE AddItem
  <2>1. PICK item \in Items : doc' = [doc EXCEPT !.uri.items = Append(@, item)]
    BY <1>2 DEF AddItem
  <2>2. doc \in UriInputs
    BY <1>2 DEF AddItem, Typed, TextInputs, JsonInputs, JwsInputs, EnrollmentInputs,
         RotationInputs
  <2>3. /\ doc.uri \in [path : Addresses \cup {Nothing}, items : Seq(Items)]
        /\ doc.network \in Networks /\ doc.kind = "uri"
        /\ doc' = [doc EXCEPT !.uri = [doc.uri EXCEPT !.items = Append(@, item)]]
    BY <2>1, <2>2 DEF UriInputs
  <2>4. Append(doc.uri.items, item) \in Seq(Items)
    BY <2>3
  <2>5. [doc.uri EXCEPT !.items = Append(@, item)]
          \in [path : Addresses \cup {Nothing}, items : Seq(Items)]
    BY <2>3, <2>4
  <2>6. doc' \in UriInputs
    BY <2>2, <2>3, <2>5 DEF UriInputs
  <2> QED
    BY <2>6 DEF Typed
<1>3. CASE Damage
  <2>1. doc \in JsonInputs
    BY <1>3 DEF Damage, Typed, TextInputs, UriInputs, JwsInputs, EnrollmentInputs, RotationInputs
  <2>2. PICK i \in 1..Len(doc.text), t \in Lexemes :
          \E s \in {RemoveAt(doc.text, i), InsertAt(doc.text, i, t), Append(doc.text, t),
                    ReplaceAt(doc.text, i, t)} :
            doc' = [doc EXCEPT !.text = s, !.damage = @ + 1]
    BY <1>3, Zenon DEF Damage
  <2>3. {RemoveAt(doc.text, i), InsertAt(doc.text, i, t), Append(doc.text, t),
         ReplaceAt(doc.text, i, t)} \subseteq Seq(Lexemes)
    <3>1. doc.text \in Seq(Lexemes)
      BY <2>1 DEF JsonInputs
    <3> QED
      BY <3>1, DamagedText
  <2>4. PICK s \in Seq(Lexemes) : doc' = [doc EXCEPT !.text = s, !.damage = @ + 1]
    BY <2>2, <2>3, Zenon
  <2>5. doc' \in JsonInputs
    <3>1. PICK text \in Seq(Lexemes), damage \in Nat :
            doc = [kind |-> "json", text |-> text, damage |-> damage]
      BY <2>1 DEF JsonInputs
    <3>2. doc' = [kind |-> "json", text |-> s, damage |-> damage + 1]
      BY <2>4, <3>1
    <3> QED
      BY <3>2 DEF JsonInputs
  <2> QED
    BY <2>5 DEF Typed
<1> QED
  BY <1>1, <1>2, <1>3 DEF Next

\* Inputs stay what they are.
THEOREM TypesOfInputs == Spec => []Typed
<1> QED
  BY InitTyped, StepTyped, PTL DEF Spec

\* For all lexemes, whatever they mean, every limit on nesting, and texts of any length that
\* are damaged anywhere and any number of times (encoding.js:49-79).
THEOREM JsonExact == Spec => []JsonMeansWhatItSays
<1>1. Typed => JsonMeansWhatItSays
  <2> SUFFICES ASSUME Typed, doc.kind = "json" PROVE MeansWhatItSays(doc.text)
    BY DEF JsonMeansWhatItSays
  <2>1. doc.text \in Seq(Lexemes)
    BY DEF Typed, TextInputs, JsonInputs, UriInputs, JwsInputs, EnrollmentInputs, RotationInputs
  <2>2. Len(doc.text) \in Nat
    BY <2>1
  <2> QED
    BY <2>2, TextsMeanWhatTheySay
<1> QED
  BY <1>1, TypesOfInputs, PTL

\* And printed again, what is read is the text, spaces and spelling apart (jws.js:23-25,
\* index.js:70-71).
THEOREM JsonPrintedAgain == Spec => []JsonSaysTheText
<1>1. Typed => JsonSaysTheText
  <2> SUFFICES ASSUME Typed, doc.kind = "json" PROVE SaysTheText(doc.text)
    BY DEF JsonSaysTheText
  <2>1. doc.text \in Seq(Lexemes)
    BY DEF Typed, TextInputs, JsonInputs, UriInputs, JwsInputs, EnrollmentInputs, RotationInputs
  <2>2. Len(doc.text) \in Nat
    BY <2>1
  <2> QED
    BY <2>2, ValuesSayTheirTexts
<1> QED
  BY <1>1, TypesOfInputs, PTL

\* For every alphabet and texts of any length (encoding.js:10-21).
THEOREM Canonical == Spec => []Base64IsCanonical
<1>1. Typed => Base64IsCanonical
  <2> SUFFICES ASSUME Typed, doc.kind = "base64"
               PROVE  OneTextPerBytes(doc.text, Alphabet)
    BY DEF Base64IsCanonical
  <2>1. doc.text \in Seq(Alphabet)
    BY DEF Typed, TextInputs, JsonInputs, UriInputs, JwsInputs, EnrollmentInputs, RotationInputs
  <2>2. Alphabet \subseteq 0..Other
    BY DocumentsAssumption
  <2>3. doc.text \in Seq(0..Other) /\ Alphabet \in SUBSET (0..Other)
    BY <2>1, <2>2, SeqMonotonic
  <2> QED
    BY <2>3, BytesHaveOneText
<1> QED
  BY <1>1, TypesOfInputs, PTL

\* For every set of items and any number of them, in any order (zip321.js:11-41).
THEOREM NothingDropped == Spec => []UriNothingDropped
<1>1. Typed => UriNothingDropped
  <2> SUFFICES ASSUME Typed, doc.kind = "uri"
               PROVE  NothingIsDropped(doc.uri, doc.network)
    BY DEF UriNothingDropped
  <2>1. doc \in UriInputs
    BY DEF Typed, TextInputs, JsonInputs, JwsInputs, EnrollmentInputs, RotationInputs
  <2>2. PICK path \in Addresses \cup {Nothing}, items \in Seq(Items) :
          doc.uri = [path |-> path, items |-> items]
    <3>1. doc.uri \in [path : Addresses \cup {Nothing}, items : Seq(Items)]
      BY <2>1 DEF UriInputs
    <3>2. doc.uri = [path |-> doc.uri.path, items |-> doc.uri.items]
      BY <3>1
    <3> QED
      BY <3>1, <3>2
  <2>3. ASSUME NEW n \in DOMAIN items, items[n][1] = "amount" PROVE items[n][2] # Nothing
    <3>1. items[n] \in Items
      BY <2>2
    <3> QED
      BY <2>3, <3>1, DocumentsAssumption
  <2>4. NothingIsDropped([path |-> path, items |-> items], doc.network)
    BY <2>3, NothingIsEverDropped
  <2> QED
    BY <2>2, <2>4
<1> QED
  BY <1>1, TypesOfInputs, PTL

\* For amounts of any length, any number of decimals and any supply (zip321.js:30-33).
THEOREM AmountExact == Spec => []UriAmountIsExact
<1>1. Typed => UriAmountIsExact
  <2> SUFFICES ASSUME Typed, doc.kind = "amount" PROVE AmountIsExact(doc.text)
    BY DEF UriAmountIsExact
  <2>1. doc.text \in Seq(AmountChars)
    BY DEF Typed, TextInputs, JsonInputs, UriInputs, JwsInputs, EnrollmentInputs, RotationInputs
  <2>2. AmountChars \subseteq Nat
    BY DocumentsAssumption
  <2>3. doc.text \in Seq(Nat)
    BY <2>1, <2>2, SeqMonotonic
  <2> QED
    BY <2>3, AmountsAreExact
<1> QED
  BY <1>1, TypesOfInputs, PTL

\* A compact that the signing API returns has a header that fits and a payload that is
\* well-formed.
LEMMA IssuedParts ==
  ASSUME NEW c \in Issued
  PROVE  c.header \in [typ : Purposes, kid : KidLengths] /\ WellFormed(c.payload)
<1>1. PICK p \in Payloads, kid \in RootIds, key \in Signers : c \in Signs(p, p.shape, kid, key)
  BY DEF Issued
<1>2. WellFormed(p) /\ kid \in KidLengths /\ p.kid \in KidLengths /\ p.shape \in Purposes
  BY DocumentsAssumption DEF WellFormed
<1>3. \E purpose \in Purposes, k \in KidLengths : c \in SignJws(p, purpose, k, key)
  <2>1. CASE p.shape = "registry"
    BY <1>1, <1>2, <2>1 DEF Signs, SignRegistry
  <2>2. CASE p.shape = "invoice"
    BY <1>1, <1>2, <2>2 DEF Signs, SignInvoice
  <2>3. CASE p.shape = "registration"
    BY <1>1, <1>2, <2>3 DEF Signs, SignRegistrationProof
  <2> QED
    BY <1>2, <2>1, <2>2, <2>3 DEF Purposes
<1>4. PICK purpose \in Purposes, k \in KidLengths : c \in SignJws(p, purpose, k, key)
  BY <1>3
<1>5. c.header = [typ |-> purpose, kid |-> k] /\ c.payload = p
  BY <1>4 DEF SignJws, Compact
<1> QED
  BY <1>2, <1>5

\* For every payload that is well-formed, every key ID and key, and every recombination of
\* what was signed (server.js:7-21; index.js:25,37,72; jws.js:3-29).
THEOREM SignedVerified == Spec => []SignedIsVerified
<1>1. Typed => SignedIsVerified
  <2> SUFFICES ASSUME Typed, doc.kind = "jws"
               PROVE  VerifiesWhatWasSigned(doc.compact, doc.key)
    BY DEF SignedIsVerified
  <2>1. doc.compact \in Recombined
    BY DEF Typed, TextInputs, JsonInputs, UriInputs, JwsInputs, EnrollmentInputs, RotationInputs
  <2>2. PICK c1 \in Issued, c2 \in Issued, c3 \in Issued :
          doc.compact = Compact(c1.header, c2.payload, c3.by, c3.signed)
    BY <2>1 DEF Recombined
  <2>3. c1.header \in [typ : Purposes, kid : KidLengths] /\ WellFormed(c2.payload)
    BY IssuedParts
  <2>4. VerifiesWhatWasSigned(Compact(c1.header, c2.payload, c3.by, c3.signed), doc.key)
    BY <2>3, SignersAndVerifiersAgree
  <2> QED
    BY <2>2, <2>4
<1> QED
  BY <1>1, TypesOfInputs, PTL

\* For every set of files, requests, answers and publications (index.js:67-81,
\* lifecycle.mjs:19-28).
THEOREM EvidenceExact == Spec => []EvidenceIsExact
<1>1. Typed => EvidenceIsExact
  <2> SUFFICES ASSUME Typed, doc.kind = "enrollment"
               PROVE  EvidenceIsForTheRequest(doc.file, Revision, doc.asked, doc.answered,
                                              doc.signer, doc.shown, doc.now)
    BY DEF EvidenceIsExact
  <2>1. doc.asked \in Requests /\ doc.now \in Times
    BY DEF Typed, TextInputs, JsonInputs, UriInputs, JwsInputs, EnrollmentInputs, RotationInputs
  <2>2. doc.asked.at \in Int
    BY <2>1, DocumentsAssumption
  <2>3. doc.now \in Int
    <3>1. \A t \in Times : t \in Int
      BY DocumentsAssumption
    <3> QED
      BY <2>1, <3>1, Zenon
  <2> QED
    BY <2>2, <2>3, EvidenceIsForOneRequest
<1> QED
  BY <1>1, TypesOfInputs, PTL

\* For every set of files and approvals and every clock (lifecycle.mjs:55-66).
THEOREM RotationsLast == Spec => []RotationLasts
<1>1. Typed => RotationLasts
  <2> SUFFICES ASSUME Typed, doc.kind = "rotation"
               PROVE  ApprovalLasts(doc.previous, doc.file, doc.approval, doc.signer, doc.now,
                                    Horizon)
    BY DEF RotationLasts
  <2>1. doc.previous \in Files /\ doc.approval \in Approvals /\ doc.now \in Times
    BY DEF Typed, TextInputs, JsonInputs, UriInputs, JwsInputs, EnrollmentInputs, RotationInputs
  <2>2. doc.now \in Int /\ Horizon \in Int
    <3>1. Horizon \in Int /\ \A t \in Times : t \in Int
      BY DocumentsAssumption
    <3> QED
      BY <2>1, <3>1, Zenon
  <2>4. doc.approval.issuedAt \in Int /\ doc.approval.expiresAt \in Int
    BY <2>1, DocumentsAssumption
  <2>3. \A k \in DOMAIN doc.previous.keys :
          doc.previous.keys[k].notBefore \in Int /\ doc.previous.keys[k].expiresAt \in Int
    BY <2>1, DocumentsAssumption
  <2> QED
    BY <2>2, <2>3, <2>4, AcceptedApprovalsLast
<1> QED
  BY <1>1, TypesOfInputs, PTL
=============================================================================

----------------------------- MODULE Documents -----------------------------
(***************************************************************************)
(* The pure parts of the system, one input at a time.  `doc` is a          *)
(* base64url text, an amount or a payment URI that grows by one part after *)
(* another; a JSON text that is damaged in one place after another; a      *)
(* compact put together from parts of signed ones; a request for a proof   *)
(* with what a merchant answered and published; or a rotation approval.    *)
(***************************************************************************)
EXTENDS JsonPrinter, Base64url, PaymentUri, Jws, Challenge

CONSTANTS
  Alphabet,      \* characters of base64url texts
  AmountChars,   \* characters of amounts
  Items,         \* query items of URIs, readable or not
  Lexemes,       \* what JSON texts are made of
  Intact,        \* JSON texts
  MaxDamage,     \* bound on the places in which they are damaged
  MaxText,       \* bound on the length of texts and amounts
  MaxItems,      \* bound on the number of query items
  Payloads,      \* payloads a signer is asked to sign
  RootIds,       \* how long the key IDs of release keys are
  Signers,       \* key pairs
  Requests,      \* what an operator asks for: file, origin, kid, nonce, time, revision
  Files,         \* files at hand when evidence is verified
  Revision,      \* the commit that is reviewed
  Approvals,     \* what may be signed as a rotation approval
  Times,         \* when evidence and approvals are verified
  Horizon        \* until when an approval is followed

ASSUME DocumentsAssumption ==
  /\ Alphabet \subseteq 0..Other /\ AmountChars \subseteq Nat
  /\ \A s \in Intact : s \in Seq(Lexemes)
  /\ \A item \in Items : item[1] = "amount" => item[2] \in Seq(Nat) /\ item[2] # Nothing
  /\ RootIds \subseteq KidLengths /\ \A p \in Payloads : WellFormed(p)
  /\ \A r \in Requests : r.at \in Nat
  /\ \A f \in Files : \A k \in DOMAIN f.keys :
       f.keys[k].notBefore \in Nat /\ f.keys[k].expiresAt \in Nat
  /\ \A p \in Approvals : p.issuedAt \in Nat /\ p.expiresAt \in Nat
  /\ Times \subseteq Nat /\ Horizon \in Nat

VARIABLE doc

-----------------------------------------------------------------------------

\* What the signing API returns for some payload, and everything that can be put together
\* from the parts of two such compacts.
Issued ==
  UNION {Signs(p, p.shape, kid, key) : p \in Payloads, kid \in RootIds, key \in Signers}

Recombined == {Compact(h, p, c.by, c.signed) :
                 h \in {c.header : c \in Issued}, p \in {c.payload : c \in Issued}, c \in Issued}

\* The proofs operators ask for.
Asked(r) ==
  CreateChallenge(r.file, r.origin, r.kid, r.nonce, r.at, "zcash/registry", r.revision)

Proofs == UNION {{e.proof : e \in Asked(r)} : r \in Requests}

-----------------------------------------------------------------------------

Init ==
  \/ doc = [kind |-> "base64", text |-> <<>>]
  \/ doc = [kind |-> "amount", text |-> <<>>]
  \/ \E s \in Intact : doc = [kind |-> "json", text |-> s, damage |-> 0]
  \/ \E path \in Addresses \cup {Nothing}, network \in Networks :
       doc = [kind |-> "uri", uri |-> [path |-> path, items |-> <<>>], network |-> network]
  \/ \E c \in Recombined, key \in Signers : doc = [kind |-> "jws", compact |-> c, key |-> key]
  \/ \E asked \in Requests, answered, shown \in Proofs, file \in Files, signer \in Signers,
        now \in Times :
       doc = [kind |-> "enrollment", asked |-> asked, answered |-> answered, shown |-> shown,
              file |-> file, signer |-> signer, now |-> now]
  \/ \E previous, file \in Files, approval \in Approvals, signer \in Signers, now \in Times :
       doc = [kind |-> "rotation", previous |-> previous, file |-> file, approval |-> approval,
              signer |-> signer, now |-> now]

ExtendText ==
  /\ doc.kind \in {"base64", "amount"} /\ Len(doc.text) < MaxText
  /\ \E c \in IF doc.kind = "base64" THEN Alphabet ELSE AmountChars :
       doc' = [doc EXCEPT !.text = Append(@, c)]

AddItem ==
  /\ doc.kind = "uri" /\ Len(doc.uri.items) < MaxItems
  /\ \E item \in Items : doc' = [doc EXCEPT !.uri.items = Append(@, item)]

\* Two scalars in a row would be read as one.
Lexed(s) == \A n \in 2..Len(s) : ~(s[n - 1] \in Scalars /\ s[n] \in Scalars)

\* One lexeme too few, too many or wrong.
Damage ==
  /\ doc.kind = "json" /\ doc.damage < MaxDamage
  /\ \E i \in 1..Len(doc.text), t \in Lexemes :
       \E s \in {RemoveAt(doc.text, i), InsertAt(doc.text, i, t), Append(doc.text, t),
                 ReplaceAt(doc.text, i, t)} :
         /\ Lexed(s)
         /\ doc' = [doc EXCEPT !.text = s, !.damage = @ + 1]

Next == ExtendText \/ AddItem \/ Damage

Spec == Init /\ [][Next]_doc

-----------------------------------------------------------------------------
(* The properties of the modules, for the input at hand.                    *)

\* strictJSON returns what a text says, and nothing for a text that says nothing
\* (encoding.js:49-79).
JsonMeansWhatItSays == doc.kind = "json" => MeansWhatItSays(doc.text)

\* strictJSON's value, printed again, is the text (encoding.js:49-79).
JsonSaysTheText == doc.kind = "json" => SaysTheText(doc.text)

\* unb64 admits one text for some bytes (encoding.js:14-21).
Base64IsCanonical ==
  (doc.kind = "base64" /\ doc.text # <<>>) => OneTextPerBytes(doc.text, Alphabet)

\* parsePaymentUri loses no parameter (zip321.js:11-41).
UriNothingDropped == doc.kind = "uri" => NothingIsDropped(doc.uri, doc.network)

\* parsePaymentUri's zatoshis are the amount that is written (zip321.js:30-33).
UriAmountIsExact == doc.kind = "amount" => AmountIsExact(doc.text)

\* Signers and verifiers agree on every document (jws.js, server.js, index.js).
SignedIsVerified == doc.kind = "jws" => VerifiesWhatWasSigned(doc.compact, doc.key)

\* Evidence of control is for one request (lifecycle.mjs:19-28).
EvidenceIsExact ==
  doc.kind = "enrollment" =>
    EvidenceIsForTheRequest(doc.file, Revision, doc.asked, doc.answered, doc.signer, doc.shown,
                            doc.now)

\* Rotation approvals neither end early nor come late (lifecycle.mjs:55-66).
RotationLasts ==
  doc.kind = "rotation" =>
    ApprovalLasts(doc.previous, doc.file, doc.approval, doc.signer, doc.now, Horizon)
=============================================================================

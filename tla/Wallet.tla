------------------------------- MODULE Wallet -------------------------------
(***************************************************************************)
(* src/src/index.js in a wallet: verifyRegistry and verifyInvoice.  Both   *)
(* are asynchronous and the wallet may have several calls in flight; each  *)
(* takes the time when it is called and works on with it.  The checkpoint  *)
(* is in durable storage, the verified snapshots are objects in memory:    *)
(* the wallet may be restarted at any await.                               *)
(***************************************************************************)
EXTENDS RegistryRules, FiniteSets

CONSTANTS
  Calls,            \* calls in flight
  Compacts,         \* the signed snapshots anybody may hand to the wallet
  Invoices,         \* the signed invoices merchants' pages may hand to it
  Digests, NoDigest,
  Networks, Network,        \* the networks there are and the wallet's
  Challenges, NoChallenge,  \* session challenges
  Window,           \* Window[d]: networks and validity of the key data d
  InvoiceLife,      \* 900: the longest invoice lifetime
  MinimumSequence,  \* trust.minimumSequence
  MaxTime           \* bound on the clock

\* `genuine`: signed by a pinned root, for the trusted registry.
Compact == [payload : Payload, digest : Digests, genuine : BOOLEAN]

\* `signer`: the key data whose public key verifies the signature; `payable`: the URI
\* parses and the address validator accepts it.
Invoice == [merchantId : Merchants, kid : Kids, origin : Origins, network : Networks,
            issuedAt : Nat, expiresAt : Nat, challenge : Challenges \cup {NoChallenge},
            signer : KeyData, payable : BOOLEAN]

Context == [kind : {"browser"}, origin : Origins, challenge : Challenges]
             \cup {[kind |-> "import"]}

Genuine == {c \in Compacts : c.genuine}

ASSUME WalletAssumption ==
  /\ Compacts \subseteq Compact /\ Invoices \subseteq Invoice
  /\ \A c, d \in Compacts : c.digest = d.digest => c.payload = d.payload
  /\ NoDigest \notin Digests /\ NoChallenge \notin Challenges
  /\ Window \in [KeyData -> [networks : SUBSET Networks, notBefore : Nat, expiresAt : Nat]]
  /\ InvoiceLife \in Nat /\ MinimumSequence \in Nat \ {0} /\ MaxTime \in Nat

\* What the release tool guarantees of the snapshots it signs: revocations accumulate
\* (HistoryAccumulates and the order of issue times, SnapshotLog).  RevokedWithinADay relies
\* on it; TrustPath does without it.
RevocationsAccumulate ==
  \A c, d \in Genuine : c.payload.issuedAt < d.payload.issuedAt =>
                          c.payload.revocations \subseteq d.payload.revocations

VARIABLES
  clock,       \* seconds, at the wallet
  checkpoint,  \* durable: the last accepted sequence and digest
  held,        \* the WeakSet `registries`: snapshots verified by this process
  call,        \* call[t]: the local variables of call t
  returned     \* history: every snapshot verifyRegistry ever returned

vars == <<clock, checkpoint, held, call, returned>>

CP == INSTANCE Checkpoint WITH mark <- checkpoint

\* `floor`: history, the checkpoint's sequence when the call began.
NoCall     == [pc |-> "none"]
Verifying  == [pc : {"jws", "accept", "accepted"}, compact : Compacts, now : Nat, floor : Nat]
Requesting == [pc : {"invoice", "verified"}, invoice : Invoices, compact : Compacts,
               context : Context, now : Nat]

TypeOK ==
  /\ clock \in Nat /\ checkpoint \in CP!Mark
  /\ held \in SUBSET Genuine /\ returned \in SUBSET Genuine /\ held \subseteq returned
  /\ call \in [Calls -> {NoCall} \cup Verifying \cup Requesting]
  /\ \A t \in Calls : call[t].pc \in {"accept", "accepted"} => call[t].compact \in Genuine

Init ==
  /\ clock = 0 /\ checkpoint = CP!NoMark
  /\ held = {} /\ returned = {}
  /\ call = [t \in Calls |-> NoCall]

At(t, pc) == call[t].pc = pc
Finish(t) == call' = [call EXCEPT ![t] = NoCall]

-----------------------------------------------------------------------------
(* verifyRegistry                                                           *)

\* Mutant: the root that signed is not looked up.
VerifiesRegistryAnyRoot(c, now) ==
  /\ ValidRegistry(c.payload) /\ Fresh(c.payload, now)
  /\ c.payload.sequence >= MinimumSequence

\* Everything checked before state.accept, for a call made at `now`.
VerifiesRegistry(c, now) ==
  /\ c.genuine
  /\ ValidRegistry(c.payload) /\ Fresh(c.payload, now)
  /\ c.payload.sequence >= MinimumSequence

MarkOf(c) == [sequence |-> c.payload.sequence, digest |-> c.digest]

BeginRegistry(t, c) ==
  /\ At(t, "none")
  /\ call' = [call EXCEPT ![t] = [pc |-> "jws", compact |-> c, now |-> clock,
                                  floor |-> checkpoint.sequence]]
  /\ UNCHANGED <<clock, checkpoint, held, returned>>

\* The signature and the payload are checked; a failed check throws.
CheckRegistry(t) ==
  /\ At(t, "jws")
  /\ IF VerifiesRegistry(call[t].compact, call[t].now)
     THEN call' = [call EXCEPT ![t].pc = "accept"]
     ELSE Finish(t)
  /\ UNCHANGED <<clock, checkpoint, held, returned>>

\* Mutant: the storage keeps the highest sequence, but does not refuse a lower one.
AcceptLower(t) ==
  /\ At(t, "accept")
  /\ LET next == MarkOf(call[t].compact)
     IN  checkpoint' = IF next.sequence > checkpoint.sequence THEN next ELSE checkpoint
  /\ call' = [call EXCEPT ![t].pc = "accepted"]
  /\ UNCHANGED <<clock, held, returned>>

\* state.accept: one storage transaction that compares and persists.
Accept(t) ==
  /\ At(t, "accept")
  /\ LET next == MarkOf(call[t].compact)
     IN  IF CP!AssertCheckpoint(checkpoint, next)
         THEN /\ checkpoint' = next
              /\ call' = [call EXCEPT ![t].pc = "accepted"]
         ELSE /\ Finish(t)
              /\ UNCHANGED checkpoint
  /\ UNCHANGED <<clock, held, returned>>

\* Only now is the frozen snapshot one that verifyInvoice will take.
ReturnRegistry(t) ==
  /\ At(t, "accepted")
  /\ held' = held \cup {call[t].compact}
  /\ returned' = returned \cup {call[t].compact}
  /\ Finish(t)
  /\ UNCHANGED <<clock, checkpoint>>

-----------------------------------------------------------------------------
(* verifyInvoice                                                            *)

RecordsOf(p, i) == {m \in p.merchants : m.id = i.merchantId}
KeysFor(p, i)   == {k \in KeysOf(p, i.merchantId) : k.kid = i.kid}

KeyValid(k, i, now) ==
  LET w == Window[k.data]
  IN  /\ Network \in w.networks
      /\ w.notBefore <= now /\ now < w.expiresAt
      /\ w.notBefore <= i.issuedAt /\ i.expiresAt <= w.expiresAt
      /\ i.signer = k.data

InContext(i, context) ==
  IF context.kind = "browser"
  THEN i.origin = context.origin /\ i.challenge = context.challenge
  ELSE i.challenge = NoChallenge

\* Mutant: the snapshot's freshness is not looked at again.
VerifiesInvoiceStale(i, p, context, now) ==
  /\ Lifetime(i, InvoiceLife) /\ i.network = Network
  /\ \E m \in RecordsOf(p, i) : m.status = "active" /\ i.origin \in m.origins
  /\ \E k \in KeysFor(p, i) : KeyValid(k, i, now)
  /\ ~Revoked(p, i.merchantId, i.kid)
  /\ Fresh(i, now) /\ InContext(i, context) /\ i.payable

\* The outcome of a call made at `now`: nothing it depends on can change underneath.
VerifiesInvoice(i, p, context, now) ==
  /\ Fresh(p, now)
  /\ Lifetime(i, InvoiceLife) /\ i.network = Network
  /\ \E m \in RecordsOf(p, i) : m.status = "active" /\ i.origin \in m.origins
  /\ \E k \in KeysFor(p, i) : KeyValid(k, i, now)
  /\ ~Revoked(p, i.merchantId, i.kid)
  /\ Fresh(i, now) /\ InContext(i, context) /\ i.payable

\* Mutant: the snapshot's expiry is left out.
ValidUntilInvoice(i, p) == i.expiresAt

\* The result's validUntil: whichever of invoice, snapshot and key expires first.
ValidUntil(i, p) ==
  LET key == CHOOSE k \in KeysFor(p, i) : TRUE
      ends == {i.expiresAt, p.expiresAt, Window[key.data].expiresAt}
  IN  CHOOSE u \in ends : \A e \in ends : u <= e

\* verifyInvoice only takes an object that verifyRegistry returned in this process: any
\* of them, not only the last.
BeginInvoice(t, i, c, context) ==
  /\ At(t, "none") /\ c \in held
  /\ call' = [call EXCEPT ![t] = [pc |-> "invoice", invoice |-> i, compact |-> c,
                                  context |-> context, now |-> clock]]
  /\ UNCHANGED <<clock, checkpoint, held, returned>>

\* The awaits are over: the result reaches the wallet, or the call throws.
EndInvoice(t) ==
  /\ At(t, "invoice")
  /\ IF VerifiesInvoice(call[t].invoice, call[t].compact.payload, call[t].context, call[t].now)
     THEN call' = [call EXCEPT ![t].pc = "verified"]
     ELSE Finish(t)
  /\ UNCHANGED <<clock, checkpoint, held, returned>>

\* The wallet is done with the result.
Discard(t) ==
  /\ At(t, "verified")
  /\ Finish(t)
  /\ UNCHANGED <<clock, checkpoint, held, returned>>

-----------------------------------------------------------------------------

\* The wallet is closed or dies: memory is lost, the checkpoint is not.
Restart ==
  /\ held # {} \/ \E t \in Calls : ~At(t, "none")
  /\ held' = {}
  /\ call' = [t \in Calls |-> NoCall]
  /\ UNCHANGED <<clock, checkpoint, returned>>

Tick ==
  /\ clock < MaxTime
  /\ clock' = clock + 1
  /\ UNCHANGED <<checkpoint, held, call, returned>>

Next ==
  \/ \E t \in Calls :
       \/ \E c \in Compacts : BeginRegistry(t, c)
       \/ CheckRegistry(t) \/ Accept(t) \/ ReturnRegistry(t)
       \/ \E i \in Invoices, c \in held, context \in Context : BeginInvoice(t, i, c, context)
       \/ EndInvoice(t) \/ Discard(t)
  \/ Restart \/ Tick

Spec == Init /\ [][Next]_vars

-----------------------------------------------------------------------------
(* Properties.                                                              *)

\* The durable checkpoint only advances, however calls and restarts interleave
\* (index.js:11-20,31).
ImplementsCheckpoint == CP!Spec

\* A wallet never relies on two different snapshots of one sequence, in whatever order
\* mirrors offer them and across restarts (index.js:18, "registry_equivocation").
NeverTwoOfOneSequence ==
  \A c, d \in returned : c.payload.sequence = d.payload.sequence => c.digest = d.digest

\* A call made when the checkpoint stood at n is not answered with a snapshot before n
\* (index.js:17,31, "registry_rollback").
NoRollback ==
  \A t \in Calls : At(t, "accepted") => call[t].compact.payload.sequence >= call[t].floor

\* The revocation delay is bounded: once a day has passed since a snapshot that revokes a
\* key was issued, no result in hand that is still within its validUntil was signed under
\* that key, whatever the wallet was offered and even if it never saw that snapshot
\* (index.js:36,48,65; "freshness bounds offline revocation delay", protocol.md section 6).
RevokedWithinADay ==
  \A t \in Calls, c \in Genuine :
    (At(t, "verified") /\ clock < ValidUntil(call[t].invoice, call[t].compact.payload))
      => \/ clock < c.payload.issuedAt + Day
         \/ ~Revoked(c.payload, call[t].invoice.merchantId, call[t].invoice.kid)

\* validUntil is exact: until then, and no longer, would verifyInvoice accept the same
\* invoice again with the same snapshot (index.js:36,46-47,49,65).
ValidUntilIsExact ==
  \A t \in Calls : At(t, "verified") =>
    LET i == call[t].invoice
        p == call[t].compact.payload
    IN  VerifiesInvoice(i, p, call[t].context, clock) <=> clock < ValidUntil(i, p)
=============================================================================

--------------------------- MODULE RegistryRules ---------------------------
(***************************************************************************)
(* What a registry snapshot contains and when one snapshot may follow      *)
(* another: src/src/validation.js (merchant, registry, lifetime, fresh)    *)
(* and validateTransition of src/scripts/lifecycle.mjs.  Pure operators,   *)
(* shared by every module of the project.                                  *)
(*                                                                         *)
(* A payment key is its key ID and "data": one value for its public key,   *)
(* networks and validity window, which the rules only compare as a whole.  *)
(* Lists whose order the code never uses are sets.                         *)
(***************************************************************************)
EXTENDS Integers

CONSTANTS
  Merchants,    \* merchant ids
  Origins,      \* https origins
  Kids,         \* invoice key ids
  KeyData,      \* what a key ID is bound to
  Commits,      \* Git commits of the registry repository
  NoCommit,     \* the source commit of no snapshot
  Day,          \* 86400: the longest snapshot and proof lifetime
  Skew,         \* 60: how far ahead of the clock an issue time may be
  MaxSequence   \* Number.MAX_SAFE_INTEGER

ASSUME NumbersAssumption ==
  /\ Day \in Nat \ {0}
  /\ Skew \in Nat
  /\ MaxSequence \in Nat \ {0}
ASSUME NoCommitAssumption == NoCommit \notin Commits

Key        == [kid : Kids, data : KeyData]
Record     == [id : Merchants, status : {"active", "suspended"},
               origins : SUBSET Origins, keys : SUBSET Key]
Revocation == [merchantId : Merchants, kid : Kids, revokedAt : Nat]
Payload    == [sequence : Nat, issuedAt : Nat, expiresAt : Nat,
               sourceCommit : Commits \cup {NoCommit},
               merchants : SUBSET Record, revocations : SUBSET Revocation]

\* Stands for the absent snapshot: `previous` undefined, a file not there yet.
Genesis == [sequence |-> 0, issuedAt |-> 0, expiresAt |-> 0, sourceCommit |-> NoCommit,
            merchants |-> {}, revocations |-> {}]

Revoked(p, m, k) == \E r \in p.revocations : r.merchantId = m /\ r.kid = k
HasKid(p, m, k)  == \E x \in p.merchants : x.id = m /\ \E y \in x.keys : y.kid = k
KeysOf(p, m)     == UNION {x.keys : x \in {y \in p.merchants : y.id = m}}

-----------------------------------------------------------------------------
(* validation.js *)

Lifetime(v, longest) == v.issuedAt < v.expiresAt /\ v.expiresAt - v.issuedAt <= longest
Fresh(v, now)        == v.issuedAt <= now + Skew /\ now < v.expiresAt

ValidRecord(r) ==
  /\ r.origins # {}
  /\ r.keys # {}
  /\ \A k, l \in r.keys : k.kid = l.kid => k = l

\* Mutant: the sequence bound is forgotten.
ValidRegistryUnbounded(p) ==
  /\ p.sequence > 0
  /\ Lifetime(p, Day)
  /\ \A m \in p.merchants : ValidRecord(m)
  /\ \A m, n \in p.merchants : m # n => m.id # n.id /\ m.origins \cap n.origins = {}
  /\ \A r \in p.revocations : r.revokedAt <= p.issuedAt

ValidRegistry(p) ==
  /\ p.sequence \in 1..MaxSequence
  /\ Lifetime(p, Day)
  /\ \A m \in p.merchants : ValidRecord(m)
  /\ \A m, n \in p.merchants : m # n => m.id # n.id /\ m.origins \cap n.origins = {}
  /\ \A r \in p.revocations : r.revokedAt <= p.issuedAt
  /\ \A r, s \in p.revocations : r.merchantId = s.merchantId /\ r.kid = s.kid => r = s

-----------------------------------------------------------------------------
(* lifecycle.mjs, validateTransition: may `next` be signed after `prev`? *)

\* Mutant: only the sequence is compared.
InOrderBySequence(prev, next) == next.sequence = prev.sequence + 1

InOrder(prev, next) ==
  next.sequence = prev.sequence + 1 /\ next.issuedAt >= prev.issuedAt

\* Mutant: a key is kept when its key ID is, whatever it is bound to.
KeysRetainedByKid(prev, next) ==
  \A old \in prev.merchants : \E new \in next.merchants :
    /\ new.id = old.id
    /\ \A k \in old.keys : HasKid(next, old.id, k.kid) \/ Revoked(next, old.id, k.kid)

\* Every merchant stays; each of its keys stays as it was or goes with a revocation.
KeysRetained(prev, next) ==
  \A old \in prev.merchants : \E new \in next.merchants :
    /\ new.id = old.id
    /\ \A k \in old.keys :
         k \in new.keys \/ (~HasKid(next, old.id, k.kid) /\ Revoked(next, old.id, k.kid))

\* Mutant: only revoked key IDs the previous record still lists are looked at.
RetiredStayOutIfListed(prev, next) ==
  \A r \in prev.revocations : \A k \in KeysOf(next, r.merchantId) :
    (k.kid = r.kid /\ HasKid(prev, r.merchantId, r.kid)) => k \in KeysOf(prev, r.merchantId)

\* A revoked key ID may linger in the record it was in; it never comes back.
RetiredStayOut(prev, next) ==
  \A r \in prev.revocations : \A k \in KeysOf(next, r.merchantId) :
    k.kid = r.kid => k \in KeysOf(prev, r.merchantId)

ValidTransition(prev, next) ==
  /\ ValidRegistry(next)
  /\ prev # Genesis =>
       /\ ValidRegistry(prev)
       /\ InOrder(prev, next)
       /\ prev.revocations \subseteq next.revocations
       /\ KeysRetained(prev, next)
       /\ RetiredStayOut(prev, next)
=============================================================================

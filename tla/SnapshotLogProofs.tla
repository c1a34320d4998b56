------------------------- MODULE SnapshotLogProofs -------------------------
(***************************************************************************)
(* Proofs about SnapshotLog, for every set of merchants, keys and commits  *)
(* and any number of snapshots.                                            *)
(*                                                                         *)
(* ValidTransition only compares neighbours; the properties compare any    *)
(* two snapshots.  The inductive invariant History carries what neighbours *)
(* hand on over any distance: a key stays until it is revoked and removed  *)
(* (KeysStay), and from then on its key ID stays out (RetiredStay).        *)
(***************************************************************************)
EXTENDS SnapshotLog, TLAPS

\* The log is a list of valid snapshots numbered from one, exposed one of the numbers.
TypeOK ==
  /\ log \in Seq(Payload)
  /\ exposed \in 0..Len(log)
  /\ \A i \in DOMAIN log : log[i].sequence = i /\ ValidRegistry(log[i])

\* What snapshot q still says about the keys snapshot p showed.
Keeps(p, q) ==
  \A m \in Merchants : \A x \in KeysOf(p, m) :
    \/ x \in KeysOf(q, m)
    \/ Revoked(q, m, x.kid) /\ \A y \in KeysOf(q, m) : y.kid # x.kid

\* What was revoked and gone in p is gone in q.
Retires(p, q) ==
  \A m \in Merchants, k \in Kids :
    (Revoked(p, m, k) /\ \A x \in KeysOf(p, m) : x.kid # k)
      => \A y \in KeysOf(q, m) : y.kid # k

Grows(p, q) ==
  /\ p.issuedAt <= q.issuedAt
  /\ p.revocations \subseteq q.revocations
  /\ {x.id : x \in p.merchants} \subseteq {x.id : x \in q.merchants}

History ==
  \A i, j \in DOMAIN log : i < j =>
    Keeps(log[i], log[j]) /\ Retires(log[i], log[j]) /\ Grows(log[i], log[j])

Inv == TypeOK /\ History

-----------------------------------------------------------------------------
(* Facts about one snapshot and about neighbours.                           *)

\* A valid snapshot shows at most one key under a merchant's key ID.
LEMMA OneKeyPerKid ==
  ASSUME NEW p, ValidRegistry(p), NEW m,
         NEW x \in KeysOf(p, m), NEW y \in KeysOf(p, m), x.kid = y.kid
  PROVE  x = y
<1>1. PICK r \in p.merchants : r.id = m /\ x \in r.keys
  BY DEF KeysOf
<1>2. PICK s \in p.merchants : s.id = m /\ y \in s.keys
  BY DEF KeysOf
<1>3. r = s
  BY <1>1, <1>2 DEF ValidRegistry
<1> QED
  BY <1>1, <1>2, <1>3 DEF ValidRegistry, ValidRecord

\* No key of a snapshot is lost at a valid transition unless it goes with a revocation.
LEMMA TransitionKeeps ==
  ASSUME NEW p, NEW q, p # Genesis, ValidTransition(p, q)
  PROVE  Keeps(p, q)
<1> SUFFICES ASSUME NEW m \in Merchants, NEW x \in KeysOf(p, m)
             PROVE  \/ x \in KeysOf(q, m)
                    \/ Revoked(q, m, x.kid) /\ \A y \in KeysOf(q, m) : y.kid # x.kid
  BY DEF Keeps
<1>1. PICK r \in p.merchants : r.id = m /\ x \in r.keys
  BY DEF KeysOf
<1>2. PICK s \in q.merchants :
        /\ s.id = m
        /\ x \in s.keys \/ (~HasKid(q, m, x.kid) /\ Revoked(q, m, x.kid))
  BY <1>1 DEF ValidTransition, KeysRetained
<1>3. CASE x \in s.keys
  BY <1>2, <1>3 DEF KeysOf
<1>4. CASE ~HasKid(q, m, x.kid) /\ Revoked(q, m, x.kid)
  BY <1>4 DEF KeysOf, HasKid
<1> QED
  BY <1>2, <1>3, <1>4

\* A key ID that was revoked and gone does not come back at a valid transition.
LEMMA TransitionRetires ==
  ASSUME NEW p, NEW q, p # Genesis, ValidTransition(p, q)
  PROVE  Retires(p, q)
<1> SUFFICES ASSUME NEW m \in Merchants, NEW k \in Kids, Revoked(p, m, k),
                    \A x \in KeysOf(p, m) : x.kid # k,
                    NEW y \in KeysOf(q, m), y.kid = k
             PROVE  FALSE
  BY DEF Retires
<1>1. PICK r \in p.revocations : r.merchantId = m /\ r.kid = k
  BY DEF Revoked
<1>2. y \in KeysOf(p, m)
  BY <1>1 DEF ValidTransition, RetiredStayOut
<1> QED
  BY <1>2

LEMMA TransitionGrows ==
  ASSUME NEW p, NEW q, p # Genesis, ValidTransition(p, q)
  PROVE  Grows(p, q)
<1>1. \A x \in p.merchants : \E y \in q.merchants : y.id = x.id
  BY DEF ValidTransition, KeysRetained
<1>2. q.issuedAt >= p.issuedAt /\ p.revocations \subseteq q.revocations
  BY DEF ValidTransition, InOrder
<1> QED
  BY <1>1, <1>2 DEF Grows

\* The three relations hand on: what p passes to q and q to a valid successor r, p passes
\* to r.
LEMMA RelationsCompose ==
  ASSUME NEW p \in Payload, NEW q \in Payload, NEW r \in Payload, q # Genesis,
         Keeps(p, q), Retires(p, q), Grows(p, q), ValidTransition(q, r)
  PROVE  Keeps(p, r) /\ Retires(p, r) /\ Grows(p, r)
<1> USE DEF Payload
<1>1. Keeps(q, r) /\ Retires(q, r) /\ Grows(q, r)
  BY TransitionKeeps, TransitionRetires, TransitionGrows
<1>2. \A m, k : Revoked(q, m, k) => Revoked(r, m, k)
  BY <1>1 DEF Grows, Revoked
<1>3. ASSUME NEW m \in Merchants, NEW x \in KeysOf(p, m)
      PROVE  x.kid \in Kids
  BY DEF KeysOf, Record, Key
<1>4. Keeps(p, r)
  BY <1>1, <1>2, <1>3 DEF Keeps, Retires
<1>5. ASSUME NEW m \in Merchants, NEW k \in Kids, Revoked(p, m, k),
             \A x \in KeysOf(p, m) : x.kid # k
      PROVE  \A y \in KeysOf(r, m) : y.kid # k
  <2>1. Revoked(q, m, k)
    BY <1>5 DEF Grows, Revoked
  <2>2. \A y \in KeysOf(q, m) : y.kid # k
    BY <1>5 DEF Retires
  <2> QED
    BY <1>1, <2>1, <2>2 DEF Retires
<1>6. Retires(p, r)
  BY <1>5 DEF Retires
<1>7. Grows(p, r)
  BY <1>1 DEF Grows
<1> QED
  BY <1>4, <1>6, <1>7

-----------------------------------------------------------------------------
(* The invariant.                                                           *)

LEMMA InitInv == Init => Inv
BY DEF Init, Inv, TypeOK, History

\* Recording a snapshot preserves the invariant.
LEMMA RecordInv ==
  ASSUME Inv, RecordSnapshot
  PROVE  Inv'
<1> DEFINE n == Len(log)
           p == log'[n + 1]
<1>1. /\ p \in Payload /\ p.sequence = n + 1 /\ ValidTransition(Last, p)
      /\ log' = Append(log, p) /\ exposed' = exposed
  BY DEF RecordSnapshot
<1>2. log \in Seq(Payload) /\ exposed \in 0..n /\ n \in Nat
  BY DEF Inv, TypeOK
<1>3. /\ log' \in Seq(Payload) /\ Len(log') = n + 1 /\ DOMAIN log' = 1..(n + 1)
      /\ \A i \in 1..n : log'[i] = log[i]
  <2> HIDE DEF p
  <2> QED
    BY <1>1, <1>2
<1>4. TypeOK'
  <2>1. ValidRegistry(p)
    BY <1>1 DEF ValidTransition
  <2>2. \A i \in DOMAIN log' : log'[i].sequence = i /\ ValidRegistry(log'[i])
    <3> SUFFICES ASSUME NEW i \in 1..(n + 1)
                 PROVE  log'[i].sequence = i /\ ValidRegistry(log'[i])
      BY <1>3
    <3>1. CASE i = n + 1
      BY <1>1, <2>1, <3>1
    <3>2. CASE i \in 1..n
      BY <1>2, <1>3, <3>2 DEF Inv, TypeOK
    <3> QED
      BY <1>2, <3>1, <3>2
  <2>3. exposed' \in 0..Len(log')
    BY <1>1, <1>2, <1>3
  <2> QED
    BY <1>3, <2>2, <2>3 DEF TypeOK
<1>5. History'
  <2> SUFFICES ASSUME NEW i \in 1..(n + 1), NEW j \in 1..(n + 1), i < j
               PROVE  /\ Keeps(log'[i], log'[j]) /\ Retires(log'[i], log'[j])
                      /\ Grows(log'[i], log'[j])
    BY <1>3 DEF History
  <2>1. i \in 1..n /\ log'[i] = log[i] /\ log[i] \in Payload
    BY <1>2, <1>3
  <2>2. CASE j \in 1..n
    BY <1>2, <1>3, <2>1, <2>2 DEF Inv, History
  <2>3. CASE j = n + 1
    <3>1. n \in DOMAIN log /\ log[n] \in Payload /\ log[n].sequence = n /\ Last = log[n]
      BY <1>2, <2>1 DEF Inv, TypeOK, Last
    <3>2. log[n] # Genesis
      BY <2>1, <3>1 DEF Genesis
    <3>3. CASE i = n
      BY <1>1, <2>1, <2>3, <3>1, <3>2, <3>3,
         TransitionKeeps, TransitionRetires, TransitionGrows
    <3>4. CASE i # n
      <4>1. Keeps(log[i], log[n]) /\ Retires(log[i], log[n]) /\ Grows(log[i], log[n])
        BY <1>2, <2>1, <3>1, <3>4 DEF Inv, History
      <4> HIDE DEF p
      <4> QED
        BY <1>1, <2>1, <2>3, <3>1, <3>2, <4>1, RelationsCompose
    <3> QED
      BY <3>3, <3>4
  <2> QED
    BY <1>2, <2>2, <2>3
<1> QED
  BY <1>4, <1>5 DEF Inv

\* No step breaks the invariant.
LEMMA NextInv ==
  ASSUME Inv, [Next]_vars
  PROVE  Inv'
<1>1. CASE RecordSnapshot
  BY <1>1, RecordInv
<1>2. CASE ExposeSnapshot
  BY <1>2 DEF ExposeSnapshot, Inv, TypeOK, History
<1>3. CASE UNCHANGED vars
  BY <1>3 DEF vars, Inv, TypeOK, History
<1> QED
  BY <1>1, <1>2, <1>3 DEF Next

\* The log is always well numbered, valid and hereditary.
THEOREM SnapshotLogInvariant == Spec => []Inv
<1>1. Init => Inv
  BY InitInv
<1>2. Inv /\ [Next]_vars => Inv'
  BY NextInv
<1> QED
  BY <1>1, <1>2, PTL DEF Spec

-----------------------------------------------------------------------------
(* What the invariant says of any two snapshots.                            *)

LEMMA InvKidNeverRebinds == Inv => KidNeverRebinds
<1> SUFFICES ASSUME Inv, NEW i \in DOMAIN log, NEW j \in DOMAIN log,
                    NEW m \in Merchants, NEW k \in Kids,
                    NEW x \in Showing(i, m, k), NEW y \in Showing(j, m, k)
             PROVE  x = y
  BY DEF KidNeverRebinds
<1>1. /\ x \in KeysOf(log[i], m) /\ y \in KeysOf(log[j], m) /\ x.kid = k /\ y.kid = k
      /\ ValidRegistry(log[i]) /\ ValidRegistry(log[j])
  BY DEF Showing, Inv, TypeOK
<1>2. i \in Int /\ j \in Int
  BY DEF Inv, TypeOK
<1>3. CASE i = j
  BY <1>1, <1>3, OneKeyPerKid
<1>4. CASE i < j
  <2>1. x \in KeysOf(log[j], m)
    BY <1>1, <1>4 DEF Inv, History, Keeps
  <2> QED
    BY <1>1, <2>1, OneKeyPerKid
<1>5. CASE j < i
  <2>1. y \in KeysOf(log[i], m)
    BY <1>1, <1>5 DEF Inv, History, Keeps
  <2> QED
    BY <1>1, <2>1, OneKeyPerKid
<1> QED
  BY <1>2, <1>3, <1>4, <1>5

LEMMA InvRetiredKidNeverReturns == Inv => RetiredKidNeverReturns
<1> SUFFICES ASSUME Inv, NEW i \in DOMAIN log, NEW j \in DOMAIN log,
                    NEW m \in Merchants, NEW k \in Kids, i < j,
                    Revoked(log[i], m, k), Showing(i, m, k) = {}
             PROVE  Showing(j, m, k) = {}
  BY DEF RetiredKidNeverReturns
<1>1. \A x \in KeysOf(log[i], m) : x.kid # k
  BY DEF Showing
<1>2. \A y \in KeysOf(log[j], m) : y.kid # k
  BY <1>1 DEF Inv, History, Retires
<1> QED
  BY <1>2 DEF Showing

LEMMA InvHistoryAccumulates == Inv => HistoryAccumulates
BY DEF Inv, History, HistoryAccumulates, Grows

\* A key ID is bound once and for all, over the whole life of the registry.
THEOREM KeyIdsAreBoundForever == Spec => []KidNeverRebinds
BY SnapshotLogInvariant, InvKidNeverRebinds, PTL

\* A retired key ID never returns, however many snapshots later.
THEOREM RetiredKeyIdsStayOut == Spec => []RetiredKidNeverReturns
BY SnapshotLogInvariant, InvRetiredKidNeverReturns, PTL

\* Issue times, revocations and merchants only accumulate.
THEOREM HistoryIsAppendOnly == Spec => []HistoryAccumulates
BY SnapshotLogInvariant, InvHistoryAccumulates, PTL

\* Of two snapshots a wallet is offered, wherever they come from in the log, the one issued
\* later knows every revocation of the other.
RevocationsFollowIssue ==
  \A i, j \in DOMAIN log :
    log[i].issuedAt < log[j].issuedAt => log[i].revocations \subseteq log[j].revocations

\* What Wallet assumes of genuine snapshots (RevocationsAccumulate) holds of any that are
\* taken from the log the release tool implements.
THEOREM RevocationsFollowIssueTimes == Spec => []RevocationsFollowIssue
<1>1. Inv => RevocationsFollowIssue
  <2> SUFFICES ASSUME Inv, NEW i \in DOMAIN log, NEW j \in DOMAIN log,
                      log[i].issuedAt < log[j].issuedAt
               PROVE  log[i].revocations \subseteq log[j].revocations
    BY DEF RevocationsFollowIssue
  <2>1. /\ i \in Nat /\ j \in Nat
        /\ log[i].issuedAt \in Nat /\ log[j].issuedAt \in Nat
    <3>1. log[i] \in Payload /\ log[j] \in Payload
      BY DEF Inv, TypeOK
    <3>2. \A p \in Payload : p.issuedAt \in Nat
      BY DEF Payload
    <3> QED
      BY <3>1, <3>2 DEF Inv, TypeOK
  <2>2. CASE i < j
    BY <2>2, InvHistoryAccumulates DEF HistoryAccumulates
  <2>3. CASE j <= i
    BY <2>1, <2>3, InvHistoryAccumulates DEF HistoryAccumulates
  <2> QED
    BY <2>1, <2>2, <2>3
<1> QED
  BY SnapshotLogInvariant, <1>1, PTL
=============================================================================

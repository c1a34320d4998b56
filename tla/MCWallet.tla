------------------------------ MODULE MCWallet ------------------------------
(***************************************************************************)
(* A small instance of Wallet.                                             *)
(***************************************************************************)
EXTENDS Wallet, TLC

CONSTANTS m1, o1, k1, k2, d1, d2, c1, g1, g2, g3, g4, net, ch, a, b

Rec(ks) == [id |-> m1, status |-> "active", origins |-> {o1},
            keys |-> {[kid |-> x[1], data |-> x[2]] : x \in ks}]

Signed(n, from, digest, genuine, record, revoked) ==
  [payload |-> [sequence |-> n, issuedAt |-> from, expiresAt |-> from + Day, sourceCommit |-> c1,
                merchants |-> {record},
                revocations |-> {[merchantId |-> m1, kid |-> k, revokedAt |-> 0] : k \in revoked}],
   digest |-> digest, genuine |-> genuine]

\* A snapshot, another of the same sequence, their successor that rotates and revokes the
\* first key, and one that no pinned root signed.
SmallCompacts ==
  {Signed(1, 0, g1, TRUE, Rec({<<k1, d1>>}), {}),
   Signed(1, 0, g2, TRUE, Rec({<<k1, d1>>, <<k2, d2>>}), {}),
   Signed(2, 1, g3, TRUE, Rec({<<k2, d2>>}), {k1}),
   Signed(3, 0, g4, FALSE, Rec({<<k1, d2>>}), {})}

Bill(k, d, from, to, challenge) ==
  [merchantId |-> m1, kid |-> k, origin |-> o1, network |-> net, issuedAt |-> from,
   expiresAt |-> to, challenge |-> challenge, signer |-> d, payable |-> TRUE]

\* A portable invoice under the first key that outlives the first snapshot, and one bound
\* to a session under the second.
SmallInvoices == {Bill(k1, d1, 0, 4, NoChallenge), Bill(k2, d2, 1, 3, ch)}

SmallWindow == [d \in KeyData |-> [networks |-> {net}, notBefore |-> 0, expiresAt |-> 5]]

ASSUME GenuineAssumption == RevocationsAccumulate

CallSymmetry == Permutations(Calls)
=============================================================================

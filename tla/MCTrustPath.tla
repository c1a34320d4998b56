---------------------------- MODULE MCTrustPath ----------------------------
(***************************************************************************)
(* A small instance of TrustPath.                                          *)
(***************************************************************************)
EXTENDS TrustPath, TLC

CONSTANTS m1, o1, k1, d1, d2, c1, c2, ma, mb, dev, a, net, t1

Rec(d) == [id |-> m1, status |-> "active", origins |-> {o1}, keys |-> {[kid |-> k1, data |-> d]}]
Revoke == [merchantId |-> m1, kid |-> k1, revokedAt |-> 0]

\* A record; another key under its key ID, which is revoked.  A run that reads the records
\* of one commit and the revocations of the other makes all four combinations.
SmallTree == (c1 :> [records |-> {Rec(d1)}, revocations |-> {}])
          @@ (c2 :> [records |-> {Rec(d2)}, revocations |-> {Revoke}])

Snap(n, from, c, tree) ==
  [sequence |-> n, issuedAt |-> from, expiresAt |-> from + Day, sourceCommit |-> c,
   merchants |-> Tree[tree[1]].records, revocations |-> Tree[tree[2]].revocations]

\* Every snapshot the tool may record, and one that somebody else signed.
Snapshots == {Snap(n, from, c, tree) : n \in 1..MaxSequence, from \in 0..MaxTime, c \in Commits,
                                       tree \in Commits \X Commits}
Forged    == Snap(MaxSequence, 0, c1, <<c1, c1>>)

SmallCompacts ==
  {[payload |-> p, digest |-> p, genuine |-> TRUE] : p \in Snapshots}
    \cup {[payload |-> Forged, digest |-> Forged, genuine |-> FALSE]}

SmallInvoices ==
  {[merchantId |-> m1, kid |-> k1, origin |-> o1, network |-> net, issuedAt |-> 0,
    expiresAt |-> 3, challenge |-> NoChallenge, signer |-> d1, payable |-> TRUE]}

SmallWindow == [d \in KeyData |-> [networks |-> {net}, notBefore |-> 0, expiresAt |-> 4]]

\* A record is approved once, on proofs made at that moment; the checkout moves between
\* runs and between the two reads of a run; with a fault the operator's clock stands still.
InInstance ==
  /\ \A x, y \in approvals : x.record = y.record => x = y
  /\ faults = 0 \/ clock = 0
  /\ \A x \in approvals : x.proofsUntil = x.verifiedAt + Day
  /\ \A p \in Operators : run[p].pc \in {"lock", "load", "records"} => main = run[p].sourceCommit
=============================================================================

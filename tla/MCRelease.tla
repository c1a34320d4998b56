----------------------------- MODULE MCRelease -----------------------------
(***************************************************************************)
(* Small repositories for Release: the commits the checkout can be at.     *)
(***************************************************************************)
EXTENDS Release, TLC

CONSTANTS m1, m2, o1, o2, k1, k2, d1, d2, c1, c2, c3, c4, ma, mb, el, dev, a, b

Bind(k, d) == [kid |-> k, data |-> d]
Rec(m, s, o, ks) == [id |-> m, status |-> s, origins |-> {o}, keys |-> ks]
Revoke(m, k) == [merchantId |-> m, kid |-> k, revokedAt |-> 0]

First     == Rec(m1, "active", o1, {Bind(k1, d1)})
Rotated   == Rec(m1, "active", o1, {Bind(k2, d2)})
Suspended == Rec(m1, "suspended", o1, {Bind(k1, d1)})
Returned  == Rec(m1, "active", o1, {Bind(k1, d2), Bind(k2, d2)})

\* A first record; a rotation that revokes the old key; the old key ID back beside the new
\* one, bound to another key, with the revocation dropped (a run that reads the records of
\* one commit and the revocations of the other keeps it); a tombstone.
KeyTree ==
  LET tree == (c1 :> [records |-> {First}, revocations |-> {}])
           @@ (c2 :> [records |-> {Rotated}, revocations |-> {Revoke(m1, k1)}])
           @@ (c3 :> [records |-> {Returned}, revocations |-> {}])
           @@ (c4 :> [records |-> {Suspended}, revocations |-> {Revoke(m1, k1)}])
  IN  [c \in Commits |-> tree[c]]

\* The release run explores two instances in one state space.  Busy: two snapshots of c1 and
\* c2, each record approved once, with a fault, and either two operators at once or a clock
\* that moves.  Quiet: three snapshots of c1, c2 and c3, one operator at a time, no faults,
\* a clock that stands still; the checkout moves between runs and between the two reads of
\* a run.
OneAtATime == \A p, q \in Operators : p = q \/ At(p, "idle") \/ At(q, "idle")

NoTimePassed ==
  /\ clock = 0 /\ state.issuedAt = 0
  /\ \A p \in Operators : run[p].now = 0
  /\ \A x \in approvals : x.verifiedAt = 0

Busy ==
  /\ main # c3 /\ Len(log) <= 2
  /\ OneAtATime \/ NoTimePassed
  /\ \A x, y \in approvals : x.record # Returned /\ (x.record = y.record => x = y)
  /\ \A p \in Operators : run[p].sourceCommit # c3 /\ run[p].payload.sequence <= 2
  /\ \A i \in DOMAIN log : log[i].sourceCommit # c3

Quiet ==
  /\ faults = 0 /\ OneAtATime /\ NoTimePassed
  /\ \A p \in Operators : run[p].pc \in {"lock", "load", "records"} => main = run[p].sourceCommit

InInstance == Busy \/ Quiet

\* Operators only differ by name.
OperatorSymmetry == Permutations(Operators)
=============================================================================

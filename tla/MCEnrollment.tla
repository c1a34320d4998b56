---------------------------- MODULE MCEnrollment ----------------------------
(***************************************************************************)
(* Small instances of Enrollment: what pull requests propose.              *)
(***************************************************************************)
EXTENDS Enrollment, TLC

CONSTANTS m1, o1, k1, k2, d1, d2, h1, h2, h3, ma, mb, mc, el, dev, a, b, p1

Bind(k, d) == [kid |-> k, data |-> d]
Rec(s, ks) == [id |-> m1, status |-> s, origins |-> {o1}, keys |-> ks]

\* A first record, a rotation that drops its key, a suspension of the first record.
SmallContent ==
  LET content == (h1 :> Rec("active", {Bind(k1, d1)}))
              @@ (h2 :> Rec("active", {Bind(k2, d2)}))
              @@ (h3 :> Rec("suspended", {Bind(k1, d1)}))
  IN  [h \in Heads |-> content[h]]

ByDeveloper  == [n \in Pulls |-> dev]
ByMaintainer == [n \in Pulls |-> ma]

\* The first key data expires, the second does not.
SmallWindow == [d \in KeyData |-> [notBefore |-> 0, expiresAt |-> IF d = d1 THEN 1 ELSE 9]]

\* Two instances in one run.  Two operators race while the reviewer alone reviews, and
\* nothing fails; or one operator at a time works on two heads while maintainers review too, the
\* exception ends and a run may fail.
Racing    == clock = 0 /\ faults = 0 /\ \A n \in Pulls, w \in Maintainers : reviews[n][w] = NoReview
Reviewing ==
  /\ events <= 4 /\ \A n \in Pulls : head[n] # h3
  /\ \E p \in Operators : \A q \in Operators \ {p} : run[q] = Idle
InInstance == Racing \/ Reviewing

LoginSymmetry == Permutations(Maintainers \ {ma}) \cup Permutations(Operators)
=============================================================================

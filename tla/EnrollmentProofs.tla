-------------------------- MODULE EnrollmentProofs --------------------------
(***************************************************************************)
(* Proofs about Enrollment, for any number of operators, pull requests,    *)
(* maintainers, heads, pushes, reviews and faults, and any clock.          *)
(*                                                                         *)
(* The inductive invariant Inv adds to the properties that reviews, on     *)
(* GitHub and fetched, were really given (ReviewsGiven), that entries hold *)
(* valid records without the key IDs they retire (LedgerSound), and what a *)
(* process past the lock knows: the ledger is still the one it loaded, and *)
(* what it is about to write is allowed (RunsAgree).                       *)
(***************************************************************************)
EXTENDS Enrollment, TLAPS

\* Never two processes past the lock, and the lock is held while one is there.
LockHeldByOne ==
  \A p \in Operators : run[p].pc \in Critical =>
    /\ lock = "held"
    /\ \A q \in Operators : run[q].pc \in Critical => p = q

Works(p) == run[p].pc \in {"lock"} \cup Critical

\* Approvals that count were given, on GitHub and as fetched by a process.
ReviewsGiven ==
  /\ \A n \in Pulls, w \in Logins :
       reviews[n][w].state = "APPROVED" => <<n, w, reviews[n][w].commit>> \in approved
  /\ \A p \in Operators : Works(p) =>
       /\ \A w \in Logins : run[p].reviews[w].state = "APPROVED" =>
            <<run[p].pull, w, run[p].reviews[w].commit>> \in approved
       /\ \A w \in run[p].reviewers :
            <<run[p].pull, w, run[p].head>> \in approved /\ w # PullAuthor[run[p].pull]
       /\ ValidRecord(RecordOf(p))

LedgerSound ==
  \A e \in ledger : ValidRecord(e.record) /\ e.revokedKids \cap KidsOf(e.record) = {}

\* The local variables of a process past the lock agree with the ledger and the rules.
RunsAgree ==
  \A p \in Operators :
    /\ run[p].pc \in {"revocations", "verify", "recheck", "write"} =>
         /\ run[p].ledger = ledger /\ run[p].now <= clock
         /\ KidsKept(Prior(p), RecordOf(p)) /\ run[p].retired = Retired(Prior(p), RecordOf(p))
    /\ run[p].pc \in {"recheck", "write"} => run[p].proofsUntil <= run[p].now + Skew + Day
    /\ run[p].pc = "write" =>
         LET rule == Rule(run[p].acceptedAt)
         IN  /\ run[p].now <= run[p].acceptedAt /\ run[p].acceptedAt <= clock
             /\ run[p].reviewers \subseteq rule.maintainers \ {PullAuthor[run[p].pull]}
             /\ Cardinality(run[p].reviewers) >= rule.quorum

Inv == TypeOK /\ LockHeldByOne /\ EntryWasApproved /\ ReviewsGiven /\ LedgerSound /\ RunsAgree

Runs == {Idle} \cup Fetched \cup Working

USE DEF At

-----------------------------------------------------------------------------
(* What the steps of a process do to its local variables.                   *)

LEMMA RunTypes ==
  ASSUME TypeOK, NEW p \in Operators
  PROVE  /\ run \in [Operators -> Runs]
         /\ run[p].pc = "reviews" => run[p] \in Fetched
         /\ Works(p) => run[p] \in Working
         /\ Idle.pc = "idle"
<1>1. run[p] \in {Idle} \cup Fetched \cup Working
  BY DEF TypeOK
<1> QED
  BY <1>1 DEF TypeOK, Runs, Idle, Fetched, Working, Works, Critical

\* The steps that take a run one further, once the reviews are fetched.
Advances(p) ==
  \/ TakeLock(p) \/ LoadLedger(p) \/ ReadRevocations(p) \/ Recheck(p) \/ WriteLedger(p)
  \/ \E mode \in Modes, decision \in BOOLEAN, rotation \in Kids \cup {NoKid},
        until \in 0..(clock + Skew + Day) : Verify(p, mode, decision, rotation, until)

LEMMA PriorTypes ==
  ASSUME TypeOK, NEW p \in Operators, Works(p), NEW entries \in SUBSET Entry, NEW r \in Record
  PROVE  Retired(EntriesFor(entries, r.id), r) \in SUBSET Kids
BY DEF Retired, EntriesFor, Entry, KidsOf, Record, Key

\* A process at work keeps what it fetched.
LEMMA WorkStep ==
  ASSUME TypeOK, NEW p \in Operators, Advances(p)
  PROVE  /\ run[p] \in Working /\ run'[p] \in Working /\ run' \in [Operators -> Runs]
         /\ \A q \in Operators : q # p => run'[q] = run[q]
         /\ run'[p].pull = run[p].pull /\ run'[p].head = run[p].head
         /\ run'[p].reviews = run[p].reviews
         /\ UNCHANGED world
<1>t. run \in [Operators -> Runs] /\ run[p] \in Working
  BY RunTypes DEF Advances, TakeLock, LoadLedger, ReadRevocations, Recheck, WriteLedger, Verify,
                  Works, Critical
<1>f. /\ run[p].head \in Heads /\ Content[run[p].head] \in Record
      /\ clock \in Nat /\ ledger \in SUBSET Entry
  BY <1>t, EnrollmentAssumption DEF Working, TypeOK
<1>g. ASSUME NEW r \in Working, run' = [run EXCEPT ![p] = r],
             r.pull = run[p].pull, r.head = run[p].head, r.reviews = run[p].reviews
      PROVE  /\ run'[p] \in Working /\ run' \in [Operators -> Runs]
             /\ \A q \in Operators : q # p => run'[q] = run[q]
             /\ run'[p].pull = run[p].pull /\ run'[p].head = run[p].head
             /\ run'[p].reviews = run[p].reviews
  BY <1>t, <1>g DEF Runs
<1>1. CASE TakeLock(p)
  <2> DEFINE r == [run[p] EXCEPT !.pc = "load"]
  <2>1. r \in Working /\ r.pull = run[p].pull /\ r.head = run[p].head
        /\ r.reviews = run[p].reviews
    BY <1>t DEF Working, Critical
  <2>2. run' = [run EXCEPT ![p] = r] /\ UNCHANGED world
    BY <1>t, <1>1 DEF TakeLock
  <2> HIDE DEF r
  <2> QED
    BY <1>t, <1>g, <2>1, <2>2
<1>2. CASE LoadLedger(p)
  <2> DEFINE d == Retired(EntriesFor(ledger, RecordOf(p).id), RecordOf(p))
             r == [run[p] EXCEPT !.pc = "revocations", !.ledger = ledger, !.retired = d,
                                 !.now = clock]
  <2>1. d \in SUBSET Kids
    BY <1>f DEF Retired, EntriesFor, Entry, KidsOf, Record, Key, RecordOf
  <2>2. run' = [run EXCEPT ![p] = r] /\ UNCHANGED world
    BY <1>t, <1>2 DEF LoadLedger
  <2> HIDE DEF d
  <2>3. r \in Working /\ r.pull = run[p].pull /\ r.head = run[p].head
        /\ r.reviews = run[p].reviews
    BY <1>t, <1>f, <2>1 DEF Working, Critical
  <2> HIDE DEF r
  <2> QED
    BY <1>t, <1>g, <2>2, <2>3
<1>3. CASE ReadRevocations(p)
  <2> DEFINE d == {x[2] : x \in {y \in revocations : y[1] = RecordOf(p).id}}
                    \cup UNION {e.revokedKids : e \in Prior(p)}
             r == [run[p] EXCEPT !.pc = "verify", !.barred = d]
  <2>1. d \in SUBSET Kids
    BY <1>t, <1>f DEF TypeOK, Prior, EntriesFor, Entry, Working
  <2>2. run' = [run EXCEPT ![p] = r] /\ UNCHANGED world
    BY <1>t, <1>3 DEF ReadRevocations
  <2> HIDE DEF d
  <2>3. r \in Working /\ r.pull = run[p].pull /\ r.head = run[p].head
        /\ r.reviews = run[p].reviews
    BY <1>t, <1>f, <2>1 DEF Working, Critical
  <2> HIDE DEF r
  <2> QED
    BY <1>t, <1>g, <2>2, <2>3
<1>4. CASE Recheck(p)
  <2> DEFINE d == ApprovedBy(run[p].pull, run[p].head, run[p].reviews, clock)
             r == [run[p] EXCEPT !.pc = "write", !.acceptedAt = clock, !.reviewers = d]
  <2>1. d \in SUBSET Logins
    BY DEF ApprovedBy, Rule, Logins
  <2>2. run' = [run EXCEPT ![p] = r] /\ UNCHANGED world
    BY <1>t, <1>4 DEF Recheck
  <2> HIDE DEF d
  <2>3. r \in Working /\ r.pull = run[p].pull /\ r.head = run[p].head
        /\ r.reviews = run[p].reviews
    BY <1>t, <1>f, <2>1 DEF Working, Critical
  <2> HIDE DEF r
  <2> QED
    BY <1>t, <1>g, <2>2, <2>3
<1>5. CASE WriteLedger(p)
  <2> DEFINE r == [run[p] EXCEPT !.pc = "unlock"]
  <2>1. r \in Working /\ r.pull = run[p].pull /\ r.head = run[p].head
        /\ r.reviews = run[p].reviews
    BY <1>t DEF Working, Critical
  <2>2. run' = [run EXCEPT ![p] = r] /\ UNCHANGED world
    BY <1>t, <1>5 DEF WriteLedger
  <2> HIDE DEF r
  <2> QED
    BY <1>t, <1>g, <2>1, <2>2
<1>6. ASSUME NEW mode \in Modes, NEW decision \in BOOLEAN, NEW rotation \in Kids \cup {NoKid},
             NEW until \in 0..(clock + Skew + Day), Verify(p, mode, decision, rotation, until)
      PROVE  /\ run'[p] \in Working /\ run' \in [Operators -> Runs]
             /\ \A q \in Operators : q # p => run'[q] = run[q]
             /\ run'[p].pull = run[p].pull /\ run'[p].head = run[p].head
             /\ run'[p].reviews = run[p].reviews
             /\ UNCHANGED world
  <2> DEFINE r == [run[p] EXCEPT !.pc = "recheck", !.mode = mode, !.decision = decision,
                                 !.proofsUntil = until]
  <2>1. r \in Working /\ r.pull = run[p].pull /\ r.head = run[p].head
        /\ r.reviews = run[p].reviews
    <3>1. until \in Nat
      BY <1>f, NumbersAssumption
    <3>2. CASE decision = TRUE
      BY <1>t, <3>1, <3>2 DEF Working, Critical
    <3>3. CASE decision = FALSE
      BY <1>t, <3>1, <3>3 DEF Working, Critical
    <3> QED
      BY <3>2, <3>3
  <2>2. run' = [run EXCEPT ![p] = r] /\ UNCHANGED world
    BY <1>t, <1>6 DEF Verify
  <2> HIDE DEF r
  <2> QED
    BY <1>g, <2>1, <2>2
<1> QED
  BY <1>t, <1>1, <1>2, <1>3, <1>4, <1>5, <1>6 DEF Advances

LEMMA FetchReviewsStep ==
  ASSUME TypeOK, NEW p \in Operators, FetchReviews(p)
  PROVE  /\ run'[p] \in Working /\ run' \in [Operators -> Runs] /\ run'[p].pc = "lock"
         /\ \A q \in Operators : q # p => run'[q] = run[q]
         /\ run'[p].pull = run[p].pull /\ run'[p].head = run[p].head
         /\ run'[p].reviews = reviews[run[p].pull]
         /\ run'[p].reviewers = ApprovedBy(run[p].pull, run[p].head, reviews[run[p].pull], clock)
         /\ ValidRecord(RecordOf(p))
         /\ UNCHANGED <<world, ledger, lock, faults>>
<1>t. run \in [Operators -> Runs] /\ run[p] \in Fetched
  BY RunTypes DEF FetchReviews
<1> DEFINE r == run[p]
           d == ApprovedBy(r.pull, r.head, reviews[r.pull], clock)
           s == [pc |-> "lock", pull |-> r.pull, head |-> r.head, isOpen |-> r.isOpen,
                 reviews |-> reviews[r.pull], reviewers |-> d,
                 ledger |-> {}, retired |-> {}, barred |-> {}, now |-> 0, mode |-> "normal",
                 decision |-> FALSE, proofsUntil |-> 0, acceptedAt |-> 0]
<1>1. /\ run' = [run EXCEPT ![p] = s] /\ ValidRecord(RecordOf(p))
      /\ UNCHANGED <<world, ledger, lock, faults>>
  BY DEF FetchReviews
<1>2. d \in SUBSET Logins
  BY DEF ApprovedBy, Rule, Logins
<1>3. /\ r.pull \in Pulls /\ r.head \in Heads /\ r.isOpen \in BOOLEAN
      /\ reviews[r.pull] \in [Logins -> {NoReview} \cup Review]
  BY <1>t DEF Fetched, TypeOK
<1> HIDE DEF d
<1>4. s \in Working
  BY <1>2, <1>3 DEF Working, Modes
<1>5. s.pc = "lock" /\ s.pull = r.pull /\ s.head = r.head /\ s.reviews = reviews[r.pull]
        /\ s.reviewers = d
  OBVIOUS
<1> HIDE DEF s
<1> QED
  BY <1>t, <1>1, <1>4, <1>5 DEF Runs, d

\* The steps that end a run.
Ends(p) == LockBusy(p) \/ Unlock(p) \/ Refuse(p) \/ Fail(p) \/ Crash(p)

LEMMA EndStep ==
  ASSUME TypeOK, NEW p \in Operators, Ends(p)
  PROVE  /\ run' = [run EXCEPT ![p] = Idle]
         /\ run' \in [Operators -> Runs] /\ run'[p] = Idle
         /\ \A q \in Operators : q # p => run'[q] = run[q]
         /\ lock' \in {lock, "free", "stale"}
         /\ run[p].pc \notin Critical => lock' = lock
         /\ faults' \in Nat
         /\ UNCHANGED <<world, ledger>>
<1>t. run \in [Operators -> Runs] /\ faults \in Nat
  BY DEF TypeOK, Runs
<1>1. run' = [run EXCEPT ![p] = Idle] /\ UNCHANGED <<world, ledger>>
  BY DEF Ends, LockBusy, Unlock, Refuse, Fail, Crash, Abandon
<1>2. /\ lock' \in {lock, "free", "stale"} /\ faults' \in Nat
      /\ run[p].pc \notin Critical => lock' = lock
  BY <1>t DEF Ends, LockBusy, Unlock, Refuse, Fail, Crash, Abandon
<1> QED
  BY <1>t, <1>1, <1>2 DEF Runs

\* What goes on around the processes.
Around ==
  \/ \E n \in Pulls :
       \/ Push(n) \/ CloseOrReopen(n)
       \/ \E w \in Logins : DismissReview(n, w)
                              \/ \E s \in {"APPROVED", "CHANGES_REQUESTED"} : SubmitReview(n, w, s)
  \/ \E m \in Merchants, kid \in Kids : Revoke(m, kid)
  \/ Tick \/ RemoveStaleLock

LEMMA Split ==
  ASSUME [Next]_vars
  PROVE  \/ \E p \in Operators : \/ \E n \in Pulls : FetchPull(p, n)
                                 \/ FetchReviews(p) \/ Advances(p) \/ Ends(p)
         \/ Around \/ UNCHANGED vars
BY DEF Next, Advances, Ends, Around

LEMMA AroundStep ==
  ASSUME TypeOK, Around
  PROVE  /\ ledger' = ledger /\ run' = run /\ faults' = faults
         /\ approved \subseteq approved' /\ clock <= clock'
         /\ lock' = lock \/ (lock = "stale" /\ lock' = "free")
<1> USE DEF github, world
<1>1. ASSUME NEW n \in Pulls, Push(n) \/ CloseOrReopen(n)
      PROVE  UNCHANGED <<ledger, run, faults, approved, clock, lock>>
  BY <1>1 DEF Push, CloseOrReopen
<1>2. ASSUME NEW n \in Pulls, NEW w \in Logins, DismissReview(n, w)
      PROVE  UNCHANGED <<ledger, run, faults, approved, clock, lock>>
  BY <1>2 DEF DismissReview
<1>3. ASSUME NEW n \in Pulls, NEW w \in Logins, NEW s \in {"APPROVED", "CHANGES_REQUESTED"},
             SubmitReview(n, w, s)
      PROVE  UNCHANGED <<ledger, run, faults, clock, lock>> /\ approved \subseteq approved'
  BY <1>3 DEF SubmitReview
<1>4. ASSUME NEW m \in Merchants, NEW kid \in Kids, Revoke(m, kid)
      PROVE  UNCHANGED <<ledger, run, faults, approved, clock, lock>>
  BY <1>4 DEF Revoke
<1>5. ASSUME Tick
      PROVE  UNCHANGED <<ledger, run, faults, approved, lock>> /\ clock' = clock + 1
  BY <1>5 DEF Tick
<1>6. ASSUME RemoveStaleLock
      PROVE  /\ UNCHANGED <<ledger, run, faults, approved, clock>>
             /\ lock = "stale" /\ lock' = "free"
  BY <1>6 DEF RemoveStaleLock
<1>7. clock \in Nat
  BY DEF TypeOK
<1>8. /\ ledger' = ledger /\ run' = run /\ faults' = faults
      /\ approved \subseteq approved' /\ clock' \in {clock, clock + 1}
      /\ lock' = lock \/ (lock = "stale" /\ lock' = "free")
  BY <1>1, <1>2, <1>3, <1>4, <1>5, <1>6 DEF Around
<1> QED
  BY <1>7, <1>8

LEMMA FetchPullStep ==
  ASSUME TypeOK, NEW p \in Operators, NEW n \in Pulls, FetchPull(p, n)
  PROVE  /\ run' \in [Operators -> Runs] /\ run'[p].pc = "reviews"
         /\ \A q \in Operators : q # p => run'[q] = run[q]
         /\ UNCHANGED <<world, ledger, lock, faults>>
<1> DEFINE s == [pc |-> "reviews", pull |-> n, head |-> head[n], isOpen |-> isOpen[n]]
<1>1. s \in Fetched /\ s.pc = "reviews"
  BY DEF TypeOK, Fetched
<1>2. run' = [run EXCEPT ![p] = s] /\ UNCHANGED <<world, ledger, lock, faults>>
  BY DEF FetchPull
<1> HIDE DEF s
<1> QED
  BY <1>1, <1>2, RunTypes DEF Runs

-----------------------------------------------------------------------------
(* Every step keeps the types.                                              *)

\* What is known of the entry a process is about to write.
LEMMA EntryType ==
  ASSUME TypeOK, NEW p \in Operators, run[p].pc = "write"
  PROVE  /\ EntryOf(p) \in Entry /\ EntryOf(p).record = RecordOf(p)
         /\ EntryOf(p).sourceCommit = run[p].head /\ EntryOf(p).pull = run[p].pull
         /\ EntryOf(p).reviewers = run[p].reviewers
         /\ EntryOf(p).author = PullAuthor[run[p].pull]
         /\ EntryOf(p).revokedKids = run[p].retired
         /\ EntryOf(p).verifiedAt = run[p].acceptedAt
         /\ EntryOf(p).proofsUntil = run[p].proofsUntil
         /\ EntryOf(p).exceptional = Rule(run[p].acceptedAt).exceptional
<1>1. run[p] \in Working
  BY RunTypes DEF Works, Critical
<1>2. /\ RecordOf(p) \in Record /\ PullAuthor[run[p].pull] \in Authors
      /\ run[p].decision \in BOOLEAN
  BY <1>1, EnrollmentAssumption DEF RecordOf, Working
<1>3. Rule(run[p].acceptedAt).exceptional \in BOOLEAN
  BY DEF Rule
<1> QED
  BY <1>1, <1>2, <1>3 DEF EntryOf, Entry, Working

LEMMA TypeStep ==
  ASSUME Inv, [Next]_vars
  PROVE  TypeOK'
<1>t. TypeOK
  BY DEF Inv
<1>1. ASSUME NEW p \in Operators, NEW n \in Pulls, FetchPull(p, n) PROVE TypeOK'
  BY <1>t, <1>1, FetchPullStep DEF TypeOK, Runs, world, github
<1>2. ASSUME NEW p \in Operators, FetchReviews(p) PROVE TypeOK'
  BY <1>t, <1>2, FetchReviewsStep DEF TypeOK, Runs, world, github
<1>3. ASSUME NEW p \in Operators, Advances(p), ~WriteLedger(p) PROVE TypeOK'
  <2>1. run' \in [Operators -> Runs] /\ UNCHANGED world
    BY <1>t, <1>3, WorkStep
  <2>2. ledger' = ledger /\ lock' \in {lock, "held"} /\ faults' = faults
    BY <1>3 DEF Advances, TakeLock, LoadLedger, ReadRevocations, Recheck, Verify
  <2> QED
    BY <1>t, <2>1, <2>2 DEF TypeOK, Runs, world, github
<1>4. ASSUME NEW p \in Operators, WriteLedger(p) PROVE TypeOK'
  <2>1. run' \in [Operators -> Runs] /\ UNCHANGED world
    BY <1>t, <1>4, WorkStep DEF Advances
  <2>2. /\ ledger' = (ledger \ EntriesFor(ledger, RecordOf(p).id)) \cup {EntryOf(p)}
        /\ UNCHANGED <<lock, faults>>
    BY <1>4 DEF WriteLedger, Prior, Inv, RunsAgree
  <2>3. EntryOf(p) \in Entry /\ EntryOf(p).record = RecordOf(p)
    BY <1>t, <1>4, EntryType DEF WriteLedger
  <2>4. /\ ledger' \in SUBSET Entry
        /\ \A d, e \in ledger' : d.record.id = e.record.id => d = e
    BY <1>t, <2>2, <2>3 DEF TypeOK, EntriesFor
  <2> QED
    BY <1>t, <2>1, <2>2, <2>4 DEF TypeOK, Runs, world, github
<1>5. ASSUME NEW p \in Operators, Ends(p) PROVE TypeOK'
  BY <1>t, <1>5, EndStep DEF TypeOK, Runs, world, github
<1>6. CASE Around
  <2> USE DEF TypeOK
  <2>0. ASSUME NEW n \in Pulls, Push(n) PROVE TypeOK'
    BY <1>t, <2>0 DEF Push
  <2>1. ASSUME NEW n \in Pulls, CloseOrReopen(n) PROVE TypeOK'
    <3> DEFINE b == ~isOpen[n]
    <3>1. b \in BOOLEAN /\ isOpen' = [isOpen EXCEPT ![n] = b]
      BY <2>1 DEF CloseOrReopen
    <3> HIDE DEF b
    <3>2. isOpen' \in [Pulls -> BOOLEAN]
      BY <1>t, <3>1
    <3> QED
      BY <1>t, <2>1, <3>2 DEF CloseOrReopen
  <2>2. ASSUME NEW n \in Pulls, NEW w \in Logins, DismissReview(n, w) PROVE TypeOK'
    BY <1>t, <2>2 DEF DismissReview
  <2>3. ASSUME NEW n \in Pulls, NEW w \in Logins, NEW s \in {"APPROVED", "CHANGES_REQUESTED"},
               SubmitReview(n, w, s)
        PROVE  TypeOK'
    <3> DEFINE v == [state |-> s, commit |-> head[n]]
    <3>1. v \in Review
      BY <1>t DEF Review
    <3>2. reviews' = [reviews EXCEPT ![n][w] = v]
      BY <2>3 DEF SubmitReview
    <3> HIDE DEF v
    <3>3. reviews' \in [Pulls -> [Logins -> {NoReview} \cup Review]]
      BY <1>t, <3>1, <3>2
    <3>4. approved' \in SUBSET (Pulls \X Logins \X Heads)
      BY <1>t, <2>3 DEF SubmitReview
    <3> QED
      BY <1>t, <2>3, <3>3, <3>4 DEF SubmitReview
  <2>4. CASE Tick \/ RemoveStaleLock \/ \E m \in Merchants, kid \in Kids : Revoke(m, kid)
    BY <1>t, <2>4 DEF Tick, RemoveStaleLock, Revoke, github, world
  <2> QED
    BY <1>6, <2>0, <2>1, <2>2, <2>3, <2>4 DEF Around
<1>7. CASE UNCHANGED vars
  BY <1>t, <1>7 DEF vars, TypeOK
<1> QED
  BY <1>1, <1>2, <1>3, <1>4, <1>5, <1>6, <1>7, Split

-----------------------------------------------------------------------------
(* Every step keeps the lock to one process.                                *)

LEMMA LockStep ==
  ASSUME Inv, [Next]_vars
  PROVE  LockHeldByOne'
<1> USE DEF LockHeldByOne
<1>t. TypeOK /\ LockHeldByOne
  BY DEF Inv
<1>1. ASSUME NEW p \in Operators, NEW n \in Pulls, FetchPull(p, n) PROVE LockHeldByOne'
  BY <1>t, <1>1, FetchPullStep DEF Critical
<1>2. ASSUME NEW p \in Operators, FetchReviews(p) PROVE LockHeldByOne'
  BY <1>t, <1>2, FetchReviewsStep DEF Critical
<1>3. ASSUME NEW p \in Operators, TakeLock(p) PROVE LockHeldByOne'
  <2>1. /\ lock = "free" /\ lock' = "held"
        /\ \A q \in Operators : q # p => run'[q] = run[q]
    BY <1>t, <1>3, WorkStep DEF TakeLock, Advances
  <2> QED
    BY <1>t, <2>1
<1>4. ASSUME NEW p \in Operators, Advances(p), ~TakeLock(p) PROVE LockHeldByOne'
  <2>1. run[p].pc \in Critical /\ lock' = lock
    BY <1>4 DEF Advances, LoadLedger, ReadRevocations, Verify, Recheck, WriteLedger, Critical
  <2>2. \A q \in Operators : q # p => run'[q] = run[q]
    BY <1>t, <1>4, WorkStep
  <2> QED
    BY <1>t, <2>1, <2>2
<1>5. ASSUME NEW p \in Operators, Ends(p) PROVE LockHeldByOne'
  <2>1. /\ run'[p].pc = "idle" /\ (run[p].pc \notin Critical => lock' = lock)
        /\ \A q \in Operators : q # p => run'[q] = run[q]
    BY <1>t, <1>5, EndStep, RunTypes
  <2>2. "idle" \notin Critical
    BY DEF Critical
  <2> QED
    BY <1>t, <2>1, <2>2
<1>6. CASE Around \/ UNCHANGED vars
  BY <1>t, <1>6, AroundStep DEF vars
<1> QED
  BY <1>1, <1>2, <1>3, <1>4, <1>5, <1>6, Split

-----------------------------------------------------------------------------
(* Every step keeps entries and reviews to approvals that were given.       *)

LEMMA WorldStep ==
  ASSUME TypeOK, [Next]_vars
  PROVE  /\ UNCHANGED world \/ Around
         /\ approved \subseteq approved'
<1>1. ASSUME NEW p \in Operators, NEW n \in Pulls, FetchPull(p, n) PROVE UNCHANGED world
  BY <1>1, FetchPullStep
<1>2. ASSUME NEW p \in Operators, FetchReviews(p) \/ Advances(p) \/ Ends(p)
      PROVE  UNCHANGED world
  BY <1>2, FetchReviewsStep, WorkStep, EndStep
<1>3. UNCHANGED vars => UNCHANGED world
  BY DEF vars, world, github
<1>4. UNCHANGED world \/ Around
  BY <1>1, <1>2, <1>3, Split
<1>5. UNCHANGED world => approved' = approved
  BY DEF world, github
<1> QED
  BY <1>4, <1>5, AroundStep

\* Only one step writes the ledger.
LEMMA LedgerStep ==
  ASSUME Inv, [Next]_vars
  PROVE  \/ ledger' = ledger
         \/ \E p \in Operators :
              /\ WriteLedger(p) /\ run[p].pc = "write" /\ run[p].ledger = ledger
              /\ ledger' = (ledger \ Prior(p)) \cup {EntryOf(p)}
<1>1. ASSUME NEW p \in Operators, NEW n \in Pulls, FetchPull(p, n) PROVE ledger' = ledger
  BY <1>1 DEF FetchPull
<1>2. ASSUME NEW p \in Operators, FetchReviews(p) PROVE ledger' = ledger
  BY <1>2 DEF FetchReviews
<1>3. ASSUME NEW p \in Operators, Advances(p), ~WriteLedger(p) PROVE ledger' = ledger
  BY <1>3 DEF Advances, TakeLock, LoadLedger, ReadRevocations, Recheck, Verify
<1>4. ASSUME NEW p \in Operators, Ends(p) PROVE ledger' = ledger
  BY <1>4, EndStep DEF Inv
<1>5. ASSUME NEW p \in Operators, WriteLedger(p)
      PROVE  /\ run[p].pc = "write" /\ run[p].ledger = ledger
             /\ ledger' = (ledger \ Prior(p)) \cup {EntryOf(p)}
  BY <1>5 DEF WriteLedger, Inv, RunsAgree
<1>6. Around \/ UNCHANGED vars => ledger' = ledger
  BY AroundStep DEF vars, Inv
<1> QED
  BY <1>1, <1>2, <1>3, <1>4, <1>5, <1>6, Split

LEMMA EntriesStep ==
  ASSUME Inv, [Next]_vars
  PROVE  EntryWasApproved'
<1>1. EntryWasApproved /\ approved \subseteq approved'
  BY WorldStep DEF Inv
<1>2. CASE ledger' = ledger
  BY <1>1, <1>2 DEF EntryWasApproved
<1>3. ASSUME NEW p \in Operators, run[p].pc = "write",
             ledger' = (ledger \ Prior(p)) \cup {EntryOf(p)}
      PROVE  EntryWasApproved'
  <2>1. \A w \in run[p].reviewers :
          <<run[p].pull, w, run[p].head>> \in approved /\ w # PullAuthor[run[p].pull]
    BY <1>3 DEF Inv, ReviewsGiven, Works, Critical
  <2>2. /\ EntryOf(p).record = Content[EntryOf(p).sourceCommit]
        /\ \A w \in EntryOf(p).reviewers :
             /\ <<EntryOf(p).pull, w, EntryOf(p).sourceCommit>> \in approved
             /\ w # EntryOf(p).author
    BY <1>3, <2>1, EntryType DEF Inv, RecordOf
  <2> QED
    BY <1>1, <1>3, <2>2 DEF EntryWasApproved
<1> QED
  BY <1>2, <1>3, LedgerStep

\* Fetched reviews and the reviewers taken from them.
GivenTo(p) ==
  /\ \A w \in Logins : run[p].reviews[w].state = "APPROVED" =>
       <<run[p].pull, w, run[p].reviews[w].commit>> \in approved
  /\ \A w \in run[p].reviewers :
       <<run[p].pull, w, run[p].head>> \in approved /\ w # PullAuthor[run[p].pull]
  /\ ValidRecord(RecordOf(p))

LEMMA ReviewsStep ==
  ASSUME Inv, [Next]_vars
  PROVE  ReviewsGiven'
<1>t. /\ TypeOK /\ approved \subseteq approved'
      /\ \A n \in Pulls, w \in Logins :
           reviews[n][w].state = "APPROVED" => <<n, w, reviews[n][w].commit>> \in approved
      /\ \A p \in Operators : Works(p) => GivenTo(p)
  BY WorldStep DEF Inv, ReviewsGiven, GivenTo
<1>1. \A n \in Pulls, w \in Logins :
        reviews'[n][w].state = "APPROVED" => <<n, w, reviews'[n][w].commit>> \in approved'
  <2>1. CASE UNCHANGED reviews
    BY <1>t, <2>1
  <2>2. ASSUME NEW n \in Pulls, NEW w \in Logins, DismissReview(n, w)
        PROVE  \A k \in Pulls, v \in Logins :
                 reviews'[k][v].state = "APPROVED" => <<k, v, reviews'[k][v].commit>> \in approved'
    <3>1. reviews' = [reviews EXCEPT ![n][w] = NoReview] /\ NoReview.state = "none"
      BY <2>2 DEF DismissReview, NoReview
    <3>2. reviews \in [Pulls -> [Logins -> {NoReview} \cup Review]]
      BY <1>t DEF TypeOK
    <3> QED
      BY <1>t, <3>1, <3>2
  <2>3. ASSUME NEW n \in Pulls, NEW w \in Logins, NEW s \in {"APPROVED", "CHANGES_REQUESTED"},
               SubmitReview(n, w, s)
        PROVE  \A k \in Pulls, v \in Logins :
                 reviews'[k][v].state = "APPROVED" => <<k, v, reviews'[k][v].commit>> \in approved'
    <3> DEFINE x == [state |-> s, commit |-> head[n]]
    <3>1. /\ reviews' = [reviews EXCEPT ![n][w] = x] /\ x.state = s /\ x.commit = head[n]
          /\ s = "APPROVED" => <<n, w, head[n]>> \in approved'
      BY <2>3 DEF SubmitReview
    <3>2. reviews \in [Pulls -> [Logins -> {NoReview} \cup Review]]
      BY <1>t DEF TypeOK
    <3> HIDE DEF x
    <3> QED
      BY <1>t, <3>1, <3>2
  <2>4. UNCHANGED world => UNCHANGED reviews
    BY DEF world, github
  <2>5. \/ UNCHANGED reviews
        \/ \E n \in Pulls, w \in Logins :
             DismissReview(n, w)
               \/ \E s \in {"APPROVED", "CHANGES_REQUESTED"} : SubmitReview(n, w, s)
    BY <2>4, WorldStep, <1>t DEF Around, Push, CloseOrReopen, Revoke, Tick, RemoveStaleLock, github,
                                world
  <2> QED
    BY <2>1, <2>2, <2>3, <2>5
<1>2. ASSUME NEW p \in Operators, run'[p] = run[p], Works(p) PROVE GivenTo(p)'
  BY <1>t, <1>2 DEF GivenTo, RecordOf
<1>3. ASSUME NEW p \in Operators, FetchReviews(p) PROVE GivenTo(p)'
  <2>1. run[p].pull \in Pulls
    BY <1>3, <1>t, RunTypes DEF FetchReviews, Fetched
  <2>2. \A w \in Logins : reviews[run[p].pull][w].state = "APPROVED" =>
          <<run[p].pull, w, reviews[run[p].pull][w].commit>> \in approved'
    BY <1>t, <2>1
  <2>3. \A w \in ApprovedBy(run[p].pull, run[p].head, reviews[run[p].pull], clock) :
          <<run[p].pull, w, run[p].head>> \in approved' /\ w # PullAuthor[run[p].pull]
    BY <2>2 DEF ApprovedBy, Rule, Logins
  <2> QED
    BY <1>3, <1>t, <2>2, <2>3, FetchReviewsStep DEF GivenTo, RecordOf
<1>4. ASSUME NEW p \in Operators, Advances(p) PROVE GivenTo(p)'
  <2>1. /\ Works(p) /\ run'[p].pull = run[p].pull /\ run'[p].head = run[p].head
        /\ run'[p].reviews = run[p].reviews
    BY <1>4, <1>t, WorkStep DEF Advances, TakeLock, LoadLedger, ReadRevocations, Recheck,
                              WriteLedger, Verify, Works, Critical
  <2>2. \/ run'[p].reviewers = run[p].reviewers
        \/ run'[p].reviewers = ApprovedBy(run[p].pull, run[p].head, run[p].reviews, clock)
    <3>1. run \in [Operators -> Runs] /\ run[p] \in Working
      BY <1>4, <1>t, WorkStep, RunTypes
    <3>2. CASE TakeLock(p) \/ WriteLedger(p)
      BY <3>1, <3>2 DEF TakeLock, WriteLedger, Working
    <3>3. CASE LoadLedger(p)
      BY <3>1, <3>3 DEF LoadLedger, Working
    <3>4. CASE ReadRevocations(p)
      BY <3>1, <3>4 DEF ReadRevocations, Working
    <3>5. CASE Recheck(p)
      BY <3>1, <3>5 DEF Recheck, Working
    <3>6. ASSUME NEW mode \in Modes, NEW decision \in BOOLEAN, NEW rotation \in Kids \cup {NoKid},
                 NEW until \in 0..(clock + Skew + Day), Verify(p, mode, decision, rotation, until)
          PROVE  run'[p].reviewers = run[p].reviewers
      BY <3>1, <3>6 DEF Verify, Working
    <3> QED
      BY <1>4, <3>2, <3>3, <3>4, <3>5, <3>6 DEF Advances
  <2>3. \A w \in ApprovedBy(run[p].pull, run[p].head, run[p].reviews, clock) :
          <<run[p].pull, w, run[p].head>> \in approved /\ w # PullAuthor[run[p].pull]
    BY <1>t, <2>1 DEF GivenTo, ApprovedBy, Rule, Logins
  <2> QED
    BY <1>t, <2>1, <2>2, <2>3 DEF GivenTo, RecordOf
<1>5. \A p \in Operators : Works(p)' => GivenTo(p)'
  <2> SUFFICES ASSUME NEW q \in Operators, Works(q)' PROVE GivenTo(q)'
    OBVIOUS
  <2>1. ASSUME run'[q] = run[q] PROVE GivenTo(q)'
    BY <1>2, <2>1 DEF Works
  <2>2. ASSUME NEW p \in Operators, NEW n \in Pulls, FetchPull(p, n) PROVE GivenTo(q)'
    BY <2>1, <2>2, <1>t, FetchPullStep DEF Works, Critical
  <2>3. ASSUME NEW p \in Operators, FetchReviews(p) PROVE GivenTo(q)'
    BY <2>1, <2>3, <1>3, <1>t, FetchReviewsStep
  <2>4. ASSUME NEW p \in Operators, Advances(p) PROVE GivenTo(q)'
    BY <2>1, <2>4, <1>4, <1>t, WorkStep
  <2>5. ASSUME NEW p \in Operators, Ends(p) PROVE GivenTo(q)'
    BY <2>1, <2>5, <1>t, EndStep, RunTypes DEF Works, Critical
  <2>6. CASE Around \/ UNCHANGED vars
    BY <2>1, <2>6, <1>t, AroundStep DEF vars
  <2> QED
    BY <2>2, <2>3, <2>4, <2>5, <2>6, Split
<1> QED
  BY <1>1, <1>5 DEF ReviewsGiven, GivenTo

-----------------------------------------------------------------------------
(* Every step keeps entries sound and the processes' view of the ledger.    *)

LEMMA SoundStep ==
  ASSUME Inv, [Next]_vars
  PROVE  LedgerSound'
<1>1. CASE ledger' = ledger
  BY <1>1 DEF Inv, LedgerSound
<1>2. ASSUME NEW p \in Operators, run[p].pc = "write",
             ledger' = (ledger \ Prior(p)) \cup {EntryOf(p)}
      PROVE  LedgerSound'
  <2>1. /\ ValidRecord(RecordOf(p)) /\ KidsKept(Prior(p), RecordOf(p))
        /\ run[p].retired = Retired(Prior(p), RecordOf(p))
    BY <1>2 DEF Inv, ReviewsGiven, RunsAgree, Works, Critical
  <2>2. EntryOf(p).record = RecordOf(p) /\ EntryOf(p).revokedKids = run[p].retired
    BY <1>2, EntryType DEF Inv
  <2>3. EntryOf(p).revokedKids \cap KidsOf(EntryOf(p).record) = {}
    BY <2>1, <2>2 DEF KidsKept
  <2> QED
    BY <1>2, <2>1, <2>2, <2>3 DEF Inv, LedgerSound
<1> QED
  BY <1>1, <1>2, LedgerStep

\* RunsAgree, of one process.
Agrees(p) ==
  /\ run[p].pc \in {"revocations", "verify", "recheck", "write"} =>
       /\ run[p].ledger = ledger /\ run[p].now <= clock
       /\ KidsKept(Prior(p), RecordOf(p)) /\ run[p].retired = Retired(Prior(p), RecordOf(p))
  /\ run[p].pc \in {"recheck", "write"} => run[p].proofsUntil <= run[p].now + Skew + Day
  /\ run[p].pc = "write" =>
       LET rule == Rule(run[p].acceptedAt)
       IN  /\ run[p].now <= run[p].acceptedAt /\ run[p].acceptedAt <= clock
           /\ run[p].reviewers \subseteq rule.maintainers \ {PullAuthor[run[p].pull]}
           /\ Cardinality(run[p].reviewers) >= rule.quorum

\* Nothing a process knows is undone by the others.
LEMMA StillAgrees ==
  ASSUME TypeOK, NEW p \in Operators, Agrees(p), run'[p] = run[p],
         ledger' = ledger \/ run[p].pc \notin Critical,
         clock' \in Nat, clock <= clock'
  PROVE  Agrees(p)'
<1>1. /\ clock \in Nat
      /\ Works(p) => run[p].now \in Nat /\ run[p].acceptedAt \in Nat
  BY RunTypes DEF TypeOK, Working
<1>2. Prior(p)' = Prior(p) /\ RecordOf(p)' = RecordOf(p)
  BY DEF Prior, RecordOf
<1> QED
  BY <1>1, <1>2 DEF Agrees, Works, Critical

LEMMA AdvanceAgrees ==
  ASSUME Inv, NEW p \in Operators, Agrees(p), Advances(p)
  PROVE  Agrees(p)'
<1>t. /\ TypeOK /\ run \in [Operators -> Runs] /\ run[p] \in Working /\ clock \in Nat
      /\ run'[p].head = run[p].head /\ run'[p].pull = run[p].pull
      /\ clock' = clock
  BY WorkStep, RunTypes DEF Inv, TypeOK, world
<1>n. /\ run[p].now \in Nat /\ run[p].proofsUntil \in Nat /\ run[p].acceptedAt \in Nat
      /\ Skew \in Nat /\ Day \in Nat
  BY <1>t, NumbersAssumption DEF Working
<1>r. RecordOf(p)' = RecordOf(p)
  BY <1>t DEF RecordOf
<1>1. CASE TakeLock(p) \/ WriteLedger(p)
  <2>1. run'[p].pc \in {"load", "unlock"}
    BY <1>t, <1>1 DEF TakeLock, WriteLedger, Working
  <2> QED
    BY <2>1 DEF Agrees
<1>2. CASE LoadLedger(p)
  <2>1. /\ run'[p].pc = "revocations" /\ run'[p].ledger = ledger /\ run'[p].now = clock
        /\ run'[p].retired = Retired(EntriesFor(ledger, RecordOf(p).id), RecordOf(p))
        /\ KidsKept(EntriesFor(ledger, RecordOf(p).id), RecordOf(p)) /\ ledger' = ledger
    BY <1>t, <1>2 DEF LoadLedger, Working
  <2>2. Prior(p)' = EntriesFor(ledger, RecordOf(p).id)
    BY <1>r, <2>1 DEF Prior
  <2> QED
    BY <1>t, <1>r, <2>1, <2>2 DEF Agrees
<1>3. CASE ReadRevocations(p)
  <2>1. /\ run[p].pc = "revocations" /\ run'[p].pc = "verify" /\ ledger' = ledger
        /\ run'[p].ledger = run[p].ledger /\ run'[p].now = run[p].now
        /\ run'[p].retired = run[p].retired
    BY <1>t, <1>3 DEF ReadRevocations, Working
  <2>2. Prior(p)' = Prior(p)
    BY <1>r, <2>1 DEF Prior
  <2> QED
    BY <1>t, <1>r, <2>1, <2>2 DEF Agrees
<1>4. ASSUME NEW mode \in Modes, NEW decision \in BOOLEAN, NEW rotation \in Kids \cup {NoKid},
             NEW until \in 0..(clock + Skew + Day), Verify(p, mode, decision, rotation, until)
      PROVE  Agrees(p)'
  <2>1. /\ run[p].pc = "verify" /\ run'[p].pc = "recheck" /\ ledger' = ledger
        /\ run'[p].ledger = run[p].ledger /\ run'[p].now = run[p].now
        /\ run'[p].retired = run[p].retired /\ run'[p].proofsUntil = until
    BY <1>t, <1>4 DEF Verify, Working
  <2>2. until <= run[p].now + Skew + Day
    BY <1>n, <1>4 DEF Verify
  <2>3. Prior(p)' = Prior(p)
    BY <1>r, <2>1 DEF Prior
  <2> QED
    BY <1>t, <1>r, <2>1, <2>2, <2>3 DEF Agrees
<1>5. CASE Recheck(p)
  <2> DEFINE d == ApprovedBy(run[p].pull, run[p].head, run[p].reviews, clock)
  <2>1. /\ run[p].pc = "recheck" /\ run'[p].pc = "write" /\ ledger' = ledger
        /\ run'[p].ledger = run[p].ledger /\ run'[p].now = run[p].now
        /\ run'[p].retired = run[p].retired /\ run'[p].proofsUntil = run[p].proofsUntil
        /\ run'[p].acceptedAt = clock /\ run'[p].reviewers = d
    BY <1>t, <1>5 DEF Recheck, Working
  <2>2. /\ Cardinality(d) >= Rule(clock).quorum
        /\ d \subseteq Rule(clock).maintainers \ {PullAuthor[run[p].pull]}
    BY <1>5 DEF Recheck, EvidenceHolds, ApprovedBy
  <2>3. Prior(p)' = Prior(p)
    BY <1>r, <2>1 DEF Prior
  <2> HIDE DEF d
  <2> QED
    BY <1>t, <1>r, <2>1, <2>2, <2>3 DEF Agrees
<1> QED
  BY <1>1, <1>2, <1>3, <1>4, <1>5 DEF Advances

LEMMA AgreeStep ==
  ASSUME Inv, [Next]_vars
  PROVE  RunsAgree'
<1>t. TypeOK /\ LockHeldByOne /\ \A p \in Operators : Agrees(p)
  BY DEF Inv, RunsAgree, Agrees
<1>c. clock' \in Nat /\ clock <= clock' /\ clock \in Nat
  <2>1. UNCHANGED world => clock' = clock
    BY DEF world
  <2> QED
    BY <1>t, <2>1, WorldStep, AroundStep, TypeStep DEF TypeOK
<1> SUFFICES ASSUME NEW q \in Operators PROVE Agrees(q)'
  BY DEF RunsAgree, Agrees
<1>1. ASSUME run'[q] = run[q], ledger' = ledger \/ run[q].pc \notin Critical PROVE Agrees(q)'
  BY <1>t, <1>c, <1>1, StillAgrees
<1>2. ASSUME NEW p \in Operators, NEW n \in Pulls, FetchPull(p, n) PROVE Agrees(q)'
  <2>1. CASE q = p
    BY <1>t, <1>2, <2>1, FetchPullStep DEF Agrees
  <2> QED
    BY <1>t, <1>1, <1>2, <2>1, FetchPullStep
<1>3. ASSUME NEW p \in Operators, FetchReviews(p) PROVE Agrees(q)'
  <2>1. CASE q = p
    BY <1>t, <1>3, <2>1, FetchReviewsStep DEF Agrees
  <2> QED
    BY <1>t, <1>1, <1>3, <2>1, FetchReviewsStep
<1>4. ASSUME NEW p \in Operators, Advances(p) PROVE Agrees(q)'
  <2>1. CASE q = p
    BY <1>t, <1>4, <2>1, AdvanceAgrees
  <2>2. CASE q # p
    <3>1. run'[q] = run[q]
      BY <1>t, <1>4, <2>2, WorkStep
    <3>2. CASE ledger' = ledger
      BY <1>1, <3>1, <3>2
    <3>3. CASE ledger' # ledger
      <4>1. run[p].pc = "write"
        BY <1>4, <3>3 DEF Advances, TakeLock, LoadLedger, ReadRevocations, Recheck, Verify,
                          WriteLedger
      <4>2. run[q].pc \notin Critical
        BY <1>t, <2>2, <4>1 DEF LockHeldByOne, Critical
      <4> QED
        BY <1>1, <3>1, <4>2
    <3> QED
      BY <3>2, <3>3
  <2> QED
    BY <2>1, <2>2
<1>5. ASSUME NEW p \in Operators, Ends(p) PROVE Agrees(q)'
  <2>1. CASE q = p
    BY <1>t, <1>5, <2>1, EndStep, RunTypes DEF Agrees
  <2> QED
    BY <1>t, <1>1, <1>5, <2>1, EndStep
<1>6. CASE Around \/ UNCHANGED vars
  BY <1>t, <1>1, <1>6, AroundStep DEF vars
<1> QED
  BY <1>2, <1>3, <1>4, <1>5, <1>6, Split

LEMMA InitInv == Init => Inv
<1> SUFFICES ASSUME Init PROVE Inv
  OBVIOUS
<1>1. /\ NoReview \in {NoReview} \cup Review /\ NoReview.state = "none" /\ Idle.pc = "idle"
      /\ \A p \in Operators : run[p] = Idle
  BY DEF Init, NoReview, Idle
<1>2. TypeOK
  BY <1>1 DEF Init, TypeOK
<1>3. LockHeldByOne /\ RunsAgree /\ LedgerSound /\ EntryWasApproved
  BY <1>1 DEF Init, LockHeldByOne, RunsAgree, LedgerSound, EntryWasApproved, Critical
<1>4. ReviewsGiven
  BY <1>1 DEF Init, ReviewsGiven, Works, Critical
<1> QED
  BY <1>2, <1>3, <1>4 DEF Inv

LEMMA EnrollmentInvariant == Spec => []Inv
<1>1. Inv /\ [Next]_vars => Inv'
  BY TypeStep, LockStep, EntriesStep, ReviewsStep, SoundStep, AgreeStep DEF Inv
<1> QED
  BY <1>1, InitInv, PTL DEF Spec

-----------------------------------------------------------------------------

\* The model of approve-enrollment.mjs is type correct; in particular the ledger never
\* holds two entries of one merchant.
THEOREM EnrollmentTypes == Spec => []TypeOK
<1>1. Inv => TypeOK
  BY DEF Inv
<1> QED
  BY <1>1, EnrollmentInvariant, PTL

\* Every entry is one commit's file, approved at that commit by each reviewer it names.
THEOREM EntriesWereApproved == Spec => []EntryWasApproved
<1>1. Inv => EntryWasApproved
  BY DEF Inv
<1> QED
  BY <1>1, EnrollmentInvariant, PTL

\* No accepted key ID is lost, rebound or brought back, however many operators there are.
THEOREM KidsAreForever == Spec => AcceptedKidsAreForever
<1> DEFINE Kept(d, e) ==
      /\ d.record.id = e.record.id
      /\ d.revokedKids \cup KidsOf(d.record) \subseteq e.revokedKids \cup KidsOf(e.record)
      /\ d.revokedKids \subseteq e.revokedKids \ KidsOf(e.record)
      /\ \A k \in d.record.keys, l \in e.record.keys : k.kid = l.kid => k = l
    A == \A d \in ledger : \E e \in ledger' : Kept(d, e)
<1>1. ASSUME Inv, [Next]_vars, ledger' # ledger PROVE A
  <2>1. PICK p \in Operators : /\ run[p].pc = "write" /\ run[p].ledger = ledger
                               /\ ledger' = (ledger \ Prior(p)) \cup {EntryOf(p)}
    BY <1>1, LedgerStep
  <2>2. /\ KidsKept(Prior(p), RecordOf(p)) /\ Prior(p) = EntriesFor(ledger, RecordOf(p).id)
        /\ EntryOf(p).revokedKids = Retired(Prior(p), RecordOf(p))
        /\ EntryOf(p).record = RecordOf(p)
    BY <1>1, <2>1, EntryType DEF Inv, RunsAgree, Prior
  <2>3. ASSUME NEW d \in ledger, d \notin Prior(p) PROVE Kept(d, d) /\ d \in ledger'
    BY <1>1, <2>1, <2>3 DEF Inv, LedgerSound, ValidRecord
  <2>4. ASSUME NEW d \in Prior(p) PROVE Kept(d, EntryOf(p)) /\ EntryOf(p) \in ledger'
    <3>1. /\ d.record.id = RecordOf(p).id
          /\ d.revokedKids \cup (KidsOf(d.record) \ KidsOf(RecordOf(p)))
               \subseteq Retired(Prior(p), RecordOf(p))
      BY <2>2, <2>4 DEF EntriesFor, Retired
    <3>2. /\ KidsOf(RecordOf(p)) \cap Retired(Prior(p), RecordOf(p)) = {}
          /\ \A k \in RecordOf(p).keys, l \in d.record.keys : k.kid = l.kid => k = l
      BY <2>2, <2>4 DEF KidsKept
    <3> QED
      BY <2>1, <2>2, <3>1, <3>2
  <2> QED
    BY <2>3, <2>4
<1>2. Inv /\ [Next]_vars => [A]_ledger
  BY <1>1
<1> QED
  BY <1>2, EnrollmentInvariant, PTL DEF Spec, AcceptedKidsAreForever

-----------------------------------------------------------------------------
(* The script implements the abstract approval book.                        *)

Book == {Read(e) : e \in ledger}

LEMMA SameBook ==
  /\ AB!Approval = [record : Record, verifiedAt : Nat, proofsUntil : Nat, exceptional : BOOLEAN,
                    reviewers : SUBSET Logins, author : Authors]
  /\ \A t : AB!Rule(t) = Rule(t)
  /\ \A S : AB!Cardinality(S) = Cardinality(S)
<1>1. AB!Record = Record
  BY DEF AB!Record, Record, AB!Key, Key
<1>2. \A S : AB!Cardinality(S) = Cardinality(S)
  BY Zenon DEF AB!Cardinality, Cardinality
<1> QED
  BY <1>1, <1>2 DEF AB!Approval, Logins, AB!Rule, Rule

LEMMA ReadType ==
  ASSUME NEW e \in Entry
  PROVE  /\ Read(e) \in AB!Approval /\ Read(e).record = e.record
         /\ Read(e).verifiedAt = e.verifiedAt /\ Read(e).proofsUntil = e.proofsUntil
         /\ Read(e).exceptional = e.exceptional /\ Read(e).reviewers = e.reviewers
         /\ Read(e).author = e.author
<1>1. e.exceptional \in BOOLEAN
  BY DEF Entry
<1> QED
  BY <1>1, SameBook DEF Read, Entry

LEMMA RefineStep ==
  ASSUME Inv, [Next]_vars, Book' # Book
  PROVE  AB!Next
<1>1. PICK p \in Operators : /\ run[p].pc = "write" /\ run[p].ledger = ledger
                             /\ ledger' = (ledger \ Prior(p)) \cup {EntryOf(p)}
  BY LedgerStep DEF Book
<1> DEFINE e == EntryOf(p)
           a == Read(e)
           rule == Rule(run[p].acceptedAt)
<1>2. /\ e \in Entry /\ ledger \in SUBSET Entry
      /\ e.record = RecordOf(p) /\ e.verifiedAt = run[p].acceptedAt
      /\ e.proofsUntil = run[p].proofsUntil /\ e.exceptional = rule.exceptional
      /\ e.reviewers = run[p].reviewers /\ e.author = PullAuthor[run[p].pull]
  BY <1>1, EntryType DEF Inv, TypeOK
<1>3. /\ run[p].acceptedAt \in Nat /\ run[p].now \in Nat /\ run[p].proofsUntil \in Nat
      /\ clock \in Nat /\ Skew \in Nat /\ Day \in Nat
  BY <1>1, RunTypes, NumbersAssumption DEF Inv, TypeOK, Works, Critical, Working
<1>4. /\ run[p].acceptedAt <= clock /\ run[p].proofsUntil <= run[p].acceptedAt + Skew + Day
      /\ run[p].reviewers \subseteq rule.maintainers \ {PullAuthor[run[p].pull]}
      /\ Cardinality(run[p].reviewers) >= rule.quorum
  BY <1>1, <1>3 DEF Inv, RunsAgree
<1> HIDE DEF e, rule
<1>5. /\ a \in AB!Approval /\ a.record = RecordOf(p) /\ a.verifiedAt = run[p].acceptedAt
      /\ a.proofsUntil = run[p].proofsUntil /\ a.exceptional = rule.exceptional
      /\ a.reviewers = run[p].reviewers /\ a.author = PullAuthor[run[p].pull]
  BY <1>2, ReadType
<1>6. Book' = {b \in Book : b.record.id # a.record.id} \cup {a}
  <2>1. \A d \in ledger : d \in Prior(p) <=> Read(d).record.id = a.record.id
    BY <1>1, <1>2, <1>5, ReadType DEF Prior, EntriesFor
  <2>2. Book' = {Read(d) : d \in ledger \ Prior(p)} \cup {a}
    BY <1>1 DEF Book, e, Read
  <2> HIDE DEF a
  <2> QED
    BY <2>1, <2>2 DEF Book
<1>7. a \notin Book
  <2> SUFFICES ASSUME a \in Book PROVE Book' = Book
    OBVIOUS
  <2>1. PICK d \in ledger : a = Read(d)
    BY DEF Book
  <2>2. \A b \in Book : b.record.id = a.record.id => b = a
    <3> SUFFICES ASSUME NEW c \in ledger, Read(c).record.id = a.record.id PROVE Read(c) = a
      BY DEF Book
    <3>1. c.record.id = d.record.id
      BY <1>2, <2>1, ReadType
    <3> QED
      BY <2>1, <3>1 DEF Inv, TypeOK
  <2> QED
    BY <1>6, <2>2
<1>8. AB!Accept(a)
  <2> HIDE DEF a
  <2>1. Book' = {b \in Book : b.record.id # a.record.id} \cup {a}
    BY <1>6
  <2> QED
    BY <1>3, <1>4, <1>5, <2>1, SameBook DEF AB!Accept, Book, rule
<1> QED
  BY <1>6, <1>7, <1>8 DEF AB!Next, Book

\* The script, run by any number of operators while authors push and maintainers review,
\* is the atomic acceptance ApprovalBook describes.
THEOREM EnrollmentIsAnApprovalBook == Spec => ImplementsApprovalBook
<1>1. Init => AB!Init
  BY DEF Init, AB!Init
<1>2. Inv /\ [Next]_vars => [AB!Next]_Book
  BY RefineStep
<1> QED
  BY <1>1, <1>2, EnrollmentInvariant, PTL DEF Spec, ImplementsApprovalBook, AB!Spec, Book
=============================================================================

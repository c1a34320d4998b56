----------------------------- MODULE Enrollment -----------------------------
(***************************************************************************)
(* src/scripts/approve-enrollment.mjs: operators accept a pull request     *)
(* into the ledger.  What the script looks at - pull request, reviews,     *)
(* ledger, revocations, DNS - is fetched at different moments, while       *)
(* authors push, maintainers review and other operators run the script.    *)
(***************************************************************************)
EXTENDS RegistryRules, ReviewPolicy

CONSTANTS
  Authors,       \* GitHub logins that open pull requests
  Operators,     \* processes that may run the script
  Pulls,         \* pull requests to main of the registry repository
  PullAuthor,    \* PullAuthor[n]: the login that opened pull request n
  Heads,         \* head commits
  Content,       \* Content[h]: the merchant file at head h
  NoKid,         \* no key ID
  Window,        \* Window[d]: validity of the key data d
  MaxTime,       \* bound on the clock
  MaxEvents,     \* bound on pushes, closings and reviews on GitHub
  MaxFaults      \* bound on crashes and failures

Logins == Maintainers \cup {Reviewer}

ASSUME EnrollmentAssumption ==
  /\ PullAuthor \in [Pulls -> Authors]
  /\ Content \in [Heads -> Record]
  /\ Window \in [KeyData -> [notBefore : Nat, expiresAt : Nat]]
  /\ NoKid \notin Kids
  /\ MaxTime \in Nat /\ MaxEvents \in Nat /\ MaxFaults \in Nat

Modes == {"normal", "recovery", "suspend"}

\* An entry of the ledger.
Entry == [record : Record, sourceCommit : Heads, pull : Pulls, reviewers : SUBSET Logins,
          author : Authors, exceptional : BOOLEAN, verifiedAt : Nat, proofsUntil : Nat,
          revokedKids : SUBSET Kids, mode : Modes, decision : BOOLEAN]

VARIABLES
  clock,        \* seconds
  head,         \* GitHub: head[n] of each pull request
  isOpen,       \* GitHub: open and not a draft
  reviews,      \* GitHub: reviews[n][w], the latest of login w that counts
  events,       \* how many GitHub events there have been
  approved,     \* history: <<pull, login, head>> ever approved
  revocations,  \* revocations.json of the operator's checkout
  ledger,       \* the operator ledger: at most one entry per merchant
  lock,         \* the ledger's lock file: "free", "held", or "stale"
  run,          \* run[p]: the local variables of p's process
  faults        \* how many crashes and failures there have been

github == <<head, isOpen, reviews, events, approved>>
world  == <<clock, github, revocations>>
vars   == <<clock, head, isOpen, reviews, events, approved, revocations, ledger, lock, run,
            faults>>

NoReview == [state |-> "none"]
Review   == [state : {"APPROVED", "CHANGES_REQUESTED"}, commit : Heads]

Outside  == {"idle", "reviews", "lock"}
Critical == {"load", "revocations", "verify", "recheck", "write", "unlock"}

\* `ledger` is the ledger as loaded, `retired` and `barred` the script's revokedKids and
\* revokedForSigning.
Idle == [pc |-> "idle"]
Fetched == [pc : {"reviews"}, pull : Pulls, head : Heads, isOpen : BOOLEAN]
Working == [pc : {"lock"} \cup Critical, pull : Pulls, head : Heads, isOpen : BOOLEAN,
            reviews : [Logins -> {NoReview} \cup Review], reviewers : SUBSET Logins,
            ledger : SUBSET Entry, retired : SUBSET Kids, barred : SUBSET Kids, now : Nat,
            mode : Modes, decision : BOOLEAN, proofsUntil : Nat, acceptedAt : Nat]

TypeOK ==
  /\ clock \in Nat /\ events \in Nat /\ faults \in Nat
  /\ head \in [Pulls -> Heads] /\ isOpen \in [Pulls -> BOOLEAN]
  /\ reviews \in [Pulls -> [Logins -> {NoReview} \cup Review]]
  /\ approved \in SUBSET (Pulls \X Logins \X Heads)
  /\ revocations \in SUBSET (Merchants \X Kids)
  /\ ledger \in SUBSET Entry
  /\ \A d, e \in ledger : d.record.id = e.record.id => d = e
  /\ lock \in {"free", "held", "stale"}
  /\ run \in [Operators -> {Idle} \cup Fetched \cup Working]

Init ==
  /\ clock = 0 /\ events = 0 /\ faults = 0
  /\ head \in [Pulls -> Heads] /\ isOpen = [n \in Pulls |-> TRUE]
  /\ reviews = [n \in Pulls |-> [w \in Logins |-> NoReview]]
  /\ approved = {} /\ revocations = {}
  /\ ledger = {} /\ lock = "free"
  /\ run = [p \in Operators |-> Idle]

-----------------------------------------------------------------------------
(* validateReviewEvidence, on what was fetched.                             *)

\* Mutant: an approval counts whatever commit it was given for.
ApprovedByAny(n, h, seen, now) ==
  {w \in Rule(now).maintainers \ {PullAuthor[n]} : seen[w].state = "APPROVED"}

\* The logins whose latest review approves head h.
ApprovedBy(n, h, seen, now) ==
  {w \in Rule(now).maintainers \ {PullAuthor[n]} :
     seen[w].state = "APPROVED" /\ seen[w].commit = h}

Requested(seen, now) ==
  \E w \in Rule(now).maintainers : seen[w].state = "CHANGES_REQUESTED"

EvidenceHolds(n, h, opened, seen, now) ==
  /\ opened
  /\ ~Requested(seen, now)
  /\ Cardinality(ApprovedBy(n, h, seen, now)) >= Rule(now).quorum

-----------------------------------------------------------------------------
(* One run of the script.                                                   *)

At(p, pc) == run[p].pc = pc
RecordOf(p) == Content[run[p].head]

\* The pull request is fetched: its head is the commit everything refers to.
FetchPull(p, n) ==
  /\ At(p, "idle")
  /\ run' = [run EXCEPT ![p] = [pc |-> "reviews", pull |-> n, head |-> head[n],
                                isOpen |-> isOpen[n]]]
  /\ UNCHANGED <<world, ledger, lock, faults>>

\* The reviews, all pages of them, are fetched and judged now; the record of that head is
\* fetched and valid.
FetchReviews(p) ==
  LET r == run[p]
      seen == reviews[r.pull]
  IN  /\ At(p, "reviews")
      /\ EvidenceHolds(r.pull, r.head, r.isOpen, seen, clock)
      /\ ValidRecord(RecordOf(p))
      /\ run' = [run EXCEPT ![p] =
           [pc |-> "lock", pull |-> r.pull, head |-> r.head, isOpen |-> r.isOpen,
            reviews |-> seen, reviewers |-> ApprovedBy(r.pull, r.head, seen, clock),
            ledger |-> {}, retired |-> {}, barred |-> {}, now |-> 0, mode |-> "normal",
            decision |-> FALSE, proofsUntil |-> 0, acceptedAt |-> 0]]
      /\ UNCHANGED <<world, ledger, lock, faults>>

\* Mutant: the lock file is opened 'w' instead of 'wx'.
TakeLockUnguarded(p) ==
  /\ At(p, "lock")
  /\ lock' = "held"
  /\ run' = [run EXCEPT ![p].pc = "load"]
  /\ UNCHANGED <<world, ledger, faults>>

TakeLock(p) ==
  /\ At(p, "lock") /\ lock = "free"
  /\ lock' = "held"
  /\ run' = [run EXCEPT ![p].pc = "load"]
  /\ UNCHANGED <<world, ledger, faults>>

\* open(..., 'wx') throws.
LockBusy(p) ==
  /\ At(p, "lock") /\ lock # "free"
  /\ run' = [run EXCEPT ![p] = Idle]
  /\ UNCHANGED <<world, ledger, lock, faults>>

KidsOf(r) == {k.kid : k \in r.keys}

\* The merchant's entry in a ledger, as a set that is empty if there is none.
EntriesFor(entries, m) == {e \in entries : e.record.id = m}
Prior(p) == EntriesFor(run[p].ledger, RecordOf(p).id)

\* The key IDs the merchant had in the ledger and the record does without.
Retired(prior, r) ==
  UNION {e.revokedKids \cup (KidsOf(e.record) \ KidsOf(r)) : e \in prior}

\* A retired key ID does not return; one that stays keeps its key.
KidsKept(prior, r) ==
  /\ KidsOf(r) \cap Retired(prior, r) = {}
  /\ \A e \in prior : \A k \in r.keys, l \in e.record.keys : k.kid = l.kid => k = l

\* The ledger is read and the time taken.
LoadLedger(p) ==
  LET r == RecordOf(p)
      prior == EntriesFor(ledger, r.id)
  IN  /\ At(p, "load") /\ KidsKept(prior, r)
      /\ run' = [run EXCEPT ![p].pc = "revocations", ![p].ledger = ledger,
                            ![p].retired = Retired(prior, r), ![p].now = clock]
      /\ UNCHANGED <<world, ledger, lock, faults>>

\* revocations.json of the checkout is read: the key IDs that may not sign a rotation.
ReadRevocations(p) ==
  /\ At(p, "revocations")
  /\ run' = [run EXCEPT ![p].pc = "verify",
       ![p].barred = {x[2] : x \in {y \in revocations : y[1] = RecordOf(p).id}}
                       \cup UNION {e.revokedKids : e \in Prior(p)}]
  /\ UNCHANGED <<world, ledger, lock, faults>>

\* A key of the previous record, neither revoked nor expired.
MaySignRotation(p, kid) ==
  \E e \in Prior(p) : \E k \in e.record.keys :
    /\ k.kid = kid /\ kid \notin run[p].barred
    /\ Window[k.data].notBefore <= run[p].now /\ run[p].now < Window[k.data].expiresAt

\* The operator's bundle says which mode this is, whether there is a decision and which
\* key signed the rotation, if any.
ModeAllows(p, mode, decision, rotation) ==
  LET r == RecordOf(p)
  IN  /\ r.status = "suspended" <=> mode = "suspend"
      /\ mode # "normal" => decision
      /\ (Prior(p) # {} /\ r.status = "active" /\ mode = "normal")
           => MaySignRotation(p, rotation)

\* Every origin and key of an active record has a fresh proof, in the bundle and in DNS;
\* then the mode and the rotation are checked.  `until` is when the first proof ends.
Verify(p, mode, decision, rotation, until) ==
  /\ At(p, "verify") /\ ModeAllows(p, mode, decision, rotation)
  /\ IF RecordOf(p).status = "active"
     THEN until \in (run[p].now + 1)..(run[p].now + Skew + Day) ELSE until = 0
  /\ run' = [run EXCEPT ![p].pc = "recheck", ![p].mode = mode, ![p].decision = decision,
                        ![p].proofsUntil = until]
  /\ UNCHANGED <<world, ledger, lock, faults>>

\* Mutant: the reviews are not judged again at the time of acceptance.
RecheckHead(p) ==
  /\ At(p, "recheck") /\ head[run[p].pull] = run[p].head
  /\ run' = [run EXCEPT ![p].pc = "write", ![p].acceptedAt = clock]
  /\ UNCHANGED <<world, ledger, lock, faults>>

\* The head is fetched again, and the pull request and reviews fetched before are judged
\* by the rule in force now.
Recheck(p) ==
  LET r == run[p]
  IN  /\ At(p, "recheck") /\ head[r.pull] = r.head
      /\ EvidenceHolds(r.pull, r.head, r.isOpen, r.reviews, clock)
      /\ run' = [run EXCEPT ![p].pc = "write", ![p].acceptedAt = clock,
                   ![p].reviewers = ApprovedBy(r.pull, r.head, r.reviews, clock)]
      /\ UNCHANGED <<world, ledger, lock, faults>>

EntryOf(p) ==
  LET r == run[p]
  IN  [record |-> RecordOf(p), sourceCommit |-> r.head, pull |-> r.pull,
       reviewers |-> r.reviewers, author |-> PullAuthor[r.pull],
       exceptional |-> Rule(r.acceptedAt).exceptional, verifiedAt |-> r.acceptedAt,
       proofsUntil |-> r.proofsUntil, revokedKids |-> r.retired, mode |-> r.mode,
       decision |-> r.decision]

\* The whole ledger, as loaded but for this entry, is renamed into place.
WriteLedger(p) ==
  /\ At(p, "write")
  /\ ledger' = (run[p].ledger \ Prior(p)) \cup {EntryOf(p)}
  /\ run' = [run EXCEPT ![p].pc = "unlock"]
  /\ UNCHANGED <<world, lock, faults>>

\* The finally clause removes the lock file.
Abandon(p) ==
  /\ run' = [run EXCEPT ![p] = Idle]
  /\ lock' = IF run[p].pc \in Critical THEN "free" ELSE lock
  /\ UNCHANGED <<world, ledger>>

Unlock(p) == At(p, "unlock") /\ Abandon(p) /\ UNCHANGED faults

\* A check fails and the script throws.
Refuse(p) ==
  LET r == run[p]
  IN  /\ \/ /\ At(p, "reviews")
            /\ ~EvidenceHolds(r.pull, r.head, r.isOpen, reviews[r.pull], clock)
         \/ At(p, "reviews") /\ ~ValidRecord(RecordOf(p))
         \/ At(p, "load") /\ ~KidsKept(EntriesFor(ledger, RecordOf(p).id), RecordOf(p))
         \/ At(p, "verify")   \* a proof, a TXT record or the bundle does not fit
         \/ /\ At(p, "recheck")
            /\ \/ head[r.pull] # r.head
               \/ ~EvidenceHolds(r.pull, r.head, r.isOpen, r.reviews, clock)
      /\ Abandon(p)
      /\ UNCHANGED faults

\* A command, a read or a write throws.
Fail(p) ==
  /\ ~At(p, "idle") /\ faults < MaxFaults
  /\ faults' = faults + 1
  /\ Abandon(p)

\* The process dies: the lock stays, the ledger is whole (a temporary file is renamed).
Crash(p) ==
  /\ ~At(p, "idle") /\ faults < MaxFaults
  /\ faults' = faults + 1
  /\ run' = [run EXCEPT ![p] = Idle]
  /\ lock' = IF run[p].pc \in Critical THEN "stale" ELSE lock
  /\ UNCHANGED <<world, ledger>>

-----------------------------------------------------------------------------
(* Around the script.                                                       *)

\* The author pushes: approvals stay, on the commit they were given for.
Push(n) ==
  /\ events < MaxEvents /\ events' = events + 1
  /\ \E h \in Heads \ {head[n]} : head' = [head EXCEPT ![n] = h]
  /\ UNCHANGED <<clock, isOpen, reviews, approved, revocations, ledger, lock, run, faults>>

CloseOrReopen(n) ==
  /\ events < MaxEvents /\ events' = events + 1
  /\ isOpen' = [isOpen EXCEPT ![n] = ~@]
  /\ UNCHANGED <<clock, head, reviews, approved, revocations, ledger, lock, run, faults>>

\* A review of the current head; comments do not replace an earlier review.
SubmitReview(n, w, state) ==
  /\ events < MaxEvents /\ events' = events + 1
  /\ reviews' = [reviews EXCEPT ![n][w] = [state |-> state, commit |-> head[n]]]
  /\ approved' = IF state = "APPROVED" THEN approved \cup {<<n, w, head[n]>>} ELSE approved
  /\ UNCHANGED <<clock, head, isOpen, revocations, ledger, lock, run, faults>>

\* A review that is dismissed no longer counts.
DismissReview(n, w) ==
  /\ events < MaxEvents /\ events' = events + 1
  /\ reviews[n][w] # NoReview
  /\ reviews' = [reviews EXCEPT ![n][w] = NoReview]
  /\ UNCHANGED <<clock, head, isOpen, approved, revocations, ledger, lock, run, faults>>

\* A revocation is merged into main and the checkout updated.
Revoke(m, kid) ==
  /\ events < MaxEvents /\ events' = events + 1
  /\ revocations' = revocations \cup {<<m, kid>>}
  /\ UNCHANGED <<clock, head, isOpen, reviews, approved, ledger, lock, run, faults>>

Tick ==
  /\ clock < MaxTime
  /\ clock' = clock + 1
  /\ UNCHANGED <<github, revocations, ledger, lock, run, faults>>

\* The operator sees that the process is dead and removes its lock file.
RemoveStaleLock ==
  /\ lock = "stale"
  /\ lock' = "free"
  /\ UNCHANGED <<world, ledger, run, faults>>

Next ==
  \/ \E p \in Operators :
       \/ \E n \in Pulls : FetchPull(p, n)
       \/ FetchReviews(p) \/ TakeLock(p) \/ LockBusy(p) \/ LoadLedger(p) \/ ReadRevocations(p)
       \/ \E mode \in Modes, decision \in BOOLEAN, rotation \in Kids \cup {NoKid},
             until \in 0..(clock + Skew + Day) : Verify(p, mode, decision, rotation, until)
       \/ Recheck(p) \/ WriteLedger(p) \/ Unlock(p) \/ Refuse(p) \/ Fail(p) \/ Crash(p)
  \/ \E n \in Pulls :
       \/ Push(n) \/ CloseOrReopen(n)
       \/ \E w \in Logins : DismissReview(n, w)
                              \/ \E s \in {"APPROVED", "CHANGES_REQUESTED"} : SubmitReview(n, w, s)
  \/ \E m \in Merchants, kid \in Kids : Revoke(m, kid)
  \/ Tick \/ RemoveStaleLock

Spec == Init /\ [][Next]_vars

-----------------------------------------------------------------------------
(* Properties.                                                              *)

\* A ledger entry, as the release tool reads it.
Read(e) == [record |-> e.record, verifiedAt |-> e.verifiedAt, proofsUntil |-> e.proofsUntil,
            exceptional |-> e.exceptional, reviewers |-> e.reviewers, author |-> e.author]

AB == INSTANCE ApprovalBook WITH ledger <- {Read(e) : e \in ledger}

\* What the release tool relies on: an entry replaces the merchant's last one in one step,
\* and quorum, reviewers and exception are those of the rule in force when it was
\* accepted, even if that changed since the reviews were fetched (approve-enrollment.mjs:58-62).
ImplementsApprovalBook == AB!Spec

\* Every entry holds the file of one commit, and each reviewer it names approved that very
\* commit of that pull request at some time, and is not its author, whatever was pushed in
\* between (lifecycle.mjs:72-81).
EntryWasApproved ==
  \A e \in ledger :
    /\ e.record = Content[e.sourceCommit]
    /\ \A w \in e.reviewers : <<e.pull, w, e.sourceCommit>> \in approved /\ w # e.author

\* In the ledger a merchant stays, a key ID stands for one key for good, and one that an
\* accepted record dropped is remembered and in no later one, even when two operators
\* accept records of one merchant at the same time (approve-enrollment.mjs:26,30-34).
AcceptedKidsAreForever ==
  [][\A d \in ledger : \E e \in ledger' :
       /\ d.record.id = e.record.id
       /\ d.revokedKids \cup KidsOf(d.record) \subseteq e.revokedKids \cup KidsOf(e.record)
       /\ d.revokedKids \subseteq e.revokedKids \ KidsOf(e.record)
       /\ \A k \in d.record.keys, l \in e.record.keys : k.kid = l.kid => k = l]_ledger

\* "An outstanding changes-request blocks acceptance" (operator-lifecycle.md:36).
ChangesRequestBlocks ==
  [][\A p \in Operators : (At(p, "recheck") /\ run'[p].pc = "write")
                            => ~Requested(reviews[run[p].pull], clock)]_run

\* "Reactivation/replacement requires fresh domain proof, two-person recovery review and a
\* public decision record" (registry.md:75-76): of a suspended merchant.
ReactivationIsDecided ==
  [][\A d \in ledger, e \in ledger' :
       (d.record.id = e.record.id /\ d.record.status = "suspended"
          /\ e.record.status = "active") => e.decision]_ledger
=============================================================================

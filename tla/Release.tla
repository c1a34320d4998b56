------------------------------ MODULE Release ------------------------------
(***************************************************************************)
(* src/scripts/release-registry.mjs: operators run the command on one      *)
(* durable state directory, over a Git checkout that keeps moving and an   *)
(* approval ledger that approve-enrollment.mjs rewrites.  Each await of    *)
(* the script is the end of a step; between steps other processes run, the *)
(* clock moves, the process dies or an operation fails.                    *)
(***************************************************************************)
EXTENDS RegistryRules, ReviewPolicy, Sequences

CONSTANTS
  Operators,        \* processes that may run the command
  Tree,             \* Tree[c]: the merchants/ files and revocations.json of commit c
  Authors,          \* GitHub logins that open pull requests
  StrictLimit,      \* strictJSON's default 32768 bytes, in items
  SnapshotLimit,    \* signRegistry's 4 MiB, in items
  ClockStepsBack,   \* BOOLEAN: the host clock may be set back
  MaxTime,          \* bound on the clock
  MaxApprovals,     \* bound on how many approvals are ever recorded
  MaxFaults         \* bound on crashes and failures

ASSUME ReleaseAssumption ==
  /\ Tree \in [Commits -> [records : SUBSET Record, revocations : SUBSET Revocation]]
  /\ StrictLimit \in Nat /\ SnapshotLimit \in Nat
  /\ ClockStepsBack \in BOOLEAN
  /\ MaxTime \in Nat /\ MaxApprovals \in Nat /\ MaxFaults \in Nat

VARIABLES
  clock,      \* Date.now() in seconds
  main,       \* the commit the trusted checkout stands at
  ledger,     \* the operator ledger: at most one approval per merchant
  approvals,  \* history: every approval ever written to the ledger
  lock,       \* release.lock: "free", "held", or "stale" after its holder died
  state,      \* state.json (its payload)
  archive,    \* the payloads of the registry-<sequence>.jws files
  latest,     \* registry.jws (its payload)
  log,        \* history: the payloads state.json ever held
  run,        \* run[p]: the local variables of p's process
  faults      \* how many crashes and failures there have been

files  == <<state, archive, latest, log>>
inputs == <<clock, main, ledger, approvals>>
vars   == <<clock, main, ledger, approvals, lock, state, archive, latest, log, run, faults>>

AB == INSTANCE ApprovalBook
Approval == AB!Approval

Before   == {"idle", "lock"}
Critical == {"load", "records", "build", "state", "archive", "latest", "unlock"}

Run == [pc : Before \cup Critical, ledger : SUBSET Approval, now : Nat,
        sourceCommit : Commits \cup {NoCommit}, previous : Payload,
        merchants : SUBSET Record, payload : Payload]

\* No process: nothing is remembered from one run to the next.
Idle == [pc |-> "idle", ledger |-> {}, now |-> 0, sourceCommit |-> NoCommit,
         previous |-> Genesis, merchants |-> {}, payload |-> Genesis]

TypeOK ==
  /\ clock \in Nat /\ main \in Commits /\ faults \in Nat
  /\ ledger \in SUBSET Approval /\ approvals \in SUBSET Approval
  /\ lock \in {"free", "held", "stale"}
  /\ state \in Payload /\ latest \in Payload /\ archive \in SUBSET Payload
  /\ state.sequence \in 0..MaxSequence
  /\ log \in Seq(Payload)
  /\ run \in [Operators -> Run]

Init ==
  /\ clock = 0 /\ main \in Commits /\ faults = 0
  /\ ledger = {} /\ approvals = {}
  /\ lock = "free"
  /\ state = Genesis /\ archive = {} /\ latest = Genesis /\ log = <<>>
  /\ run = [p \in Operators |-> Idle]

-----------------------------------------------------------------------------
(* Sizes, in items: a record or a revocation is one.  state.json holds the  *)
(* payload and, base64-encoded, the payload again: more than twice its size.*)
Size(merchants, revocations) == Cardinality(merchants) + Cardinality(revocations)
StateSize(p) == 2 * Size(p.merchants, p.revocations)
Parses(size) == size <= StrictLimit

\* Mutant: a record counts as published when its merchant is.
PublishableById(r, book, previous, now) ==
  LET unchanged == \E x \in previous.merchants : x.id = r.id
  IN  \E a \in book :
        /\ a.record = r
        /\ ApprovalStands(a, now, unchanged)
        /\ (~unchanged /\ r.status = "active") => a.proofsUntil > now

\* The checks on one merchant file that depend on nothing but what was read before.
Publishable(r, book, previous, now) ==
  LET unchanged == r \in previous.merchants
  IN  \E a \in book :
        /\ a.record = r
        /\ ApprovalStands(a, now, unchanged)
        /\ (~unchanged /\ r.status = "active") => a.proofsUntil > now

\* Mutant: numbers continue from the snapshot in registry.jws.
SnapshotAfterLatest(p) ==
  [sequence |-> latest.sequence + 1, issuedAt |-> run[p].now,
   expiresAt |-> run[p].now + Day, sourceCommit |-> run[p].sourceCommit,
   merchants |-> run[p].merchants, revocations |-> Tree[main].revocations]

\* The payload the script builds.
Snapshot(p) ==
  [sequence |-> run[p].previous.sequence + 1, issuedAt |-> run[p].now,
   expiresAt |-> run[p].now + Day, sourceCommit |-> run[p].sourceCommit,
   merchants |-> run[p].merchants, revocations |-> Tree[main].revocations]

-----------------------------------------------------------------------------
(* One run of the command.                                                  *)

At(p, pc) == run[p].pc = pc
Goto(p, pc) == run' = [run EXCEPT ![p].pc = pc]

\* A throw inside the try block: the finally clause removes the lock.
Abandon(p) ==
  /\ run' = [run EXCEPT ![p] = Idle]
  /\ lock' = IF run[p].pc \in Critical THEN "free" ELSE lock
  /\ UNCHANGED <<inputs, files>>

\* The script starts: the ledger is read and the clean main checkout's HEAD becomes the
\* snapshot's sourceCommit, both before the lock is taken.
Start(p) ==
  /\ At(p, "idle") /\ Parses(Cardinality(ledger))
  /\ run' = [run EXCEPT ![p].pc = "lock", ![p].ledger = ledger, ![p].sourceCommit = main]
  /\ UNCHANGED <<inputs, files, lock, faults>>

\* Mutant: the lock file is opened 'w' instead of 'wx'.
TakeLockUnguarded(p) ==
  /\ At(p, "lock")
  /\ lock' = "held"
  /\ Goto(p, "load")
  /\ UNCHANGED <<inputs, files, faults>>

TakeLock(p) ==
  /\ At(p, "lock") /\ lock = "free"
  /\ lock' = "held"
  /\ Goto(p, "load")
  /\ UNCHANGED <<inputs, files, faults>>

\* Mutant: the finally clause also covers the failed open.
LockBusyUnlocks(p) ==
  /\ At(p, "lock") /\ lock # "free"
  /\ run' = [run EXCEPT ![p] = Idle]
  /\ lock' = "free"
  /\ UNCHANGED <<inputs, files, faults>>

\* Mutant: the script waits for the lock to go away.
LockBusyWaits(p) == At(p, "lock") /\ lock # "free" /\ UNCHANGED vars

\* open(..., 'wx') throws EEXIST: the script ends and leaves the lock alone.
LockBusy(p) ==
  /\ At(p, "lock") /\ lock # "free"
  /\ run' = [run EXCEPT ![p] = Idle]
  /\ UNCHANGED <<inputs, files, lock, faults>>

\* state.json is read, compared with its own signature, and the time is taken.
LoadState(p) ==
  /\ At(p, "load") /\ Parses(StateSize(state))
  /\ run' = [run EXCEPT ![p].pc = "records", ![p].previous = state, ![p].now = clock]
  /\ UNCHANGED <<inputs, files, lock, faults>>

\* Every merchant file of the checkout, as it is now, must stand approved; the live
\* DNS lookups it also needs are failures of the environment (Fail).  The files are read
\* one by one; a mixture of two commits is one more tree, of no commit's history.
ReadRecords(p) ==
  /\ At(p, "records")
  /\ \A r \in Tree[main].records : Publishable(r, run[p].ledger, run[p].previous, run[p].now)
  /\ run' = [run EXCEPT ![p].pc = "build", ![p].merchants = Tree[main].records]
  /\ UNCHANGED <<inputs, files, lock, faults>>

\* Mutant: the new snapshot is not compared with the previous one.
BuildableAlone(p) ==
  /\ Parses(Cardinality(Tree[main].revocations))
  /\ ValidRegistry(Snapshot(p))
  /\ Size(run[p].merchants, Tree[main].revocations) <= SnapshotLimit

\* revocations.json is read, the payload built, checked against its predecessor,
\* signed and verified again.
Buildable(p) ==
  /\ Parses(Cardinality(Tree[main].revocations))
  /\ ValidTransition(run[p].previous, Snapshot(p))
  /\ Size(run[p].merchants, Tree[main].revocations) <= SnapshotLimit

BuildSnapshot(p) ==
  /\ At(p, "build") /\ Buildable(p)
  /\ run' = [run EXCEPT ![p].pc = "state", ![p].payload = Snapshot(p)]
  /\ UNCHANGED <<inputs, files, lock, faults>>

\* Three durable writes, each a rename of a synced file, in this order.
WriteState(p) ==
  /\ At(p, "state")
  /\ state' = run[p].payload
  /\ log' = Append(log, run[p].payload)
  /\ Goto(p, "archive")
  /\ UNCHANGED <<inputs, lock, archive, latest, faults>>

WriteArchive(p) ==
  /\ At(p, "archive")
  /\ archive' = {a \in archive : a.sequence # run[p].payload.sequence} \cup {run[p].payload}
  /\ Goto(p, "latest")
  /\ UNCHANGED <<inputs, lock, state, latest, log, faults>>

\* Mutant: nobody waits for the numbered file before registry.jws is written.
WriteLatestUnawaited(p) ==
  /\ run[p].pc \in {"archive", "latest"}
  /\ latest' = run[p].payload
  /\ run' = IF At(p, "latest") THEN [run EXCEPT ![p].pc = "unlock"] ELSE run
  /\ UNCHANGED <<inputs, lock, state, archive, log, faults>>

WriteLatest(p) ==
  /\ At(p, "latest")
  /\ latest' = run[p].payload
  /\ Goto(p, "unlock")
  /\ UNCHANGED <<inputs, lock, state, archive, log, faults>>

\* The finally clause removes the lock file and the process exits.
Unlock(p) == At(p, "unlock") /\ Abandon(p) /\ UNCHANGED faults

\* A check fails: the script throws.
Refuse(p) ==
  /\ \/ At(p, "load") /\ ~Parses(StateSize(state))
     \/ /\ At(p, "records")
        /\ \E r \in Tree[main].records :
             ~Publishable(r, run[p].ledger, run[p].previous, run[p].now)
     \/ At(p, "build") /\ ~Buildable(p)
  /\ Abandon(p)
  /\ UNCHANGED faults

\* A read, DNS lookup or write throws.
Fail(p) ==
  /\ ~At(p, "idle") /\ faults < MaxFaults
  /\ faults' = faults + 1
  /\ Abandon(p)

\* The process or its machine dies: a lock it holds stays behind.
Crash(p) ==
  /\ ~At(p, "idle") /\ faults < MaxFaults
  /\ faults' = faults + 1
  /\ run' = [run EXCEPT ![p] = Idle]
  /\ lock' = IF run[p].pc \in Critical THEN "stale" ELSE lock
  /\ UNCHANGED <<inputs, files>>

-----------------------------------------------------------------------------
(* Around the command.                                                      *)

\* approve-enrollment.mjs ends well, with or without some delay before its last write.
AcceptEnrollment(r, reviewers, author, at, until) ==
  LET new == [record |-> r, verifiedAt |-> at, proofsUntil |-> until,
              exceptional |-> Rule(at).exceptional, reviewers |-> reviewers, author |-> author]
  IN  /\ Cardinality(approvals) < MaxApprovals
      /\ AB!Accept(new)
      /\ approvals' = approvals \cup {new}
      /\ UNCHANGED <<clock, main, lock, files, run, faults>>

\* A pull request is merged and the checkout updated, whether or not a release runs.
MergeMain ==
  /\ main' \in Commits \ {main}
  /\ UNCHANGED <<clock, ledger, approvals, lock, files, run, faults>>

Tick ==
  /\ \/ clock < MaxTime /\ clock' = clock + 1
     \/ ClockStepsBack /\ clock > 0 /\ clock' = clock - 1
  /\ UNCHANGED <<main, ledger, approvals, lock, files, run, faults>>

\* The operator sees that no release process runs and removes the lock file.
RemoveStaleLock ==
  /\ lock = "stale" /\ \A p \in Operators : At(p, "idle")
  /\ lock' = "free"
  /\ UNCHANGED <<inputs, files, run, faults>>

Candidates == UNION {Tree[c].records : c \in Commits}

Step(p) ==
  \/ Start(p) \/ TakeLock(p) \/ LockBusy(p) \/ LoadState(p)
  \/ ReadRecords(p) \/ BuildSnapshot(p)
  \/ WriteState(p) \/ WriteArchive(p) \/ WriteLatest(p) \/ Unlock(p)
  \/ Refuse(p)

\* A suspended record has no proofs.
ProofEnds(r, at) == IF r.status = "active" THEN 1..(at + Skew + Day) ELSE {0}

Environment ==
  \/ \E r \in Candidates, reviewers \in SUBSET (Maintainers \cup {Reviewer}),
        author \in Authors, at \in 0..clock :
       \E until \in ProofEnds(r, at) : AcceptEnrollment(r, reviewers, author, at, until)
  \/ MergeMain
  \/ Tick

Next ==
  \/ \E p \in Operators : Step(p) \/ Fail(p) \/ Crash(p)
  \/ RemoveStaleLock
  \/ Environment

Spec == Init /\ [][Next]_vars

\* A process that is not dead is scheduled and the command is run again and again
\* ("refresh at least every six hours").  Runs are short and far apart, so whoever looks
\* after a stale lock finds a moment when none is in progress: strong fairness.  Faults
\* end after MaxFaults; nothing is assumed of the environment.
Fairness ==
  /\ \A p \in Operators : WF_vars(Step(p))
  /\ SF_vars(RemoveStaleLock)

FairSpec == Spec /\ Fairness

-----------------------------------------------------------------------------
(* Safety.                                                                  *)

SL == INSTANCE SnapshotLog WITH exposed <- latest.sequence

\* Whatever interleaving, crash or refusal: state.json only ever goes from a snapshot
\* to a valid successor and registry.jws only ever to the newest recorded one
\* (release-registry.mjs:25-55 as one atomic operation).
ImplementsSnapshotLog == SL!Spec

\* The guarantees of the abstract log, on the log of the tool (lifecycle.mjs:30-51).
KidNeverRebinds == SL!KidNeverRebinds
RetiredKidNeverReturns == SL!RetiredKidNeverReturns
HistoryAccumulates == SL!HistoryAccumulates

\* At most one process is past the lock, and while one is the lock file says so, so
\* that no second process can join it (release-registry.mjs:25,57).
LockHeldByOne ==
  \A p \in Operators : run[p].pc \in Critical =>
    lock = "held" /\ \A q \in Operators : run[q].pc \in Critical => q = p

\* What can be downloaded is what was recorded under that number and is kept in the
\* numbered archive, wherever the writes were cut off (release-registry.mjs:51-55).
PublishedIsRecorded ==
  /\ latest # Genesis => latest \in archive
  /\ \A s \in (archive \cup {state, latest}) \ {Genesis} :
       s.sequence \in DOMAIN log /\ log[s.sequence] = s

\* "Never sign different bytes for a recorded sequence" (release-registry.mjs:52): a
\* number once recorded or exposed never comes to stand for another snapshot.
SequenceNeverReused ==
  [][\A a \in archive \cup {state, latest}, b \in archive' \cup {state', latest'} :
       a.sequence = b.sequence => a = b]_files

\* A record enters state.json only on an approval accepted by then, given under the
\* exception only before it ended and, for an active record, on proofs that are still
\* fresh at the snapshot's issue time (release-registry.mjs:37-43).
Evidence(r, now) ==
  \E a \in approvals :
    /\ a.record = r /\ a.verifiedAt <= now
    /\ a.exceptional => now < ExceptionEnd
    /\ r.status = "active" => now < a.proofsUntil

FreshWhenRecorded ==
  [][\A r \in state'.merchants \ state.merchants : Evidence(r, state'.issuedAt)]_files

\* The same of registry.jws: "publish its first snapshot before the proof expires; a
\* stale proof cannot be published by the release tool" (operator-lifecycle.md:45-46).
FreshWhenPublished ==
  [][\A r \in latest'.merchants \ latest.merchants : Evidence(r, latest'.issuedAt)]_files

\* The next run can load what this one recorded: "after interruption, rerun advances
\* the sequence" (release-registry.mjs:51-52).
StateReadable == StateSize(state) <= StrictLimit

-----------------------------------------------------------------------------
(* Liveness, under FairSpec.                                                *)

\* The lock file never blocks releases for good: it goes with its run, or with the operator
\* who finds that its run died, and no run waits for it, which would keep that operator from
\* finding a moment without one (release-registry.mjs:25,57).
LockComesFree == lock # "free" ~> lock = "free"

\* An interrupted release is over: its snapshot is exposed, or superseded by one that is,
\* or stuck because checkout or ledger no longer hold what it was made from, the sequence
\* is exhausted, or state.json has outgrown what the next run parses.
Settled ==
  \/ latest = state
  \/ Tree[main].records # state.merchants
  \/ Tree[main].revocations # state.revocations
  \/ \E r \in state.merchants : \A a \in ledger : a.record # r
  \/ state.sequence = MaxSequence
  \/ ~StateReadable

\* "After interruption, rerun advances the sequence" (release-registry.mjs:51-52).
InterruptedGetsPublished == latest # state ~> Settled
=============================================================================

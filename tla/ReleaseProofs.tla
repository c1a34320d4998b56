--------------------------- MODULE ReleaseProofs ---------------------------
(***************************************************************************)
(* Proofs about Release, for any number of operators, merchants, commits,  *)
(* approvals and faults, and any clock.                                    *)
(*                                                                         *)
(* The inductive invariant Inv adds to the properties what a process past  *)
(* the lock knows: nobody else touched state.json since it read it         *)
(* (RunsAgree), and what it is about to record stands on evidence          *)
(* (RunsHaveEvidence).  The second half is about TrustPath, the tool       *)
(* composed with a wallet: TrustInv joins Inv and the wallet's own         *)
(* invariant, and says that what the wallet knows was recorded.            *)
(***************************************************************************)
EXTENDS TrustPath, TLAPS

\* log is the numbered history of state.json.
LogIsHistory ==
  /\ \A i \in DOMAIN log : log[i].sequence = i
  /\ state = IF log = <<>> THEN Genesis ELSE log[Len(log)]

\* The local variables of a process past the lock agree with the files.
RunsAgree ==
  \A p \in Operators :
    /\ run[p].pc \in {"records", "build", "state"} => run[p].previous = state
    /\ run[p].pc = "state" =>
         /\ ValidTransition(state, run[p].payload)
         /\ run[p].payload.sequence = state.sequence + 1
    /\ run[p].pc \in {"archive", "latest"} => run[p].payload = state /\ state # Genesis
    /\ run[p].pc = "latest" => run[p].payload \in archive

\* New records of a snapshot in the making rest on approvals that were really given.
RunsHaveEvidence ==
  /\ ledger \subseteq approvals
  /\ \A p \in Operators :
       /\ run[p].ledger \subseteq approvals
       /\ run[p].pc = "build" =>
            \A r \in run[p].merchants \ run[p].previous.merchants : Evidence(r, run[p].now)
       /\ run[p].pc = "state" =>
            \A r \in run[p].payload.merchants \ run[p].previous.merchants :
              Evidence(r, run[p].payload.issuedAt)

Inv == TypeOK /\ LockHeldByOne /\ LogIsHistory /\ PublishedIsRecorded
         /\ RunsAgree /\ RunsHaveEvidence

USE DEF At

-----------------------------------------------------------------------------
LEMMA GenesisType == Genesis \in Payload
BY DEF Genesis, Payload

LEMMA IdleType == Idle \in Run /\ Idle.pc = "idle"
BY GenesisType DEF Idle, Run, Before

\* The snapshot a process builds is one, and its sequence is the next.
LEMMA SnapshotType ==
  ASSUME TypeOK, NEW p \in Operators
  PROVE  /\ Snapshot(p) \in Payload
         /\ Snapshot(p).sequence = run[p].previous.sequence + 1
         /\ Snapshot(p).issuedAt = run[p].now
         /\ Snapshot(p).merchants = run[p].merchants
<1>1. run[p] \in Run /\ main \in Commits
  BY DEF TypeOK
<1>2. Tree[main].revocations \in SUBSET Revocation
  BY <1>1, ReleaseAssumption
<1>3. run[p].previous.sequence \in Nat
  BY <1>1 DEF Run, Payload
<1>4. /\ run[p].now \in Nat /\ run[p].sourceCommit \in Commits \cup {NoCommit}
      /\ run[p].merchants \in SUBSET Record
  BY <1>1 DEF Run
<1> QED
  BY <1>2, <1>3, <1>4, NumbersAssumption DEF Snapshot, Payload

\* A number once in the log stays what it was, and everything recorded is in it.
LEMMA Recorded ==
  ASSUME TypeOK, LogIsHistory
  PROVE  /\ state # Genesis <=> log # <<>>
         /\ state # Genesis => state.sequence \in DOMAIN log /\ log[state.sequence] = state
         /\ state.sequence = Len(log)
<1>1. log \in Seq(Payload)
  BY DEF TypeOK
<1>2. CASE log = <<>>
  BY <1>1, <1>2 DEF LogIsHistory, Genesis
<1>3. CASE log # <<>>
  <2>1. Len(log) \in DOMAIN log
    BY <1>1, <1>3
  <2>2. state = log[Len(log)] /\ state.sequence = Len(log)
    BY <1>3, <2>1 DEF LogIsHistory
  <2>3. state # Genesis
    BY <1>1, <2>1, <2>2 DEF Genesis
  <2> QED
    BY <1>3, <2>1, <2>2, <2>3
<1> QED
  BY <1>2, <1>3

LEMMA InitInv == Init => Inv
<1> SUFFICES ASSUME Init PROVE Inv
  OBVIOUS
<1>1. TypeOK
  BY GenesisType, IdleType, NumbersAssumption DEF Init, TypeOK, Genesis
<1>2. LockHeldByOne
  BY IdleType DEF Init, LockHeldByOne, Critical
<1>3. LogIsHistory /\ PublishedIsRecorded
  BY DEF Init, LogIsHistory, PublishedIsRecorded
<1>4. RunsAgree
  BY IdleType DEF Init, RunsAgree
<1>5. RunsHaveEvidence
  BY IdleType DEF Init, RunsHaveEvidence, Idle
<1> QED
  BY <1>1, <1>2, <1>3, <1>4, <1>5 DEF Inv

-----------------------------------------------------------------------------
(* Every step keeps the types.                                              *)

LEMMA TypeStep ==
  ASSUME Inv, [Next]_vars
  PROVE  TypeOK'
<1> USE DEF TypeOK, inputs, files
<1>t. TypeOK /\ RunsAgree
  BY DEF Inv
<1>1. ASSUME NEW p \in Operators, Start(p) PROVE TypeOK'
  <2>1. run' \in [Operators -> Run]
    BY <1>t, <1>1 DEF Start, Run, Before
  <2> QED
    BY <1>t, <1>1, <2>1 DEF Start
<1>2. ASSUME NEW p \in Operators, TakeLock(p) PROVE TypeOK'
  <2>1. run' \in [Operators -> Run]
    BY <1>t, <1>2 DEF TakeLock, Goto, Run, Critical
  <2> QED
    BY <1>t, <1>2, <2>1 DEF TakeLock
<1>3. ASSUME NEW p \in Operators, LockBusy(p) PROVE TypeOK'
  BY <1>t, <1>3, IdleType DEF LockBusy
<1>4. ASSUME NEW p \in Operators, LoadState(p) PROVE TypeOK'
  <2>1. run \in [Operators -> Run] /\ state \in Payload /\ clock \in Nat
    BY <1>t
  <2>2. run' \in [Operators -> Run]
    <3> DEFINE r == [run[p] EXCEPT !.pc = "records", !.previous = state, !.now = clock]
    <3>1. r \in Run
      BY <2>1 DEF Run, Critical
    <3>2. run' = [run EXCEPT ![p] = r]
      BY <1>4, <2>1 DEF LoadState
    <3> HIDE DEF r
    <3> QED
      BY <2>1, <3>1, <3>2
  <2> QED
    BY <1>t, <1>4, <2>2 DEF LoadState
<1>5. ASSUME NEW p \in Operators, ReadRecords(p) PROVE TypeOK'
  <2>1. run \in [Operators -> Run] /\ Tree[main].records \in SUBSET Record
    BY <1>t, ReleaseAssumption
  <2>2. run' \in [Operators -> Run]
    BY <1>5, <2>1 DEF ReadRecords, Run, Critical
  <2> QED
    BY <1>t, <1>5, <2>2 DEF ReadRecords
<1>6. ASSUME NEW p \in Operators, BuildSnapshot(p) PROVE TypeOK'
  <2>1. Snapshot(p) \in Payload
    BY <1>t, SnapshotType
  <2>2. run' \in [Operators -> Run]
    BY <1>t, <1>6, <2>1 DEF BuildSnapshot, Run, Critical
  <2> QED
    BY <1>t, <1>6, <2>2 DEF BuildSnapshot
<1>7. ASSUME NEW p \in Operators, WriteState(p) PROVE TypeOK'
  <2>1. run[p].payload \in Payload /\ run[p].payload.sequence \in 0..MaxSequence
    BY <1>t, <1>7 DEF WriteState, RunsAgree, ValidTransition, ValidRegistry, Run
  <2>2. run' \in [Operators -> Run]
    BY <1>t, <1>7 DEF WriteState, Goto, Run, Critical
  <2> QED
    BY <1>t, <1>7, <2>1, <2>2 DEF WriteState
<1>8. ASSUME NEW p \in Operators, WriteArchive(p) PROVE TypeOK'
  <2>1. run[p].payload \in Payload
    BY <1>t DEF Run
  <2>2. run' \in [Operators -> Run]
    BY <1>t, <1>8 DEF WriteArchive, Goto, Run, Critical
  <2> QED
    BY <1>t, <1>8, <2>1, <2>2 DEF WriteArchive
<1>9. ASSUME NEW p \in Operators, WriteLatest(p) PROVE TypeOK'
  <2>1. run[p].payload \in Payload
    BY <1>t DEF Run
  <2>2. run' \in [Operators -> Run]
    BY <1>t, <1>9 DEF WriteLatest, Goto, Run, Critical
  <2> QED
    BY <1>t, <1>9, <2>1, <2>2 DEF WriteLatest
<1>10. ASSUME NEW p \in Operators, Unlock(p) \/ Refuse(p) PROVE TypeOK'
  BY <1>t, <1>10, IdleType DEF Unlock, Refuse, Abandon
<1>11. ASSUME NEW p \in Operators, Fail(p) PROVE TypeOK'
  BY <1>t, <1>11, IdleType DEF Fail, Abandon
<1>12. ASSUME NEW p \in Operators, Crash(p) PROVE TypeOK'
  BY <1>t, <1>12, IdleType DEF Crash
<1>13. CASE RemoveStaleLock
  BY <1>t, <1>13 DEF RemoveStaleLock
<1>14. ASSUME NEW r \in Candidates, NEW reviewers \in SUBSET (Maintainers \cup {Reviewer}),
              NEW author \in Authors, NEW at \in 0..clock, NEW until \in ProofEnds(r, at),
              AcceptEnrollment(r, reviewers, author, at, until)
       PROVE  TypeOK'
  <2> DEFINE a == [record |-> r, verifiedAt |-> at, proofsUntil |-> until,
                   exceptional |-> Rule(at).exceptional, reviewers |-> reviewers,
                   author |-> author]
  <2>1. /\ AB!Accept(a) /\ approvals' = approvals \cup {a}
        /\ UNCHANGED <<clock, main, lock, files, run, faults>>
    BY <1>14 DEF AcceptEnrollment
  <2> HIDE DEF a
  <2>2. a \in Approval /\ ledger' = {b \in ledger : b.record.id # a.record.id} \cup {a}
    BY <2>1 DEF AB!Accept, Approval
  <2>3. ledger' \in SUBSET Approval /\ approvals' \in SUBSET Approval
    BY <1>t, <2>1, <2>2
  <2> QED
    BY <1>t, <2>1, <2>3
<1>15. CASE MergeMain
  BY <1>t, <1>15 DEF MergeMain
<1>16. CASE Tick
  BY <1>t, <1>16 DEF Tick
<1>17. CASE UNCHANGED vars
  BY <1>t, <1>17 DEF vars
<1> QED
  BY <1>1, <1>2, <1>3, <1>4, <1>5, <1>6, <1>7, <1>8, <1>9, <1>10, <1>11, <1>12, <1>13,
     <1>14, <1>15, <1>16, <1>17 DEF Next, Step, Environment

-----------------------------------------------------------------------------
(* Every step keeps the lock to one process.                                *)

LEMMA LockStep ==
  ASSUME Inv, [Next]_vars
  PROVE  LockHeldByOne'
<1> USE DEF LockHeldByOne, Critical
<1>t. run \in [Operators -> Run] /\ LockHeldByOne
  BY DEF Inv, TypeOK
<1>1. ASSUME NEW p \in Operators, Start(p) PROVE LockHeldByOne'
  BY <1>t, <1>1 DEF Start, Run
<1>2. ASSUME NEW p \in Operators, TakeLock(p) PROVE LockHeldByOne'
  BY <1>t, <1>2 DEF TakeLock, Goto, Run
<1>3. ASSUME NEW p \in Operators, LockBusy(p) PROVE LockHeldByOne'
  BY <1>t, <1>3, IdleType DEF LockBusy
<1>4. ASSUME NEW p \in Operators,
             LoadState(p) \/ ReadRecords(p) \/ BuildSnapshot(p) \/ WriteState(p)
               \/ WriteArchive(p) \/ WriteLatest(p)
      PROVE  LockHeldByOne'
  <2>1. /\ run[p].pc \in Critical /\ lock' = lock
        /\ \A q \in Operators : q # p => run'[q] = run[q]
    BY <1>t, <1>4 DEF LoadState, ReadRecords, BuildSnapshot, WriteState, WriteArchive,
                     WriteLatest, Goto
  <2> QED
    BY <1>t, <2>1
<1>5. ASSUME NEW p \in Operators, Unlock(p) PROVE LockHeldByOne'
  BY <1>t, <1>5, IdleType DEF Unlock, Abandon
<1>6. ASSUME NEW p \in Operators, Refuse(p) \/ Fail(p) PROVE LockHeldByOne'
  BY <1>t, <1>6, IdleType DEF Refuse, Fail, Abandon
<1>7. ASSUME NEW p \in Operators, Crash(p) PROVE LockHeldByOne'
  BY <1>t, <1>7, IdleType DEF Crash
<1>8. CASE RemoveStaleLock
  BY <1>t, <1>8 DEF RemoveStaleLock
<1>9. CASE Environment \/ UNCHANGED vars
  BY <1>t, <1>9 DEF Environment, AcceptEnrollment, MergeMain, Tick, vars
<1> QED
  BY <1>1, <1>2, <1>3, <1>4, <1>5, <1>6, <1>7, <1>8, <1>9 DEF Next, Step

-----------------------------------------------------------------------------
(* Every step keeps the history and what is published from it.              *)

LEMMA LogStep ==
  ASSUME Inv, [Next]_vars
  PROVE  LogIsHistory' /\ PublishedIsRecorded'
<1> USE DEF LogIsHistory, PublishedIsRecorded
<1>t. /\ TypeOK /\ LogIsHistory /\ PublishedIsRecorded /\ RunsAgree
      /\ log \in Seq(Payload)
  BY DEF Inv, TypeOK
<1>s. /\ state # Genesis => state.sequence \in DOMAIN log /\ log[state.sequence] = state
      /\ state.sequence = Len(log)
  BY <1>t, Recorded
<1>1. CASE UNCHANGED files
  BY <1>t, <1>1 DEF files
<1>2. ASSUME NEW p \in Operators, WriteState(p)
      PROVE  LogIsHistory' /\ PublishedIsRecorded'
  <2> DEFINE n == Len(log)
             s == run[p].payload
  <2>1. /\ s \in Payload /\ s.sequence = n + 1
        /\ state' = s /\ log' = Append(log, s) /\ archive' = archive /\ latest' = latest
    BY <1>t, <1>s, <1>2 DEF WriteState, RunsAgree, TypeOK, Run
  <2> HIDE DEF s
  <2>2. /\ log' \in Seq(Payload) /\ Len(log') = n + 1 /\ log'[n + 1] = s
        /\ n \in Nat /\ DOMAIN log = 1..n /\ DOMAIN log' = 1..(n + 1)
        /\ \A i \in 1..n : log'[i] = log[i]
    BY <1>t, <2>1
  <2>3. LogIsHistory'
    <3>1. \A i \in 1..(n + 1) : log'[i].sequence = i
      BY <1>t, <2>1, <2>2
    <3>2. log' # <<>>
      BY <2>2
    <3> QED
      BY <2>1, <2>2, <3>1, <3>2
  <2>4. \A x \in (archive \cup {latest}) \ {Genesis} :
          x.sequence \in 1..(n + 1) /\ log'[x.sequence] = x
    BY <1>t, <2>2
  <2>5. PublishedIsRecorded'
    BY <1>t, <2>1, <2>2, <2>4
  <2> QED
    BY <2>3, <2>5
<1>3. ASSUME NEW p \in Operators, WriteArchive(p)
      PROVE  LogIsHistory' /\ PublishedIsRecorded'
  <2>1. /\ run[p].payload = state /\ state # Genesis
        /\ archive' = {a \in archive : a.sequence # state.sequence} \cup {state}
        /\ state' = state /\ log' = log /\ latest' = latest
    BY <1>t, <1>3 DEF WriteArchive, RunsAgree
  <2>2. latest # Genesis => latest \in archive'
    <3> SUFFICES ASSUME latest # Genesis PROVE latest \in archive'
      OBVIOUS
    <3>1. latest \in archive /\ log[latest.sequence] = latest
      BY <1>t
    <3>2. CASE latest.sequence = state.sequence
      BY <1>s, <2>1, <3>1, <3>2
    <3>3. CASE latest.sequence # state.sequence
      BY <2>1, <3>1, <3>3
    <3> QED
      BY <3>2, <3>3
  <2> QED
    BY <1>t, <2>1, <2>2
<1>4. ASSUME NEW p \in Operators, WriteLatest(p)
      PROVE  LogIsHistory' /\ PublishedIsRecorded'
  BY <1>t, <1>4 DEF WriteLatest, RunsAgree
<1>5. ASSUME NEW p \in Operators,
             \/ Start(p) \/ TakeLock(p) \/ LockBusy(p) \/ LoadState(p) \/ ReadRecords(p)
             \/ BuildSnapshot(p) \/ Unlock(p) \/ Refuse(p) \/ Fail(p) \/ Crash(p)
      PROVE  UNCHANGED files
  BY <1>5 DEF Start, TakeLock, LockBusy, LoadState, ReadRecords, BuildSnapshot, Unlock, Refuse,
              Fail, Abandon, Crash
<1>6. ASSUME RemoveStaleLock \/ Environment \/ UNCHANGED vars
      PROVE  UNCHANGED files
  BY <1>6 DEF RemoveStaleLock, Environment, AcceptEnrollment, MergeMain, Tick, vars, files
<1> QED
  BY <1>1, <1>2, <1>3, <1>4, <1>5, <1>6 DEF Next, Step

-----------------------------------------------------------------------------
(* Every step keeps the processes' view of the files.                       *)

LEMMA AgreeStep ==
  ASSUME Inv, [Next]_vars
  PROVE  RunsAgree'
<1> USE DEF RunsAgree
<1>t. run \in [Operators -> Run] /\ RunsAgree /\ LockHeldByOne /\ TypeOK
  BY DEF Inv, TypeOK
<1>1. ASSUME NEW p \in Operators,
             run[p].pc \in Critical,
             \A q \in Operators : q # p => run'[q] = run[q]
      PROVE  \A q \in Operators \ {p} : run'[q].pc \notin Critical
  BY <1>t, <1>1 DEF LockHeldByOne
<1>2. ASSUME NEW p \in Operators, Start(p) \/ TakeLock(p) \/ LockBusy(p) PROVE RunsAgree'
  <2>1. /\ UNCHANGED <<state, archive>>
        /\ run'[p].pc \in {"idle", "lock", "load"}
        /\ \A q \in Operators : q # p => run'[q] = run[q]
    BY <1>t, <1>2, IdleType DEF Start, TakeLock, LockBusy, Goto, files, Run
  <2> QED
    BY <1>t, <2>1
<1>3. ASSUME NEW p \in Operators, Unlock(p) \/ Refuse(p) \/ Fail(p) \/ Crash(p)
      PROVE  RunsAgree'
  <2>1. /\ UNCHANGED <<state, archive>> /\ run'[p].pc = "idle"
        /\ \A q \in Operators : q # p => run'[q] = run[q]
    BY <1>t, <1>3, IdleType DEF Unlock, Refuse, Fail, Crash, Abandon, files
  <2> QED
    BY <1>t, <2>1
<1>4. ASSUME NEW p \in Operators, LoadState(p) PROVE RunsAgree'
  <2>1. /\ UNCHANGED <<state, archive>>
        /\ run'[p].pc = "records" /\ run'[p].previous = state
        /\ \A q \in Operators : q # p => run'[q] = run[q]
    BY <1>t, <1>4 DEF LoadState, files, Run
  <2> QED
    BY <1>t, <2>1
<1>5. ASSUME NEW p \in Operators, ReadRecords(p) PROVE RunsAgree'
  <2>1. /\ UNCHANGED <<state, archive>>
        /\ run'[p].pc = "build" /\ run'[p].previous = state
        /\ \A q \in Operators : q # p => run'[q] = run[q]
    BY <1>t, <1>5 DEF ReadRecords, files, Run
  <2> QED
    BY <1>t, <2>1
<1>6. ASSUME NEW p \in Operators, BuildSnapshot(p) PROVE RunsAgree'
  <2>1. /\ UNCHANGED <<state, archive>>
        /\ run'[p].pc = "state" /\ run'[p].previous = state
        /\ run'[p].payload = Snapshot(p)
        /\ \A q \in Operators : q # p => run'[q] = run[q]
    BY <1>t, <1>6 DEF BuildSnapshot, files, Run
  <2>2. ValidTransition(state, Snapshot(p)) /\ Snapshot(p).sequence = state.sequence + 1
    BY <1>t, <1>6, SnapshotType DEF BuildSnapshot, Buildable
  <2> QED
    BY <1>t, <2>1, <2>2
<1>7. ASSUME NEW p \in Operators, WriteState(p) PROVE RunsAgree'
  <2>1. /\ run[p].pc \in Critical /\ state' = run[p].payload
        /\ run'[p].pc = "archive" /\ run'[p].payload = run[p].payload
        /\ \A q \in Operators : q # p => run'[q] = run[q]
    BY <1>t, <1>7 DEF WriteState, Goto, Run, Critical
  <2>2. run[p].payload # Genesis
    <3>1. ValidRegistry(run[p].payload)
      BY <1>t, <1>7 DEF WriteState, ValidTransition
    <3> QED
      BY <3>1, NumbersAssumption DEF ValidRegistry, Genesis
  <2>3. \A q \in Operators \ {p} : run'[q].pc \notin Critical
    BY <1>1, <2>1
  <2> QED
    BY <2>1, <2>2, <2>3 DEF Critical
<1>8. ASSUME NEW p \in Operators, WriteArchive(p) PROVE RunsAgree'
  <2>1. /\ run[p].pc \in Critical /\ run[p].payload = state /\ state # Genesis
        /\ state' = state /\ run[p].payload \in archive'
        /\ run'[p].pc = "latest" /\ run'[p].payload = run[p].payload
        /\ \A q \in Operators : q # p => run'[q] = run[q]
    BY <1>t, <1>8 DEF WriteArchive, Goto, Run, Critical
  <2>2. \A q \in Operators \ {p} : run'[q].pc \notin Critical
    BY <1>1, <2>1
  <2> QED
    BY <2>1, <2>2 DEF Critical
<1>9. ASSUME NEW p \in Operators, WriteLatest(p) PROVE RunsAgree'
  <2>1. /\ UNCHANGED <<state, archive>> /\ run'[p].pc = "unlock"
        /\ \A q \in Operators : q # p => run'[q] = run[q]
    BY <1>t, <1>9 DEF WriteLatest, Goto, Run
  <2> QED
    BY <1>t, <2>1
<1>10. CASE RemoveStaleLock \/ Environment \/ UNCHANGED vars
  <2>1. UNCHANGED <<run, state, archive>>
    BY <1>10 DEF RemoveStaleLock, Environment, AcceptEnrollment, MergeMain, Tick, vars, files
  <2> QED
    BY <1>t, <2>1
<1> QED
  BY <1>2, <1>3, <1>4, <1>5, <1>6, <1>7, <1>8, <1>9, <1>10 DEF Next, Step

-----------------------------------------------------------------------------
(* Every step keeps the evidence.                                           *)

\* A record that passes the checks against a ledger of real approvals is unchanged or
\* has evidence.
LEMMA PublishableHasEvidence ==
  ASSUME TypeOK, NEW book, book \subseteq approvals, NEW r, NEW previous, NEW now \in Nat,
         Publishable(r, book, previous, now), r \notin previous.merchants
  PROVE  Evidence(r, now)
<1>1. PICK a \in book :
        /\ a.record = r
        /\ ApprovalStands(a, now, r \in previous.merchants)
        /\ (r \notin previous.merchants /\ r.status = "active") => a.proofsUntil > now
  BY DEF Publishable
<1>2. a \in Approval
  BY <1>1 DEF TypeOK
<1>3. a.proofsUntil \in Nat /\ a.exceptional \in BOOLEAN
  BY <1>2 DEF Approval, AB!Approval
<1>4. a.verifiedAt <= now /\ (a.exceptional => now < ExceptionEnd)
  BY <1>1, <1>3 DEF ApprovalStands
<1>5. r.status = "active" => now < a.proofsUntil
  BY <1>1, <1>3
<1> QED
  BY <1>1, <1>4, <1>5 DEF Evidence

LEMMA EvidenceStep ==
  ASSUME Inv, [Next]_vars
  PROVE  RunsHaveEvidence'
<1> USE DEF RunsHaveEvidence
<1>t. run \in [Operators -> Run] /\ RunsHaveEvidence /\ TypeOK
  BY DEF Inv, TypeOK
<1>1. ASSUME approvals' = approvals, ledger' = ledger, NEW p \in Operators,
             \A q \in Operators : q # p => run'[q] = run[q],
             run'[p].ledger \subseteq approvals,
             run'[p].pc \notin {"build", "state"}
      PROVE  RunsHaveEvidence'
  BY <1>t, <1>1 DEF Evidence
<1>2. ASSUME NEW p \in Operators, Start(p) \/ TakeLock(p) \/ LockBusy(p) \/ LoadState(p)
      PROVE  RunsHaveEvidence'
  <2>1. /\ UNCHANGED <<approvals, ledger>> /\ run'[p].ledger \subseteq approvals
        /\ run'[p].pc \notin {"build", "state"}
        /\ \A q \in Operators : q # p => run'[q] = run[q]
    BY <1>t, <1>2, IdleType DEF Start, TakeLock, LockBusy, LoadState, Goto, inputs, Run, Idle
  <2> QED
    BY <1>1, <2>1
<1>3. ASSUME NEW p \in Operators,
             WriteState(p) \/ WriteArchive(p) \/ WriteLatest(p) \/ Unlock(p)
               \/ Refuse(p) \/ Fail(p) \/ Crash(p)
      PROVE  RunsHaveEvidence'
  <2>1. /\ UNCHANGED <<approvals, ledger>> /\ run'[p].ledger \subseteq approvals
        /\ run'[p].pc \notin {"build", "state"}
        /\ \A q \in Operators : q # p => run'[q] = run[q]
    BY <1>t, <1>3, IdleType DEF WriteState, WriteArchive, WriteLatest, Unlock, Refuse, Fail, Abandon,
                                Crash, Goto, inputs, Run, Idle
  <2> QED
    BY <1>1, <2>1
<1>4. ASSUME NEW p \in Operators, ReadRecords(p) PROVE RunsHaveEvidence'
  <2>1. /\ UNCHANGED <<approvals, ledger>>
        /\ run'[p].ledger = run[p].ledger /\ run'[p].previous = run[p].previous
        /\ run'[p].now = run[p].now /\ run'[p].pc = "build"
        /\ run'[p].merchants = Tree[main].records
        /\ \A q \in Operators : q # p => run'[q] = run[q]
    BY <1>t, <1>4 DEF ReadRecords, inputs, Run
  <2>2. \A r \in Tree[main].records \ run[p].previous.merchants : Evidence(r, run[p].now)
    <3>1. run[p].now \in Nat /\ run[p].ledger \subseteq approvals
      BY <1>t DEF Run
    <3> QED
      BY <1>t, <1>4, <3>1, PublishableHasEvidence DEF ReadRecords
  <2> QED
    BY <1>t, <2>1, <2>2 DEF Evidence
<1>5. ASSUME NEW p \in Operators, BuildSnapshot(p) PROVE RunsHaveEvidence'
  <2>1. /\ UNCHANGED <<approvals, ledger>>
        /\ run'[p].ledger = run[p].ledger /\ run'[p].previous = run[p].previous
        /\ run'[p].payload = Snapshot(p) /\ run[p].pc = "build" /\ run'[p].pc = "state"
        /\ \A q \in Operators : q # p => run'[q] = run[q]
    BY <1>t, <1>5 DEF BuildSnapshot, inputs, Run
  <2>2. Snapshot(p).merchants = run[p].merchants /\ Snapshot(p).issuedAt = run[p].now
    BY <1>t, SnapshotType
  <2> QED
    BY <1>t, <2>1, <2>2 DEF Evidence
<1>6. ASSUME approvals \subseteq approvals', ledger' \subseteq approvals', run' = run
      PROVE  RunsHaveEvidence'
  BY <1>t, <1>6 DEF Evidence
<1>7. CASE Environment
  <2>1. CASE MergeMain \/ Tick
    BY <1>t, <1>6, <2>1 DEF MergeMain, Tick
  <2>2. ASSUME NEW r, NEW reviewers, NEW author, NEW at, NEW until,
               AcceptEnrollment(r, reviewers, author, at, until)
        PROVE  RunsHaveEvidence'
    <3>1. ledger' \subseteq approvals' /\ approvals \subseteq approvals' /\ run' = run
      BY <1>t, <2>2 DEF AcceptEnrollment, AB!Accept
    <3> QED
      BY <1>6, <3>1
  <2> QED
    BY <1>7, <2>1, <2>2 DEF Environment
<1>8. CASE RemoveStaleLock \/ UNCHANGED vars
  BY <1>t, <1>6, <1>8 DEF RemoveStaleLock, vars, inputs
<1> QED
  BY <1>2, <1>3, <1>4, <1>5, <1>7, <1>8 DEF Next, Step

-----------------------------------------------------------------------------
(* The theorems.                                                            *)

\* The inductive invariant holds in every reachable state.
THEOREM ReleaseInvariant == Spec => []Inv
<1>1. Init => Inv
  BY InitInv
<1>2. Inv /\ [Next]_vars => Inv'
  BY TypeStep, LockStep, LogStep, AgreeStep, EvidenceStep DEF Inv
<1> QED
  BY <1>1, <1>2, PTL DEF Spec

\* Every variable keeps its type, state.json's sequence its bound.
THEOREM TypeCorrect == Spec => []TypeOK
<1>1. Inv => TypeOK
  BY DEF Inv
<1> QED
  BY <1>1, ReleaseInvariant, PTL

\* The lock file keeps all operators but one out.
THEOREM MutualExclusion == Spec => []LockHeldByOne
<1>1. Inv => LockHeldByOne
  BY DEF Inv
<1> QED
  BY <1>1, ReleaseInvariant, PTL

\* Whatever was cut off, only recorded and archived snapshots are on display.
THEOREM OnlyRecordedIsPublished == Spec => []PublishedIsRecorded
<1>1. Inv => PublishedIsRecorded
  BY DEF Inv
<1> QED
  BY <1>1, ReleaseInvariant, PTL

\* Every record enters state.json on evidence that holds at its snapshot's issue time.
THEOREM EvidenceIsFresh == Spec => FreshWhenRecorded
<1>1. ASSUME Inv, [Next]_vars, NEW r \in state'.merchants \ state.merchants
      PROVE  Evidence(r, state'.issuedAt)
  <2>1. PICK p \in Operators : WriteState(p)
    <3>1. state' # state
      BY <1>1
    <3> QED
      BY <1>1, <3>1
      DEF Next, Step, Environment, vars, files, Start, TakeLock, LockBusy, LoadState,
          ReadRecords, BuildSnapshot, WriteArchive, WriteLatest, Unlock, Refuse, Abandon, Fail, Crash,
          RemoveStaleLock, AcceptEnrollment, MergeMain, Tick
  <2>2. run[p].pc = "state" /\ run[p].previous = state /\ state' = run[p].payload
    BY <1>1, <2>1 DEF Inv, RunsAgree, WriteState
  <2> QED
    BY <1>1, <2>2 DEF Inv, RunsHaveEvidence
<1>2. Inv /\ [Next]_vars
        => [\A r \in state'.merchants \ state.merchants : Evidence(r, state'.issuedAt)]_files
  BY <1>1
<1> QED
  BY <1>2, ReleaseInvariant, PTL DEF Spec, FreshWhenRecorded

\* A sequence number never comes to stand for a second snapshot.
THEOREM NumbersAreForever == Spec => SequenceNeverReused
<1> DEFINE A == \A a \in archive \cup {state, latest}, b \in archive' \cup {state', latest'} :
                  a.sequence = b.sequence => a = b
<1>1. ASSUME Inv, Inv', [Next]_vars,
             NEW a \in archive \cup {state, latest},
             NEW b \in archive' \cup {state', latest'}, a.sequence = b.sequence
      PROVE  a = b
  <2>1. log \in Seq(Payload) /\ log' \in Seq(Payload)
    BY <1>1 DEF Inv, TypeOK
  <2>2. \A i \in DOMAIN log : i \in DOMAIN log' /\ log'[i] = log[i]
    <3>1. log' = log \/ \E s \in Payload : log' = Append(log, s)
      <4>1. ASSUME NEW p \in Operators, WriteState(p)
            PROVE  \E s \in Payload : log' = Append(log, s)
        BY <1>1, <4>1 DEF WriteState, Inv, TypeOK, Run
      <4> QED
        BY <1>1, <4>1
        DEF Next, Step, Environment, vars, files, Start, TakeLock, LockBusy, LoadState,
            ReadRecords, BuildSnapshot, WriteArchive, WriteLatest, Unlock, Refuse, Abandon, Fail,
            Crash, RemoveStaleLock, AcceptEnrollment, MergeMain, Tick
    <3> QED
      BY <2>1, <3>1
  <2>3. a = Genesis \/ (a.sequence \in DOMAIN log /\ log[a.sequence] = a)
    BY <1>1 DEF Inv, PublishedIsRecorded
  <2>4. b = Genesis \/ (b.sequence \in DOMAIN log' /\ log'[b.sequence] = b)
    BY <1>1 DEF Inv, PublishedIsRecorded
  <2>5. 0 \notin DOMAIN log /\ 0 \notin DOMAIN log' /\ Genesis.sequence = 0
    BY <2>1 DEF Genesis
  <2> QED
    BY <1>1, <2>2, <2>3, <2>4, <2>5
<1>2. Inv /\ Inv' /\ [Next]_vars => [A]_files
  BY <1>1
<1> QED
  BY <1>2, ReleaseInvariant, PTL DEF Spec, SequenceNeverReused

-----------------------------------------------------------------------------
(* The tool implements the abstract log.                                    *)

\* The rules SL uses are the ones the tool uses.
LEMMA SameRules ==
  /\ SL!Genesis = Genesis
  /\ SL!Payload = Payload
  /\ \A p, q : ValidTransition(p, q) => SL!ValidTransition(p, q)
<1>1. SL!Genesis = Genesis
  BY DEF SL!Genesis, Genesis
<1>2. SL!Payload = Payload
  BY DEF SL!Payload, Payload, SL!Record, Record, SL!Revocation, Revocation, SL!Key, Key
<1>3. \A p : SL!ValidRegistry(p) <=> ValidRegistry(p)
  BY DEF SL!ValidRegistry, ValidRegistry, SL!Lifetime, Lifetime, SL!ValidRecord, ValidRecord
<1>4. \A p, q : KeysRetained(p, q) => SL!KeysRetained(p, q)
  BY DEF SL!KeysRetained, KeysRetained, SL!HasKid, HasKid, SL!Revoked, Revoked
<1>5. \A p, q : RetiredStayOut(p, q) => SL!RetiredStayOut(p, q)
  BY DEF SL!RetiredStayOut, RetiredStayOut, SL!KeysOf, KeysOf
<1>6. \A p, q : InOrder(p, q) => SL!InOrder(p, q)
  BY DEF SL!InOrder, InOrder
<1> QED
  BY <1>1, <1>2, <1>3, <1>4, <1>5, <1>6 DEF SL!ValidTransition, ValidTransition

LEMMA RefineInit == Init => SL!Init
BY DEF Init, SL!Init, Genesis

LEMMA RefineStep ==
  ASSUME Inv, [Next]_vars
  PROVE  [SL!Next]_(SL!vars)
<1> USE DEF SL!vars
<1>t. /\ log \in Seq(Payload) /\ LogIsHistory /\ PublishedIsRecorded /\ RunsAgree
      /\ state.sequence = Len(log) /\ TypeOK
  BY Recorded DEF Inv, TypeOK
<1>1. ASSUME NEW p \in Operators, WriteState(p) PROVE SL!RecordSnapshot
  <2> DEFINE s == run[p].payload
  <2>1. /\ s \in Payload /\ s.sequence = Len(log) + 1 /\ ValidTransition(state, s)
        /\ log' = Append(log, s) /\ latest' = latest
    BY <1>t, <1>1 DEF WriteState, RunsAgree, TypeOK, Run
  <2>2. SL!Last = state
    BY <1>t, SameRules DEF SL!Last, LogIsHistory
  <2> HIDE DEF s
  <2>3. Len(log') = Len(log) + 1 /\ log'[Len(log) + 1] = s
    BY <1>t, <2>1
  <2> QED
    BY <2>1, <2>2, <2>3, SameRules DEF SL!RecordSnapshot
<1>2. ASSUME NEW p \in Operators, WriteLatest(p) PROVE [SL!Next]_(SL!vars)
  <2>1. latest' = state /\ log' = log
    BY <1>t, <1>2 DEF WriteLatest, RunsAgree
  <2>2. latest.sequence \in 0..Len(log)
    BY <1>t DEF PublishedIsRecorded, Genesis
  <2>3. CASE latest.sequence = Len(log)
    BY <1>t, <2>1, <2>3
  <2>4. CASE latest.sequence < Len(log)
    BY <1>t, <2>1, <2>4 DEF SL!Next, SL!ExposeSnapshot
  <2> QED
    BY <1>t, <2>2, <2>3, <2>4
<1>3. ASSUME \A p \in Operators : ~WriteState(p) /\ ~WriteLatest(p)
      PROVE  UNCHANGED <<log, latest>>
  BY <1>3
  DEF Next, Step, Environment, vars, files, Start, TakeLock, LockBusy, LoadState,
      ReadRecords, BuildSnapshot, WriteArchive, Unlock, Refuse, Abandon, Fail, Crash,
      RemoveStaleLock, AcceptEnrollment, MergeMain, Tick
<1> QED
  BY <1>1, <1>2, <1>3 DEF SL!Next

\* The command, run by any number of operators and interrupted anywhere, is the atomic
\* operation SnapshotLog describes.
THEOREM Refinement == Spec => ImplementsSnapshotLog
<1>1. Inv /\ [Next]_vars => [SL!Next]_(SL!vars)
  BY RefineStep
<1> QED
  BY <1>1, RefineInit, ReleaseInvariant, PTL DEF Spec, ImplementsSnapshotLog, SL!Spec

-----------------------------------------------------------------------------
(* What is proved of the abstract log holds of the tool's.                  *)

SLP == INSTANCE SnapshotLogProofs WITH exposed <- latest.sequence

LEMMA SameLog ==
  /\ Init => SLP!Init
  /\ [SL!Next]_(SL!vars) => [SLP!Next]_(SLP!vars)
  /\ SLP!KidNeverRebinds => KidNeverRebinds
  /\ SLP!RetiredKidNeverReturns => RetiredKidNeverReturns
  /\ SLP!HistoryAccumulates => HistoryAccumulates
<1>1. Init => SLP!Init
  BY DEF Init, SLP!Init, Genesis
<1>2. [SL!Next]_(SL!vars) => [SLP!Next]_(SLP!vars)
  BY Zenon
  DEF
      SL!Next, SLP!Next, SL!vars, SLP!vars, SL!RecordSnapshot, SLP!RecordSnapshot,
      SL!ExposeSnapshot, SLP!ExposeSnapshot, SL!Last, SLP!Last, SL!Genesis, SLP!Genesis,
      SL!Payload, SLP!Payload, SL!Record, SLP!Record, SL!Revocation, SLP!Revocation,
      SL!Key, SLP!Key, SL!ValidTransition, SLP!ValidTransition, SL!ValidRegistry,
      SLP!ValidRegistry, SL!ValidRecord, SLP!ValidRecord, SL!Lifetime, SLP!Lifetime,
      SL!InOrder, SLP!InOrder, SL!KeysRetained, SLP!KeysRetained, SL!RetiredStayOut,
      SLP!RetiredStayOut, SL!HasKid, SLP!HasKid, SL!Revoked, SLP!Revoked, SL!KeysOf,
      SLP!KeysOf
<1>3. SLP!KidNeverRebinds => KidNeverRebinds
  BY Zenon DEF KidNeverRebinds, SL!KidNeverRebinds, SLP!KidNeverRebinds, SL!Showing,
            SLP!Showing, SL!KeysOf, SLP!KeysOf
<1>4. SLP!RetiredKidNeverReturns => RetiredKidNeverReturns
  BY Zenon DEF RetiredKidNeverReturns, SL!RetiredKidNeverReturns, SLP!RetiredKidNeverReturns,
            SL!Showing, SLP!Showing, SL!KeysOf, SLP!KeysOf, SL!Revoked, SLP!Revoked
<1>5. SLP!HistoryAccumulates => HistoryAccumulates
  BY Zenon DEF HistoryAccumulates, SL!HistoryAccumulates, SLP!HistoryAccumulates
<1> QED
  BY <1>1, <1>2, <1>3, <1>4, <1>5

LEMMA SameBehaviour == Spec => SLP!Spec
<1>1. Inv /\ [Next]_vars => [SLP!Next]_(SLP!vars)
  BY RefineStep, SameLog
<1> QED
  BY <1>1, SameLog, ReleaseInvariant, PTL DEF Spec, SLP!Spec

\* No sequence of releases, interrupted or not, binds a key ID twice.
THEOREM ReleaseBindsKeyIdsForever == Spec => []KidNeverRebinds
<1>1. SLP!Spec => []SLP!KidNeverRebinds
  BY SLP!KeyIdsAreBoundForever, NumbersAssumption, NoCommitAssumption
<1> QED
  BY <1>1, SameBehaviour, SameLog, PTL

\* A key ID that was revoked and removed stays out of every later release.
THEOREM ReleaseKeepsRetiredKidsOut == Spec => []RetiredKidNeverReturns
<1>1. SLP!Spec => []SLP!RetiredKidNeverReturns
  BY SLP!RetiredKeyIdsStayOut, NumbersAssumption, NoCommitAssumption
<1> QED
  BY <1>1, SameBehaviour, SameLog, PTL

\* Releases are in order of time and only add revocations and merchants.
THEOREM ReleaseHistoryAccumulates == Spec => []HistoryAccumulates
<1>1. SLP!Spec => []SLP!HistoryAccumulates
  BY SLP!HistoryIsAppendOnly, NumbersAssumption, NoCommitAssumption
<1> QED
  BY <1>1, SameBehaviour, SameLog, PTL

-----------------------------------------------------------------------------
(* Approvals and evidence do not get lost.                                  *)

\* Every approval ever written was given by the rule; every record of every snapshot was
\* first recorded, in that snapshot or an earlier one, on evidence that held then.
EvidenceLasts ==
  /\ \A a \in approvals : Approved(a)
  /\ \A i \in DOMAIN log : \A r \in log[i].merchants :
       \E n \in DOMAIN log : n <= i /\ r \in log[n].merchants /\ Evidence(r, log[n].issuedAt)

LEMMA ApprovalsAreGiven ==
  ASSUME NEW r, NEW reviewers, NEW author, NEW at, NEW until,
         AcceptEnrollment(r, reviewers, author, at, until),
         \A a \in approvals : Approved(a)
  PROVE  \A a \in approvals' : Approved(a)
<1> DEFINE a == [record |-> r, verifiedAt |-> at, proofsUntil |-> until,
                 exceptional |-> Rule(at).exceptional, reviewers |-> reviewers, author |-> author]
<1>1. AB!Accept(a) /\ approvals' = approvals \cup {a}
  BY DEF AcceptEnrollment
<1>3. a.exceptional = Rule(a.verifiedAt).exceptional
  BY DEF a
<1> HIDE DEF a
<1>2. Approved(a)
  <2>1. AB!Cardinality(a.reviewers) = Cardinality(a.reviewers)
    BY Zenon DEF AB!Cardinality, Cardinality
  <2>2. AB!Rule(a.verifiedAt) = Rule(a.verifiedAt)
    BY Zenon DEF AB!Rule, Rule
  <2> QED
    BY <1>1, <1>3, <2>1, <2>2 DEF AB!Accept, Approved
<1> QED
  BY <1>1, <1>2

LEMMA EvidenceLastsStep ==
  ASSUME Inv, EvidenceLasts, [Next]_vars
  PROVE  EvidenceLasts'
<1>1. approvals \subseteq approvals' /\ \A a \in approvals' : Approved(a)
  <2>1. ASSUME NEW r, NEW reviewers, NEW author, NEW at, NEW until,
               AcceptEnrollment(r, reviewers, author, at, until)
        PROVE  approvals \subseteq approvals' /\ \A a \in approvals' : Approved(a)
    BY <2>1, ApprovalsAreGiven DEF AcceptEnrollment, EvidenceLasts
  <2>2. CASE approvals' = approvals
    BY <2>2 DEF EvidenceLasts
  <2> QED
    BY <2>1, <2>2
    DEF Next, Step, Environment, vars, inputs, Start, TakeLock, LockBusy, LoadState, ReadRecords,
        BuildSnapshot, WriteState, WriteArchive, WriteLatest, Unlock, Refuse, Abandon, Fail,
        Crash, RemoveStaleLock, MergeMain, Tick
<1>3. ASSUME NEW p \in Operators, WriteState(p) PROVE EvidenceLasts'
  <2> DEFINE s == run[p].payload
  <2> PICK n \in Nat : n = Len(log)
    BY DEF Inv, TypeOK
  <2>1. /\ log \in Seq(Payload) /\ s \in Payload /\ log' = Append(log, s)
        /\ state = IF log = <<>> THEN Genesis ELSE log[Len(log)]
        /\ \A r \in s.merchants \ state.merchants : Evidence(r, s.issuedAt)
    BY <1>3 DEF Inv, TypeOK, Run, WriteState, LogIsHistory, RunsAgree, RunsHaveEvidence
  <2> HIDE DEF s
  <2>2. /\ DOMAIN log = 1..n /\ DOMAIN log' = 1..(n + 1) /\ n \in Nat /\ log'[n + 1] = s
        /\ \A i \in 1..n : log'[i] = log[i]
    BY <2>1
  <2>3. ASSUME NEW i \in 1..n, NEW r \in log[i].merchants
        PROVE  \E k \in 1..n : k <= i /\ r \in log'[k].merchants /\ Evidence(r, log[k].issuedAt)'
    <3>1. PICK k \in 1..n : k <= i /\ r \in log[k].merchants /\ Evidence(r, log[k].issuedAt)
      BY <2>2 DEF EvidenceLasts
    <3>2. Evidence(r, log[k].issuedAt)'
      BY <1>1, <2>2, <3>1 DEF Evidence
    <3> QED
      BY <2>2, <3>1, <3>2
  <2>4. ASSUME NEW r \in s.merchants
        PROVE  \E k \in 1..(n + 1) : /\ k <= n + 1 /\ r \in log'[k].merchants
                                     /\ Evidence(r, log[k].issuedAt)'
    <3>1. CASE r \in state.merchants
      <4>1. log # <<>> /\ r \in log[n].merchants
        BY <2>1, <3>1 DEF Genesis
      <4>2. n \in 1..n
        BY <2>1, <4>1
      <4> QED
        BY <2>2, <2>3, <4>1, <4>2
    <3>2. CASE r \notin state.merchants
      <4>1. Evidence(r, log[n + 1].issuedAt)'
        BY <1>1, <2>1, <2>2, <3>2 DEF Evidence
      <4> QED
        BY <2>2, <4>1
    <3> QED
      BY <3>1, <3>2
  <2>5. ASSUME NEW i \in 1..(n + 1), NEW r \in log'[i].merchants
        PROVE  \E k \in 1..(n + 1) : /\ k <= i /\ r \in log'[k].merchants
                                     /\ Evidence(r, log[k].issuedAt)'
    <3>1. CASE i = n + 1
      BY <2>2, <2>4, <3>1
    <3>2. CASE i # n + 1
      <4>1. i \in 1..n /\ r \in log[i].merchants
        BY <2>2, <3>2
      <4> QED
        BY <2>2, <2>3, <4>1
    <3> QED
      BY <3>1, <3>2
  <2> QED
    BY <1>1, <2>2, <2>5 DEF EvidenceLasts, Approved
<1>4. CASE log' = log
  <2>1. ASSUME NEW i \in DOMAIN log, NEW r \in log[i].merchants
        PROVE  \E n \in DOMAIN log : /\ n <= i /\ r \in log[n].merchants
                                     /\ Evidence(r, log[n].issuedAt)'
    BY <1>1, <1>4 DEF Evidence, EvidenceLasts
  <2> QED
    BY <1>1, <1>4, <2>1 DEF EvidenceLasts, Approved
<1> QED
  BY <1>3, <1>4
  DEF Next, Step, Environment, vars, files, Start, TakeLock, LockBusy, LoadState, ReadRecords,
      BuildSnapshot, WriteArchive, WriteLatest, Unlock, Refuse, Abandon, Fail, Crash,
      RemoveStaleLock, AcceptEnrollment, MergeMain, Tick

LEMMA EvidenceIsKept == Spec => []EvidenceLasts
<1>1. Init => EvidenceLasts
  BY DEF Init, EvidenceLasts
<1>2. Inv /\ EvidenceLasts /\ [Next]_vars => EvidenceLasts'
  BY EvidenceLastsStep
<1> QED
  BY <1>1, <1>2, ReleaseInvariant, PTL DEF Spec

-----------------------------------------------------------------------------
(* From the release tool to a wallet: what is proved of each holds in the   *)
(* composition, and every snapshot the wallet has or remembers is recorded. *)

WP == INSTANCE WalletProofs WITH clock <- walletClock, MaxTime <- WalletTime

LEMMA SameWallet ==
  /\ W!WalletAssumption <=> WP!WalletAssumption
  /\ W!Init => WP!Init
  /\ [W!Next]_(W!vars) => [WP!Next]_(WP!vars)
<1>1. W!WalletAssumption <=> WP!WalletAssumption
  BY Zenon
  DEF W!WalletAssumption, WP!WalletAssumption, W!Compact, WP!Compact, W!Invoice, WP!Invoice,
      W!Payload, WP!Payload, W!Record, WP!Record, W!Revocation, WP!Revocation, W!Key, WP!Key
<1>2. W!Init => WP!Init
  BY Zenon
  DEF W!Init, WP!Init, W!NoCall, WP!NoCall, W!CP!NoMark, WP!CP!NoMark
<1>3. [W!Next]_(W!vars) => [WP!Next]_(WP!vars)
  BY Zenon
  DEF W!Next, WP!Next, W!vars, WP!vars, W!Restart, WP!Restart, W!Tick, WP!Tick,
      W!BeginRegistry, WP!BeginRegistry, W!CheckRegistry, WP!CheckRegistry,
      W!Accept, WP!Accept, W!ReturnRegistry, WP!ReturnRegistry,
      W!BeginInvoice, WP!BeginInvoice, W!EndInvoice, WP!EndInvoice, W!Discard, WP!Discard,
      W!At, WP!At, W!Finish, WP!Finish, W!NoCall, WP!NoCall, W!MarkOf, WP!MarkOf,
      W!Context, WP!Context, W!VerifiesRegistry, WP!VerifiesRegistry,
      W!VerifiesInvoice, WP!VerifiesInvoice, W!RecordsOf, WP!RecordsOf,
      W!KeysFor, WP!KeysFor, W!KeysOf, WP!KeysOf, W!KeyValid, WP!KeyValid,
      W!InContext, WP!InContext, W!Revoked, WP!Revoked, W!Fresh, WP!Fresh,
      W!Lifetime, WP!Lifetime, W!ValidRegistry, WP!ValidRegistry,
      W!ValidRecord, WP!ValidRecord, W!CP!AssertCheckpoint, WP!CP!AssertCheckpoint,
      W!CP!NoMark, WP!CP!NoMark
<1> QED
  BY <1>1, <1>2, <1>3

LEMMA ToolStep == [TrustNext]_allVars => [Next]_vars
BY DEF TrustNext, ReleaseStep, WalletStep, allVars

LEMMA WalletsStep == [TrustNext]_allVars => [WP!Next]_(WP!vars)
<1>1. CASE WalletStep
  BY <1>1, SameWallet DEF WalletStep
<1>2. CASE UNCHANGED walletVars
  BY <1>2 DEF walletVars, WP!vars
<1> QED
  BY <1>1, <1>2 DEF TrustNext, ReleaseStep, allVars

LEMMA PartsBehave == TrustSpec => Spec /\ WP!Spec
<1>1. TrustInit => Init /\ WP!Init
  BY SameWallet DEF TrustInit
<1> QED
  BY <1>1, ToolStep, WalletsStep, PTL DEF TrustSpec, Spec, WP!Spec

LEMMA WalletsInvariant == TrustSpec => []WP!Inv
<1>1. WP!WalletAssumption
  BY TrustPathAssumption, SameWallet
<1>2. WP!Spec => []WP!Inv
  BY <1>1, WP!WalletInvariant, NumbersAssumption, NoCommitAssumption
<1> QED
  BY <1>2, PartsBehave, PTL

\* Every genuine snapshot the wallet has in a call or in memory, and the one its checkpoint
\* stands for, is in the log of the release tool.
WalletKnowsRecorded ==
  /\ \A t \in Calls : call[t].pc # "none" => OnOffer(call[t].compact)
  /\ \A c \in returned : OnOffer(c)
  /\ checkpoint = WP!CP!NoMark
       \/ \E c \in WP!Genuine : OnOffer(c) /\ checkpoint = WP!MarkOf(c)

\* What is recorded stays so.
LEMMA RecordedStays ==
  ASSUME Inv, [Next]_vars
  PROVE  /\ \A i \in DOMAIN log : i \in DOMAIN log' /\ log'[i] = log[i]
         /\ \A c : OnOffer(c) => OnOffer(c)'
<1>1. log \in Seq(Payload) /\ [SL!Next]_(SL!vars)
  BY RefineStep DEF Inv, TypeOK
<1>2. log' = log \/ log' = Append(log, log'[Len(log) + 1])
  BY <1>1 DEF SL!Next, SL!vars, SL!RecordSnapshot, SL!ExposeSnapshot
<1>3. \A i \in DOMAIN log : i \in DOMAIN log' /\ log'[i] = log[i]
  BY <1>1, <1>2
<1> QED
  BY <1>3 DEF OnOffer

LEMMA KnowsRecordedStep ==
  ASSUME Inv, WP!Inv, WalletKnowsRecorded, [TrustNext]_allVars
  PROVE  WalletKnowsRecorded'
<1>1. CASE UNCHANGED walletVars
  <2>1. \A c : OnOffer(c) => OnOffer(c)'
    BY ToolStep, RecordedStays
  <2>2. UNCHANGED <<checkpoint, call, returned>>
    BY <1>1 DEF walletVars
  <2> QED
    BY <2>1, <2>2 DEF WalletKnowsRecorded, WP!MarkOf
<1>2. CASE WalletStep
  <2>1. /\ [WP!Next]_(WP!vars)
        /\ \A t \in Calls : call'[t].pc = "jws" => OnOffer(call'[t].compact)
    BY <1>2, WalletsStep DEF WalletStep, TrustNext, W!At
  <2>2. \A c : OnOffer(c)' <=> OnOffer(c)
    BY <1>2 DEF WalletStep, vars, OnOffer
  <2>3. /\ call \in [Calls -> {WP!NoCall} \cup WP!Verifying \cup WP!Requesting]
        /\ held \subseteq returned
        /\ \A t \in Calls : call[t].pc = "accept" => call[t].compact \in WP!Genuine
    BY DEF WP!Inv, WP!TypeOK
  <2>4. /\ WP!NoCall.pc = "none"
        /\ \A x \in WP!Verifying : x.pc \in {"jws", "accept", "accepted"}
        /\ \A x \in WP!Requesting : x.pc \in {"invoice", "verified"}
    BY DEF WP!NoCall, WP!Verifying, WP!Requesting
  <2>5. ASSUME NEW t \in Calls, NEW c \in Compacts, WP!BeginRegistry(t, c)
        PROVE  WalletKnowsRecorded'
    <3>1. call' = [call EXCEPT ![t] = [pc |-> "jws", compact |-> c, now |-> walletClock,
                                       floor |-> checkpoint.sequence]]
      BY <2>5 DEF WP!BeginRegistry
    <3>2. \A u \in Calls : call'[u].pc # "none" => OnOffer(call'[u].compact)
      BY <2>1, <2>3, <3>1 DEF WalletKnowsRecorded
    <3> QED
      BY <2>2, <2>5, <3>2 DEF WalletKnowsRecorded, WP!BeginRegistry, WP!MarkOf
  <2>6. ASSUME NEW t \in Calls, WP!CheckRegistry(t) \/ WP!EndInvoice(t) \/ WP!Discard(t)
        PROVE  WalletKnowsRecorded'
    <3>1. \A u \in Calls : call'[u].pc # "none" =>
                             call[u].pc # "none" /\ call'[u].compact = call[u].compact
      BY <2>3, <2>4, <2>6
      DEF WP!CheckRegistry, WP!EndInvoice, WP!Discard, WP!Finish, WP!At, WP!Verifying,
          WP!Requesting
    <3> QED
      BY <2>2, <2>6, <3>1
      DEF WalletKnowsRecorded, WP!CheckRegistry, WP!EndInvoice, WP!Discard, WP!MarkOf
  <2>7. ASSUME NEW t \in Calls, WP!Accept(t) PROVE WalletKnowsRecorded'
    <3>1. \A u \in Calls : call'[u].pc # "none" =>
                             call[u].pc # "none" /\ call'[u].compact = call[u].compact
      BY <2>3, <2>4, <2>7 DEF WP!Accept, WP!Finish, WP!At, WP!Verifying
    <3>2. checkpoint' = checkpoint \/ checkpoint' = WP!MarkOf(call[t].compact)
      BY <2>7 DEF WP!Accept
    <3>3. call[t].compact \in WP!Genuine /\ OnOffer(call[t].compact) /\ returned' = returned
      BY <2>3, <2>7 DEF WP!Accept, WP!At, WalletKnowsRecorded
    <3> QED
      BY <2>2, <3>1, <3>2, <3>3 DEF WalletKnowsRecorded, WP!MarkOf
  <2>8. ASSUME NEW t \in Calls, WP!ReturnRegistry(t) PROVE WalletKnowsRecorded'
    <3>1. \A u \in Calls : call'[u].pc # "none" =>
                             call[u].pc # "none" /\ call'[u].compact = call[u].compact
      BY <2>3, <2>4, <2>8 DEF WP!ReturnRegistry, WP!Finish
    <3>2. OnOffer(call[t].compact) /\ returned' = returned \cup {call[t].compact}
      BY <2>8 DEF WP!ReturnRegistry, WP!At, WalletKnowsRecorded
    <3> QED
      BY <2>2, <2>8, <3>1, <3>2 DEF WalletKnowsRecorded, WP!ReturnRegistry, WP!MarkOf
  <2>9. ASSUME NEW t \in Calls, NEW i \in Invoices, NEW c \in held, NEW context \in WP!Context,
               WP!BeginInvoice(t, i, c, context)
        PROVE  WalletKnowsRecorded'
    <3>1. call' = [call EXCEPT ![t] = [pc |-> "invoice", invoice |-> i, compact |-> c,
                                       context |-> context, now |-> walletClock]]
      BY <2>9 DEF WP!BeginInvoice
    <3>2. \A u \in Calls : call'[u].pc # "none" => OnOffer(call'[u].compact)
      BY <2>3, <3>1 DEF WalletKnowsRecorded
    <3> QED
      BY <2>2, <2>9, <3>2 DEF WalletKnowsRecorded, WP!BeginInvoice, WP!MarkOf
  <2>10. CASE WP!Restart
    BY <2>2, <2>4, <2>10 DEF WalletKnowsRecorded, WP!Restart, WP!MarkOf
  <2>11. CASE WP!Tick \/ UNCHANGED WP!vars
    BY <2>2, <2>11 DEF WalletKnowsRecorded, WP!Tick, WP!vars, WP!MarkOf
  <2> QED
    BY <2>1, <2>5, <2>6, <2>7, <2>8, <2>9, <2>10, <2>11 DEF WP!Next
<1> QED
  BY <1>1, <1>2 DEF TrustNext, ReleaseStep, allVars

\* All that the end-to-end properties need.
TrustInv ==
  /\ Inv /\ EvidenceLasts /\ KidNeverRebinds /\ HistoryAccumulates
  /\ WP!Inv /\ WalletKnowsRecorded

\* The tool's and the wallet's invariants hold in the composition, with what ties them.
THEOREM TrustInvariant == TrustSpec => []TrustInv
<1>1. TrustInit => WalletKnowsRecorded
  BY DEF TrustInit, W!Init, W!NoCall, W!CP!NoMark, WP!CP!NoMark, WalletKnowsRecorded
<1>2. Inv /\ WP!Inv /\ WalletKnowsRecorded /\ [TrustNext]_allVars => WalletKnowsRecorded'
  BY KnowsRecordedStep
<1>3. TrustSpec => [](Inv /\ EvidenceLasts /\ KidNeverRebinds /\ HistoryAccumulates)
  BY PartsBehave, ReleaseInvariant, EvidenceIsKept, ReleaseBindsKeyIdsForever,
     ReleaseHistoryAccumulates, PTL
<1> QED
  BY <1>1, <1>2, <1>3, WalletsInvariant, PTL DEF TrustSpec, TrustInv

-----------------------------------------------------------------------------
(* The theorems from one end to the other.                                  *)

\* A result in hand was verified with a recorded snapshot.
LEMMA VerifiedWithRecorded ==
  ASSUME TrustInv, NEW t \in Calls, Verified(t)
  PROVE  /\ call[t].invoice \in WP!Invoice /\ call[t].compact.payload \in Payload
         /\ WP!ValidRegistry(call[t].compact.payload)
         /\ WP!VerifiesInvoice(call[t].invoice, call[t].compact.payload, call[t].context,
                               call[t].now)
         /\ \E j \in DOMAIN log : /\ log[j] = call[t].compact.payload
                                  /\ call[t].compact.payload.sequence = j
<1>1. WP!At(t, "verified") /\ call[t].pc # "none"
  BY DEF Verified, W!At, WP!At
<1>2. /\ call[t].invoice \in WP!Invoice /\ call[t].compact \in WP!Genuine
      /\ call[t].compact.payload \in WP!Payload /\ WP!ValidRegistry(call[t].compact.payload)
      /\ WP!VerifiesInvoice(call[t].invoice, call[t].compact.payload, call[t].context,
                            call[t].now)
  <2>1. WP!WalletAssumption
    BY TrustPathAssumption, SameWallet
  <2> QED
    BY <1>1, <2>1, WP!InHand, NumbersAssumption, NoCommitAssumption DEF TrustInv
<1>3. call[t].compact.payload \in Payload
  BY <1>2 DEF WP!Payload, Payload, WP!Record, Record, WP!Revocation, Revocation, WP!Key, Key
<1>4. PICK j \in DOMAIN log : log[j] = call[t].compact.payload
  BY <1>1, <1>2 DEF TrustInv, WalletKnowsRecorded, OnOffer, WP!Genuine
<1>5. call[t].compact.payload.sequence = j
  BY <1>4 DEF TrustInv, Inv, LogIsHistory
<1> QED
  BY <1>2, <1>3, <1>4, <1>5

LEMMA IssueTimes ==
  ASSUME TypeOK, NEW i \in DOMAIN log
  PROVE  i \in Nat /\ log[i].issuedAt \in Nat
<1>1. i \in Nat /\ log[i] \in Payload
  BY DEF TypeOK
<1> QED
  BY <1>1 DEF Payload

\* The key that signed a verified invoice is in the one record of its merchant.
LEMMA SignerIsRecorded ==
  ASSUME NEW p \in Payload, WP!ValidRegistry(p), NEW i, NEW x, NEW now,
         WP!VerifiesInvoice(i, p, x, now)
  PROVE  \E m \in p.merchants :
           /\ m.id = i.merchantId /\ i.origin \in m.origins /\ m.status = "active"
           /\ [kid |-> i.kid, data |-> i.signer] \in m.keys
<1>1. PICK m \in p.merchants : /\ m.id = i.merchantId
                               /\ m.status = "active" /\ i.origin \in m.origins
  BY DEF WP!VerifiesInvoice, WP!RecordsOf
<1>2. PICK k \in WP!KeysFor(p, i) : WP!KeyValid(k, i, now)
  BY DEF WP!VerifiesInvoice
<1>3. PICK n \in p.merchants : n.id = i.merchantId /\ k \in n.keys
  BY DEF WP!KeysFor, WP!KeysOf
<1>4. m = n
  BY <1>1, <1>3 DEF WP!ValidRegistry
<1>5. k \in Key /\ k.kid = i.kid /\ k.data = i.signer
  BY <1>2, <1>3 DEF WP!KeysFor, WP!KeyValid, Payload, Record
<1>6. k = [kid |-> i.kid, data |-> i.signer]
  BY <1>5 DEF Key
<1> QED
  BY <1>1, <1>3, <1>4, <1>6

\* Whoever is paid was approved, by maintainers, while the proofs were fresh.
THEOREM NoPaymentWithoutApproval == TrustSpec => []PaidWasApproved
<1>1. TrustInv => PaidWasApproved
  <2> SUFFICES ASSUME TrustInv, NEW t \in Calls, Verified(t)
               PROVE  \E a \in approvals, n \in DOMAIN log :
                        /\ a.record.id = call[t].invoice.merchantId
                        /\ call[t].invoice.origin \in a.record.origins
                        /\ [kid |-> call[t].invoice.kid, data |-> call[t].invoice.signer]
                              \in a.record.keys
                        /\ Approved(a)
                        /\ n <= call[t].compact.payload.sequence
                        /\ a.record \in log[n].merchants
                        /\ a.verifiedAt <= log[n].issuedAt /\ log[n].issuedAt < a.proofsUntil
                        /\ a.exceptional => log[n].issuedAt < ExceptionEnd
    BY DEF PaidWasApproved
  <2> DEFINE i == call[t].invoice
             p == call[t].compact.payload
  <2>1. PICK j \in DOMAIN log : log[j] = p /\ p.sequence = j
    BY VerifiedWithRecorded
  <2>2. PICK m \in p.merchants : /\ m.id = i.merchantId /\ i.origin \in m.origins
                                 /\ m.status = "active"
                                 /\ [kid |-> i.kid, data |-> i.signer] \in m.keys
    BY VerifiedWithRecorded, SignerIsRecorded
  <2> HIDE DEF i, p
  <2>3. PICK n \in DOMAIN log : n <= j /\ m \in log[n].merchants /\ Evidence(m, log[n].issuedAt)
    BY <2>1, <2>2 DEF TrustInv, EvidenceLasts
  <2>4. PICK a \in approvals : /\ a.record = m /\ a.verifiedAt <= log[n].issuedAt
                               /\ log[n].issuedAt < a.proofsUntil
                               /\ a.exceptional => log[n].issuedAt < ExceptionEnd
    BY <2>2, <2>3 DEF Evidence
  <2>5. Approved(a)
    BY DEF TrustInv, EvidenceLasts
  <2> QED
    BY <2>1, <2>2, <2>3, <2>4, <2>5 DEF i, p
<1> QED
  BY TrustInvariant, <1>1, PTL

\* A recorded revocation binds every wallet a day later, shown to it or not.
THEOREM RevocationBindsEveryWallet == TrustSpec => []RevocationReachesWallets
<1>1. TrustInv => RevocationReachesWallets
  <2> SUFFICES ASSUME TrustInv, NEW t \in Calls, NEW i \in DOMAIN log, Verified(t),
                      walletClock < W!ValidUntil(call[t].invoice, call[t].compact.payload),
                      ~(walletClock < log[i].issuedAt + Day)
               PROVE  ~Revoked(log[i], call[t].invoice.merchantId, call[t].invoice.kid)
    BY DEF RevocationReachesWallets
  <2>1. TypeOK
    BY DEF TrustInv, Inv
  <2>2. PICK j \in DOMAIN log : log[j] = call[t].compact.payload
    BY VerifiedWithRecorded
  <2>3. log[i].issuedAt \in Nat /\ log[j].issuedAt \in Nat /\ i \in Nat /\ j \in Nat
    BY <2>1, IssueTimes
  <2>4. log[i].issuedAt < log[j].issuedAt => log[i].revocations \subseteq log[j].revocations
    <3>1. CASE i < j
      BY <3>1 DEF TrustInv, HistoryAccumulates, SL!HistoryAccumulates
    <3>2. CASE j <= i
      <4>1. log[j].issuedAt <= log[i].issuedAt
        BY <2>3, <3>2 DEF TrustInv, HistoryAccumulates, SL!HistoryAccumulates
      <4> QED
        BY <2>3, <4>1
    <3> QED
      BY <2>3, <3>1, <3>2
  <2>5. walletClock < WP!ValidUntil(call[t].invoice, call[t].compact.payload)
    BY Zenon DEF W!ValidUntil, WP!ValidUntil, W!KeysFor, WP!KeysFor, W!KeysOf, WP!KeysOf
  <2>6. WP!At(t, "verified")
    BY DEF Verified, W!At, WP!At
  <2>7. WP!WalletAssumption
    BY TrustPathAssumption, SameWallet
  <2>8. ~WP!Revoked(log[i], call[t].invoice.merchantId, call[t].invoice.kid)
    BY <2>2, <2>3, <2>4, <2>5, <2>6, <2>7, WP!LaterSnapshotDecides, NumbersAssumption,
       NoCommitAssumption
    DEF TrustInv
  <2> QED
    BY <2>8 DEF WP!Revoked, Revoked
<1> QED
  BY TrustInvariant, <1>1, PTL

\* No snapshot anywhere shows a wallet another key under a key ID it has relied on.
THEOREM KeyIdsMeanOneKey == TrustSpec => []KeyIdMeansOneKey
<1>1. TrustInv => KeyIdMeansOneKey
  <2> SUFFICES ASSUME TrustInv, NEW t \in Calls, Verified(t), NEW i \in DOMAIN log,
                      NEW k \in KeysOf(log[i], call[t].invoice.merchantId),
                      k.kid = call[t].invoice.kid
               PROVE  k.data = call[t].invoice.signer
    BY DEF KeyIdMeansOneKey
  <2> DEFINE v == call[t].invoice
             p == call[t].compact.payload
             y == [kid |-> v.kid, data |-> v.signer]
  <2>1. PICK j \in DOMAIN log : log[j] = p
    BY VerifiedWithRecorded
  <2>2. PICK m \in p.merchants : m.id = v.merchantId /\ y \in m.keys
    BY VerifiedWithRecorded, SignerIsRecorded
  <2>3. v.merchantId \in Merchants /\ v.kid \in Kids
    BY VerifiedWithRecorded DEF WP!Invoice
  <2>4. k \in SL!Showing(i, v.merchantId, v.kid)
    BY DEF SL!Showing, SL!KeysOf, KeysOf
  <2>5. y \in SL!Showing(j, v.merchantId, v.kid)
    BY <2>1, <2>2 DEF SL!Showing, SL!KeysOf
  <2>6. k = y
    BY <2>3, <2>4, <2>5 DEF TrustInv, KidNeverRebinds, SL!KidNeverRebinds
  <2> QED
    BY <2>6
<1> QED
  BY TrustInvariant, <1>1, PTL

\* The newest recorded snapshot passes every wallet's checkpoint.
THEOREM NewestIsAcceptable == TrustSpec => []NewestIsNeverRefused
<1>1. TrustInv => NewestIsNeverRefused
  <2> SUFFICES ASSUME TrustInv, NEW c \in W!Genuine, c.payload = state, state # Genesis
               PROVE  W!CP!AssertCheckpoint(checkpoint, W!MarkOf(c))
    BY DEF NewestIsNeverRefused
  <2>1. state.sequence = Len(log) /\ Len(log) \in Nat /\ log \in Seq(Payload)
          /\ log[Len(log)] = state /\ Len(log) > 0 /\ LogIsHistory
    BY Recorded DEF TrustInv, Inv, TypeOK
  <2>2. W!MarkOf(c).sequence = Len(log) /\ W!MarkOf(c).digest = c.digest
    BY <2>1 DEF W!MarkOf
  <2>3. CASE checkpoint = W!CP!NoMark
    BY <2>1, <2>2, <2>3 DEF W!CP!AssertCheckpoint
  <2>4. CASE checkpoint # W!CP!NoMark
    <3>1. PICK d \in WP!Genuine : OnOffer(d) /\ checkpoint = WP!MarkOf(d)
      BY <2>4 DEF TrustInv, WalletKnowsRecorded, W!CP!NoMark, WP!CP!NoMark
    <3>2. PICK j \in DOMAIN log : log[j] = d.payload
      BY <3>1 DEF OnOffer, WP!Genuine
    <3>3. checkpoint.sequence = j /\ checkpoint.digest = d.digest /\ j \in 1..Len(log)
      BY <2>1, <3>1, <3>2 DEF LogIsHistory, WP!MarkOf
    <3>4. ASSUME j = Len(log) PROVE d.digest = c.digest
      <4>1. d.payload = c.payload /\ d \in W!Genuine
        BY <2>1, <3>1, <3>2, <3>4 DEF WP!Genuine, W!Genuine
      <4> QED
        BY <4>1, TrustPathAssumption
    <3> QED
      BY <2>1, <2>2, <3>3, <3>4 DEF W!CP!AssertCheckpoint
  <2> QED
    BY <2>3, <2>4
<1> QED
  BY TrustInvariant, <1>1, PTL
=============================================================================

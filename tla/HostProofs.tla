----------------------------- MODULE HostProofs -----------------------------
(***************************************************************************)
(* Proofs about PublicationHost, for any set of callers and signed         *)
(* snapshots and an unbounded clock.  The inductive invariant adds to the  *)
(* properties that an archive number stands for one snapshot, that nobody  *)
(* was answered with more than is stored, and that a cron that ran since   *)
(* the latest snapshot was stored has judged that snapshot.                *)
(***************************************************************************)
EXTENDS PublicationHost, TLAPS

LatestSequence == IF latest = None THEN 0 ELSE latest.sequence

NumbersAreUnique == \A s, t \in archive : s.sequence = t.sequence => s = t

NobodyAhead ==
  /\ witnessed <= LatestSequence
  /\ \A c \in Clients :
       /\ req[c].floor <= witnessed
       /\ req[c].pc \in {"acked", "served"} =>
            req[c].floor <= req[c].body.sequence /\ req[c].body.sequence <= LatestSequence

CronHasJudged ==
  /\ since <= clock /\ cronAt <= clock /\ clock <= cronAt + CronPeriod
  /\ (latest # None /\ since < cronAt /\ latest.expiresAt - cronAt < AlertLead)
       => latest.sequence \in alerted

Inv == TypeOK /\ LatestIsNewestArchived /\ NumbersAreUnique /\ NobodyAhead /\ CronHasJudged

USE HostAssumption DEF At

-----------------------------------------------------------------------------
\* What the transaction's checks say about a snapshot that passes them.
LEMMA StorableRises ==
  ASSUME TypeOK, NEW s \in Signed, Storable(s)
  PROVE  /\ LatestSequence <= s.sequence
         /\ latest # None /\ latest.sequence = s.sequence => s = latest
<1>1. s.sequence \in Nat \ {0} /\ (latest # None => latest \in Signed)
  BY DEF TypeOK, Snapshot
<1>2. CASE latest = None
  BY <1>1, <1>2 DEF LatestSequence
<1>3. CASE latest # None
  <2>1. latest.sequence \in Nat \ {0}
    BY <1>1, <1>3 DEF Snapshot
  <2>2. MarkOf(latest).sequence = latest.sequence /\ MarkOf(latest) # CP!NoMark
    BY <1>3, <2>1 DEF MarkOf, CP!NoMark
  <2>3. MarkOf(s).sequence = s.sequence
    <3>1. s # None
      OBVIOUS
    <3> QED
      BY <3>1 DEF MarkOf
  <2>4. s.sequence >= latest.sequence
    BY <2>2, <2>3 DEF Storable, CP!AssertCheckpoint
  <2>5. latest.sequence = s.sequence => latest.compact = s.compact
    BY <1>3 DEF Storable
  <2> QED
    BY <1>1, <1>3, <2>1, <2>4, <2>5 DEF LatestSequence
<1> QED
  BY <1>2, <1>3

LEMMA InitInv == Init => Inv
<1> SUFFICES ASSUME Init PROVE Inv
  OBVIOUS
<1>1. TypeOK
  BY DEF Init, TypeOK, NoRequest, Request
<1>2. LatestIsNewestArchived /\ NumbersAreUnique
  BY DEF Init, LatestIsNewestArchived, NumbersAreUnique
<1>3. NobodyAhead
  BY DEF Init, NobodyAhead, NoRequest, LatestSequence
<1>4. CronHasJudged
  BY DEF Init, CronHasJudged
<1> QED
  BY <1>1, <1>2, <1>3, <1>4 DEF Inv

LEMMA TypeStep ==
  ASSUME Inv, [Next]_vars
  PROVE  TypeOK'
<1> USE DEF TypeOK, storage, cron
<1>t. TypeOK
  BY DEF Inv
<1>n. NoRequest \in Request /\ NoRequest.pc = "none"
  BY DEF NoRequest, Request
<1>1. ASSUME NEW c \in Clients, NEW s \in Signed, Publish(c, s) PROVE TypeOK'
  BY <1>t, <1>1 DEF Publish, Request
<1>2. ASSUME NEW c \in Clients, VerifySnapshot(c) PROVE TypeOK'
  BY <1>t, <1>n, <1>2 DEF VerifySnapshot, Request
<1>3. ASSUME NEW c \in Clients, Commit(c) PROVE TypeOK'
  BY <1>t, <1>3 DEF Commit, Request
<1>4. ASSUME NEW c \in Clients, Conflict(c) PROVE TypeOK'
  BY <1>t, <1>n, <1>4 DEF Conflict
<1>5. ASSUME NEW c \in Clients, GetLatest(c) PROVE TypeOK'
  BY <1>t, <1>5 DEF GetLatest, Request
<1>6. ASSUME NEW c \in Clients, ReadLatest(c) PROVE TypeOK'
  BY <1>t, <1>n, <1>6 DEF ReadLatest, Request
<1>7. ASSUME NEW c \in Clients, Answer(c) PROVE TypeOK'
  <2>1. req[c].body.sequence \in Nat
    BY <1>t, <1>7 DEF Answer, Snapshot
  <2> QED
    BY <1>t, <1>n, <1>7, <2>1 DEF Answer
<1>8. CASE Evict
  BY <1>t, <1>n, <1>8 DEF Evict
<1>9. CASE Cron
  <2>1. latest # None => latest.sequence \in Nat
    BY <1>t DEF Snapshot
  <2> QED
    BY <1>t, <1>9, <2>1 DEF Cron
<1>10. CASE Tick
  BY <1>t, <1>10 DEF Tick
<1>11. CASE UNCHANGED vars
  BY <1>t, <1>11 DEF vars
<1> QED
  BY <1>1, <1>2, <1>3, <1>4, <1>5, <1>6, <1>7, <1>8, <1>9, <1>10, <1>11 DEF Next

-----------------------------------------------------------------------------
\* The one step that writes the storage, as the other lemmas see it: the stored sequence
\* does not fall, and no archived snapshot is displaced by a different one.
LEMMA CommitStores ==
  ASSUME Inv, NEW c \in Clients, Commit(c)
  PROVE  /\ req[c].body \in Signed /\ latest' = req[c].body
         /\ LatestSequence <= LatestSequence'
         /\ LatestSequence' = req[c].body.sequence
         /\ latest # None /\ latest.sequence = req[c].body.sequence => req[c].body = latest
         /\ archive' = archive \cup {req[c].body}
<1> DEFINE s == req[c].body
<1>1. s \in Signed /\ s # None /\ s.sequence \in Nat
  BY DEF Inv, TypeOK, Commit, Snapshot
<1>2. Storable(s) /\ latest' = s
  BY DEF Commit
<1>3. /\ LatestSequence <= s.sequence
      /\ latest # None /\ latest.sequence = s.sequence => s = latest
  BY <1>1, <1>2, StorableRises DEF Inv
<1>4. LatestSequence' = s.sequence
  BY <1>1, <1>2 DEF LatestSequence
<1>5. ASSUME NEW a \in archive, a.sequence = s.sequence PROVE a = s
  <2>1. latest # None /\ latest \in archive /\ a.sequence <= latest.sequence
    BY DEF Inv, LatestIsNewestArchived
  <2>2. latest.sequence \in Nat
    BY <2>1 DEF Inv, TypeOK, Snapshot
  <2>3. latest.sequence = s.sequence
    BY <1>1, <1>3, <1>5, <2>1, <2>2 DEF LatestSequence
  <2> QED
    BY <1>3, <1>5, <2>1, <2>3 DEF Inv, NumbersAreUnique
<1>6. archive' = {a \in archive : a.sequence # s.sequence} \cup {s}
  BY DEF Commit
<1>7. archive' = archive \cup {s}
  BY <1>5, <1>6
<1> QED
  BY <1>1, <1>2, <1>3, <1>4, <1>7

\* No other step touches the storage.
LEMMA OthersKeepStorage ==
  ASSUME [Next]_vars, ~\E c \in Clients : Commit(c)
  PROVE  UNCHANGED storage
BY DEF Next, Publish, VerifySnapshot, Conflict, GetLatest, ReadLatest, Answer, Evict, Cron, Tick,
       storage, vars

LEMMA ArchiveStep ==
  ASSUME Inv, [Next]_vars
  PROVE  LatestIsNewestArchived' /\ NumbersAreUnique' /\ archive \subseteq archive'
<1>1. ASSUME NEW c \in Clients, Commit(c)
      PROVE  LatestIsNewestArchived' /\ NumbersAreUnique' /\ archive \subseteq archive'
  <2> DEFINE s == req[c].body
  <2>1. s \in Signed /\ latest' = s /\ archive' = archive \cup {s} /\ LatestSequence <= s.sequence
    BY <1>1, CommitStores
  <2>2. s # None /\ s.sequence \in Nat
    BY <2>1 DEF Snapshot
  <2>3. ASSUME NEW a \in archive PROVE a.sequence <= s.sequence /\ (a.sequence = s.sequence => a = s)
    <3>1. latest # None /\ latest \in archive /\ a.sequence <= latest.sequence
      BY DEF Inv, LatestIsNewestArchived
    <3>2. latest.sequence \in Nat /\ a.sequence \in Nat /\ latest.sequence <= s.sequence
      BY <2>1, <3>1 DEF Inv, TypeOK, Snapshot, LatestSequence
    <3>3. a.sequence <= s.sequence
      BY <2>2, <3>1, <3>2
    <3>4. a.sequence = s.sequence => a.sequence = latest.sequence /\ latest.sequence = s.sequence
      BY <2>2, <3>1, <3>2
    <3>5. a.sequence = latest.sequence => a = latest
      BY <3>1 DEF Inv, NumbersAreUnique
    <3>6. latest.sequence = s.sequence => s = latest
      BY <1>1, <3>1, CommitStores
    <3> QED
      BY <3>3, <3>4, <3>5, <3>6
  <2>4. LatestIsNewestArchived'
    BY <2>1, <2>2, <2>3 DEF LatestIsNewestArchived
  <2>5. NumbersAreUnique'
    BY <2>1, <2>3 DEF Inv, NumbersAreUnique
  <2> QED
    BY <2>1, <2>4, <2>5
<1>2. CASE ~\E c \in Clients : Commit(c)
  <2>1. UNCHANGED <<latest, archive, since>>
    BY <1>2, OthersKeepStorage DEF storage
  <2> QED
    BY <2>1 DEF Inv, LatestIsNewestArchived, NumbersAreUnique
<1> QED
  BY <1>1, <1>2

-----------------------------------------------------------------------------
\* What a request carries never exceeds what is stored: the storage only rises, a request
\* starts from what was witnessed, and is answered from what is stored.
LEMMA NobodyAheadStep ==
  ASSUME Inv, [Next]_vars
  PROVE  NobodyAhead'
<1> USE DEF storage, cron
<1>t. TypeOK /\ NobodyAhead
  BY DEF Inv
<1>s. LatestSequence \in Nat /\ (latest # None => latest.sequence = LatestSequence)
  BY <1>t DEF TypeOK, LatestSequence, Snapshot
<1>q. \A c \in Clients : req[c].body \in Signed => req[c].body.sequence \in Nat
  BY DEF Snapshot
<1>n. NoRequest.pc = "none" /\ NoRequest.floor = 0
  BY DEF NoRequest
<1>1. ASSUME NEW c \in Clients, NEW s \in Signed, Publish(c, s) PROVE NobodyAhead'
  BY <1>t, <1>1 DEF Publish, NobodyAhead, LatestSequence, TypeOK, Request
<1>2. ASSUME NEW c \in Clients, VerifySnapshot(c) PROVE NobodyAhead'
  BY <1>t, <1>n, <1>2 DEF VerifySnapshot, NobodyAhead, LatestSequence, TypeOK, Request
<1>3. ASSUME NEW c \in Clients, Commit(c) PROVE NobodyAhead'
  <2>1. /\ LatestSequence <= LatestSequence' /\ LatestSequence' = req[c].body.sequence
        /\ req[c].body \in Signed
    BY <1>3, CommitStores
  <2>2. LatestSequence' \in Nat
    BY <2>1 DEF Snapshot
  <2>3. witnessed' = witnessed /\ req' = [req EXCEPT ![c].pc = "acked"]
    BY <1>3 DEF Commit
  <2>4. witnessed <= LatestSequence'
    BY <1>t, <1>s, <2>1, <2>2 DEF NobodyAhead, TypeOK
  <2>5. ASSUME NEW d \in Clients
        PROVE  /\ req'[d].floor <= witnessed'
               /\ req'[d].pc \in {"acked", "served"} =>
                    req'[d].floor <= req'[d].body.sequence /\ req'[d].body.sequence <= LatestSequence'
    <3>1. req'[d].floor = req[d].floor /\ req'[d].body = req[d].body
      BY <1>t, <2>3 DEF TypeOK, Request
    <3>2. req[d].floor \in Nat /\ req[d].floor <= witnessed /\ witnessed \in Nat
      BY <1>t DEF NobodyAhead, TypeOK, Request
    <3>3. CASE d = c
      BY <2>1, <2>2, <2>3, <2>4, <3>1, <3>2, <3>3
    <3>4. CASE d # c
      <4>1. req'[d] = req[d]
        BY <1>t, <2>3, <3>4 DEF TypeOK
      <4>2. req[d].pc \in {"acked", "served"} => req[d].body.sequence \in Nat
        BY <1>t, <1>q DEF TypeOK
      <4> QED
        BY <1>t, <1>s, <2>1, <2>2, <2>3, <3>2, <4>1, <4>2 DEF NobodyAhead
    <3> QED
      BY <3>3, <3>4
  <2> QED
    BY <2>3, <2>4, <2>5 DEF NobodyAhead
<1>4. ASSUME NEW c \in Clients, Conflict(c) PROVE NobodyAhead'
  BY <1>t, <1>n, <1>4 DEF Conflict, NobodyAhead, LatestSequence, TypeOK, Request
<1>5. ASSUME NEW c \in Clients, GetLatest(c) PROVE NobodyAhead'
  BY <1>t, <1>5 DEF GetLatest, NobodyAhead, LatestSequence, TypeOK, Request
<1>6. ASSUME NEW c \in Clients, ReadLatest(c) PROVE NobodyAhead'
  <2>1. UNCHANGED <<latest, witnessed>> /\ LatestSequence' = LatestSequence
    BY <1>6 DEF ReadLatest, LatestSequence
  <2>2. CASE latest # None /\ latest.expiresAt > req[c].now
    <3>1. req' = [req EXCEPT ![c].pc = "served", ![c].body = latest]
      BY <1>6, <2>2 DEF ReadLatest
    <3> DEFINE r == [req[c] EXCEPT !.pc = "served", !.body = latest]
    <3>2. req' = [req EXCEPT ![c] = r] /\ r.floor = req[c].floor /\ r.body = latest
      BY <1>t, <3>1 DEF TypeOK, Request
    <3> HIDE DEF r
    <3> QED
      BY <1>t, <1>s, <2>1, <2>2, <3>2 DEF NobodyAhead, TypeOK, Request
  <2>3. CASE ~(latest # None /\ latest.expiresAt > req[c].now)
    BY <1>t, <1>n, <1>6, <2>1, <2>3 DEF ReadLatest, NobodyAhead, TypeOK, Request
  <2> QED
    BY <2>2, <2>3
<1>7. ASSUME NEW c \in Clients, Answer(c) PROVE NobodyAhead'
  <2>1. req[c].body.sequence \in Nat /\ req[c].body.sequence <= LatestSequence
    BY <1>t, <1>q, <1>7 DEF Answer, TypeOK, NobodyAhead
  <2>2. witnessed' \in Nat /\ witnessed <= witnessed' /\ witnessed' <= LatestSequence
    BY <1>t, <1>7, <2>1 DEF Answer, TypeOK, NobodyAhead
  <2>3. LatestSequence' = LatestSequence /\ req' = [req EXCEPT ![c] = NoRequest]
    BY <1>7 DEF Answer, LatestSequence
  <2> QED
    BY <1>t, <1>n, <2>2, <2>3 DEF NobodyAhead, TypeOK, Request
<1>8. CASE Evict
  BY <1>t, <1>n, <1>8 DEF Evict, NobodyAhead, LatestSequence, TypeOK
<1>9. CASE Cron
  BY <1>t, <1>9 DEF Cron, NobodyAhead, LatestSequence
<1>10. CASE Tick
  BY <1>t, <1>10 DEF Tick, NobodyAhead, LatestSequence
<1>11. CASE UNCHANGED vars
  BY <1>t, <1>11 DEF vars, NobodyAhead, LatestSequence
<1> QED
  BY <1>1, <1>2, <1>3, <1>4, <1>5, <1>6, <1>7, <1>8, <1>9, <1>10, <1>11 DEF Next

\* The cron's judgement stays good: storing again resets `since` unless the snapshot stays.
LEMMA CronHasJudgedStep ==
  ASSUME Inv, [Next]_vars
  PROVE  CronHasJudged'
<1> USE DEF storage, cron
<1>t. TypeOK /\ CronHasJudged
  BY DEF Inv
<1>1. ASSUME NEW c \in Clients, Commit(c) PROVE CronHasJudged'
  <2>1. /\ latest' = req[c].body /\ UNCHANGED <<clock, cronAt, alerted>>
        /\ since' = IF req[c].body = latest THEN since ELSE clock
    BY <1>1 DEF Commit
  <2>2. CASE req[c].body = latest
    BY <1>t, <2>1, <2>2 DEF CronHasJudged
  <2>3. CASE req[c].body # latest
    BY <1>t, <2>1, <2>3 DEF CronHasJudged, TypeOK
  <2> QED
    BY <2>2, <2>3
<1>2. CASE Cron
  <2>1. /\ cronAt' = clock /\ UNCHANGED <<clock, latest, since>> /\ alerted \subseteq alerted'
        /\ latest # None /\ latest.expiresAt - clock < AlertLead => latest.sequence \in alerted'
    BY <1>2 DEF Cron
  <2> QED
    BY <1>t, <2>1 DEF CronHasJudged, TypeOK
<1>3. CASE Tick
  BY <1>t, <1>3 DEF Tick, CronHasJudged, TypeOK
<1>4. CASE UNCHANGED <<clock, latest, since, cronAt, alerted>>
  BY <1>t, <1>4 DEF CronHasJudged
<1> QED
  BY <1>1, <1>2, <1>3, <1>4
  DEF Next, Publish, VerifySnapshot, Conflict, GetLatest, ReadLatest, Answer, Evict, vars

LEMMA InvStep == Inv /\ [Next]_vars => Inv'
BY TypeStep, ArchiveStep, NobodyAheadStep, CronHasJudgedStep DEF Inv

THEOREM HostInvariant == Spec => []Inv
BY InitInv, InvStep, PTL DEF Spec

-----------------------------------------------------------------------------
\* The types of PublicationHost hold in every reachable state.
THEOREM HostTypes == Spec => []TypeOK
<1>1. Inv => TypeOK
  BY DEF Inv
<1> QED
  BY <1>1, HostInvariant, PTL

\* The latest snapshot is the newest of the archive, for any overlap of publishers.
THEOREM LatestIsArchived == Spec => []LatestIsNewestArchived
<1>1. Inv => LatestIsNewestArchived
  BY DEF Inv
<1> QED
  BY <1>1, HostInvariant, PTL

\* No caller is answered with less than was witnessed before its request.
THEOREM ReadsNeverGoBack == Spec => []NoStaleAnswer
<1>1. ASSUME Inv PROVE NoStaleAnswer
  <2>1. ASSUME NEW c \in Clients, req[c].pc \in {"acked", "served"}
        PROVE  req[c].body.sequence >= req[c].floor
    <3>1. req[c].body.sequence \in Nat /\ req[c].floor \in Nat
      BY <1>1, <2>1 DEF Inv, TypeOK, Request, Snapshot
    <3> QED
      BY <1>1, <2>1, <3>1 DEF Inv, NobodyAhead
  <2> QED
    BY <2>1 DEF NoStaleAnswer
<1> QED
  BY <1>1, HostInvariant, PTL

\* No archived snapshot is ever lost or replaced by other bytes.
THEOREM ArchiveStays == Spec => ArchiveIsImmutable
<1>1. ASSUME Inv, [Next]_vars PROVE [archive \subseteq archive']_storage
  BY <1>1, ArchiveStep
<1> QED
  BY <1>1, HostInvariant, PTL DEF Spec, ArchiveIsImmutable

\* The cron warns before the snapshot expires: its period is shorter than its lead.
THEOREM NoSilentExpiry == Spec => []AlertBeforeExpiry
<1>1. ASSUME Inv PROVE AlertBeforeExpiry
  <2> SUFFICES ASSUME latest # None, latest.expiresAt <= clock,
                      latest.expiresAt - since > CronPeriod
               PROVE  latest.sequence \in alerted
    BY DEF AlertBeforeExpiry
  <2>1. latest.expiresAt \in Nat
    BY <1>1 DEF Inv, TypeOK, Snapshot
  <2> QED
    BY <1>1, <2>1 DEF Inv, TypeOK, CronHasJudged
<1> QED
  BY <1>1, HostInvariant, PTL

-----------------------------------------------------------------------------
\* The host implements the checkpoint: every step of it is one that advances the stored
\* mark or leaves it alone.
THEOREM HostIsACheckpoint == Spec => ImplementsCheckpoint
<1> DEFINE m == IF latest = None THEN [sequence |-> 0, digest |-> NoDigest]
                ELSE [sequence |-> latest.sequence, digest |-> latest.digest]
<1>1. Init => CP!Init
  BY DEF Init, CP!Init, CP!NoMark
<1>2. ASSUME Inv, [Next]_vars PROVE [CP!Advance]_m
  <2>1. ASSUME NEW c \in Clients, Commit(c) PROVE [CP!Advance]_m
    <3> DEFINE s == req[c].body
    <3>1. /\ s \in Signed /\ latest' = s /\ LatestSequence <= s.sequence
          /\ latest # None /\ latest.sequence = s.sequence => s = latest
      BY <1>2, <2>1, CommitStores DEF LatestSequence
    <3>2. s # None /\ s.sequence \in Nat \ {0} /\ s.digest \in Digests
      BY <3>1 DEF Snapshot
    <3>3. m' = [sequence |-> s.sequence, digest |-> s.digest]
      BY <3>1, <3>2
    <3>4. m'.sequence = s.sequence /\ m' \in CP!Mark
      BY <3>2, <3>3 DEF CP!Mark
    <3>5. CASE s = latest
      BY <3>1, <3>5
    <3>6. CASE s # latest
      <4>1. m.sequence = LatestSequence /\ LatestSequence \in Nat
        BY <1>2 DEF LatestSequence, Inv, TypeOK, Snapshot
      <4>2. LatestSequence # s.sequence
        BY <3>1, <3>2, <3>6 DEF LatestSequence
      <4>3. m'.sequence > m.sequence
        BY <3>1, <3>2, <3>4, <4>1, <4>2
      <4> QED
        BY <3>4, <4>3 DEF CP!Advance
    <3> QED
      BY <3>5, <3>6
  <2>2. CASE ~\E c \in Clients : Commit(c)
    <3>1. latest' = latest
      BY <1>2, <2>2, OthersKeepStorage DEF storage
    <3> QED
      BY <3>1
  <2> QED
    BY <2>1, <2>2
<1> QED
  BY <1>1, <1>2, HostInvariant, PTL DEF Spec, ImplementsCheckpoint, CP!Spec
=============================================================================

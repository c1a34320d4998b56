-------------------------- MODULE PublicationHost --------------------------
(***************************************************************************)
(* src/hosting/worker.mjs: one Durable Object holds the latest snapshot    *)
(* and a numbered archive.  Requests overlap: each handler takes the time  *)
(* when it starts and then awaits the body, the signature check and the    *)
(* storage, where other handlers run.  The object can be evicted at any    *)
(* await; its storage survives.  An hourly cron looks at its health.       *)
(***************************************************************************)
EXTENDS Integers, FiniteSets

CONSTANTS
  Clients,          \* callers, each with one request at a time
  Signed,           \* the snapshots anybody ever signed with the release key
  Digests, NoDigest,
  None,             \* no snapshot
  MinimumSequence,  \* trust.minimumSequence
  Skew,             \* 60 seconds
  AlertLead,        \* 21600 seconds
  CronPeriod,       \* 3600 seconds
  MaxTime           \* bound on the clock

\* A signed snapshot, as far as the host looks at it: two compacts may carry the same
\* payload digest under different headers, and two payloads the same sequence.
Snapshot == [sequence : Nat \ {0}, digest : Digests, compact : Nat,
             issuedAt : Nat, expiresAt : Nat]

ASSUME HostAssumption ==
  /\ Signed \subseteq Snapshot /\ None \notin Snapshot
  /\ \A s, t \in Signed : s.compact = t.compact => s = t   \* the compact is the snapshot
  /\ NoDigest \notin Digests
  /\ MinimumSequence \in Nat \ {0} /\ Skew \in Nat
  /\ CronPeriod \in Nat \ {0} /\ AlertLead \in Nat /\ CronPeriod < AlertLead

VARIABLES
  clock,      \* seconds
  latest,     \* storage key 'latest'
  archive,    \* storage keys 'archive:<sequence>'
  req,        \* req[c]: the request of c being handled
  witnessed,  \* history: the highest sequence any caller was answered with
  cronAt,     \* when the cron last ran
  since,      \* history: when `latest` was stored
  alerted     \* history: sequences the cron warned of

storage == <<latest, archive, since>>
cron    == <<cronAt, alerted>>
vars    == <<clock, latest, archive, req, witnessed, cronAt, since, alerted>>

\* `floor`: history, what had been witnessed when the request came in.
NoRequest == [pc |-> "none", now |-> 0, body |-> None, floor |-> 0]
Request   == [pc : {"none", "verify", "commit", "get", "acked", "served"},
              now : Nat, body : Signed \cup {None}, floor : Nat]

TypeOK ==
  /\ clock \in Nat /\ witnessed \in Nat /\ cronAt \in Nat /\ since \in Nat
  /\ latest \in Signed \cup {None} /\ archive \in SUBSET Signed
  /\ req \in [Clients -> Request] /\ alerted \in SUBSET Nat
  /\ \A c \in Clients : req[c].pc \notin {"none", "get"} => req[c].body \in Signed

Init ==
  /\ clock = 0 /\ latest = None /\ archive = {} /\ witnessed = 0
  /\ req = [c \in Clients |-> NoRequest]
  /\ cronAt = 0 /\ since = 0 /\ alerted = {}

-----------------------------------------------------------------------------
(* Publishing.                                                              *)

\* assertCheckpoint comes from the library the worker imports.
CP == INSTANCE Checkpoint WITH
        mark <- IF latest = None THEN [sequence |-> 0, digest |-> NoDigest]
                ELSE [sequence |-> latest.sequence, digest |-> latest.digest]

MarkOf(s) == IF s = None THEN CP!NoMark ELSE [sequence |-> s.sequence, digest |-> s.digest]

At(c, pc) == req[c].pc = pc

\* POST /operator/publish with a valid token; the clock is read here.
Publish(c, s) ==
  /\ At(c, "none")
  /\ req' = [req EXCEPT ![c] = [pc |-> "verify", now |-> clock, body |-> s, floor |-> witnessed]]
  /\ UNCHANGED <<clock, storage, witnessed, cron>>

\* Signature, freshness and trust minimum, all awaited before storage is touched.
Acceptable(s, now) ==
  /\ s.issuedAt <= now + Skew /\ now < s.expiresAt
  /\ s.sequence >= MinimumSequence

VerifySnapshot(c) ==
  /\ At(c, "verify")
  /\ req' = IF Acceptable(req[c].body, req[c].now) THEN [req EXCEPT ![c].pc = "commit"]
            ELSE [req EXCEPT ![c] = NoRequest]
  /\ UNCHANGED <<clock, storage, witnessed, cron>>

\* Mutant: the same sequence may be stored again under other bytes.
StorableAgain(s) == CP!AssertCheckpoint(MarkOf(latest), MarkOf(s))

\* Mutant: a missing archive number may still be filled in.
StorableLate(s) ==
  \A a \in archive : a.sequence = s.sequence => a.compact = s.compact

\* The transaction's checks against what is stored now.
Storable(s) ==
  /\ CP!AssertCheckpoint(MarkOf(latest), MarkOf(s))
  /\ latest # None => ~(latest.sequence = s.sequence /\ latest.compact # s.compact)

\* Mutant: only the latest snapshot is stored.
CommitLatestOnly(c) ==
  /\ At(c, "commit") /\ Storable(req[c].body)
  /\ latest' = req[c].body
  /\ since' = IF latest' = latest THEN since ELSE clock
  /\ req' = [req EXCEPT ![c].pc = "acked"]
  /\ UNCHANGED <<clock, archive, witnessed, cron>>

\* One storage transaction: compare, archive, replace.
Commit(c) ==
  LET s == req[c].body
  IN  /\ At(c, "commit") /\ Storable(s)
      /\ archive' = {a \in archive : a.sequence # s.sequence} \cup {s}
      /\ latest' = s
      /\ since' = IF s = latest THEN since ELSE clock
      /\ req' = [req EXCEPT ![c].pc = "acked"]
      /\ UNCHANGED <<clock, witnessed, cron>>

\* 400: the transaction throws and rolls back.
Conflict(c) ==
  /\ At(c, "commit") /\ ~Storable(req[c].body)
  /\ req' = [req EXCEPT ![c] = NoRequest]
  /\ UNCHANGED <<clock, storage, witnessed, cron>>

-----------------------------------------------------------------------------
(* Reading.                                                                 *)

\* GET registry.jws: the clock is read before the storage is.
GetLatest(c) ==
  /\ At(c, "none")
  /\ req' = [req EXCEPT ![c] = [pc |-> "get", now |-> clock, body |-> None, floor |-> witnessed]]
  /\ UNCHANGED <<clock, storage, witnessed, cron>>

\* 503 unless there is a snapshot that had not expired when the request came.
ReadLatest(c) ==
  /\ At(c, "get")
  /\ req' = IF latest # None /\ latest.expiresAt > req[c].now
            THEN [req EXCEPT ![c].pc = "served", ![c].body = latest]
            ELSE [req EXCEPT ![c] = NoRequest]
  /\ UNCHANGED <<clock, storage, witnessed, cron>>

\* The answer (the acknowledgement or the snapshot) reaches the caller.
Answer(c) ==
  /\ req[c].pc \in {"acked", "served"}
  /\ witnessed' = IF req[c].body.sequence > witnessed THEN req[c].body.sequence ELSE witnessed
  /\ req' = [req EXCEPT ![c] = NoRequest]
  /\ UNCHANGED <<clock, storage, cron>>

-----------------------------------------------------------------------------
(* Around the requests.                                                     *)

\* The object is evicted or its machine dies: every request in flight is lost.
Evict ==
  /\ \E c \in Clients : ~At(c, "none")
  /\ req' = [c \in Clients |-> NoRequest]
  /\ UNCHANGED <<clock, storage, witnessed, cron>>

\* Mutant: the cron only warns when the snapshot has expired.
CronWhenExpired ==
  /\ cronAt < clock
  /\ cronAt' = clock
  /\ alerted' = IF latest # None /\ latest.expiresAt <= clock
                THEN alerted \cup {latest.sequence} ELSE alerted
  /\ UNCHANGED <<clock, storage, req, witnessed>>

\* scheduled(): the health answer is not ok or less than AlertLead remains.
Cron ==
  /\ cronAt < clock
  /\ cronAt' = clock
  /\ alerted' = IF latest # None /\ latest.expiresAt - clock < AlertLead
                THEN alerted \cup {latest.sequence} ELSE alerted
  /\ UNCHANGED <<clock, storage, req, witnessed>>

\* Cloudflare starts the cron every CronPeriod: time does not pass it by.
Tick ==
  /\ clock < MaxTime /\ clock < cronAt + CronPeriod
  /\ clock' = clock + 1
  /\ UNCHANGED <<storage, req, witnessed, cron>>

Next ==
  \/ \E c \in Clients :
       \/ \E s \in Signed : Publish(c, s)
       \/ VerifySnapshot(c) \/ Commit(c) \/ Conflict(c)
       \/ GetLatest(c) \/ ReadLatest(c) \/ Answer(c)
  \/ Evict \/ Cron \/ Tick

Spec == Init /\ [][Next]_vars

-----------------------------------------------------------------------------
(* Properties.                                                              *)

\* The stored latest snapshot is a checkpoint that only advances: no rollback and no
\* equivocation, whatever the operators send at once (worker.mjs:29-36).
ImplementsCheckpoint == CP!Spec

\* "Retains immutable signed history": a numbered archive entry, once there, is there
\* for good, byte for byte (hosting/README.md:18, worker.mjs:33,35).
ArchiveIsImmutable == [][archive \subseteq archive']_storage

\* The latest snapshot is archived, and no archived one is newer: whoever was
\* given a number can fetch it there (worker.mjs:35).
LatestIsNewestArchived ==
  IF latest = None THEN archive = {}
  ELSE latest \in archive /\ \A a \in archive : a.sequence <= latest.sequence

\* Reads do not go back in time: a request that starts after some caller was answered
\* with sequence n, as publisher or reader, is answered with n or newer, even across
\* evictions (worker.mjs:23,30-37,43).
NoStaleAnswer ==
  \A c \in Clients : req[c].pc \in {"acked", "served"} => req[c].body.sequence >= req[c].floor

\* No silent expiry: when the latest snapshot expires, the cron has warned of it already,
\* unless it was stored less than a cron period before (worker.mjs:52-53).
AlertBeforeExpiry ==
  (latest # None /\ latest.expiresAt <= clock /\ latest.expiresAt - since > CronPeriod)
    => latest.sequence \in alerted
=============================================================================

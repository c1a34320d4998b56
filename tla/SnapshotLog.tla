---------------------------- MODULE SnapshotLog ----------------------------
(***************************************************************************)
(* What the release operator promises, without files, locks or processes:  *)
(* one growing list of signed snapshots, the i-th with sequence i, each a  *)
(* valid successor of the one before, of which some prefix has been        *)
(* exposed as registry.jws.  Release implements it; the properties below   *)
(* are what wallets, hosts and merchants rely on.                          *)
(***************************************************************************)
EXTENDS RegistryRules, Sequences

VARIABLES
  log,      \* every snapshot ever recorded, in order
  exposed   \* the sequence of the snapshot in registry.jws, 0 if there is none

vars == <<log, exposed>>

Last == IF log = <<>> THEN Genesis ELSE log[Len(log)]

Init == log = <<>> /\ exposed = 0

\* A snapshot is recorded: state.json is replaced by a valid successor.
RecordSnapshot ==
  /\ Len(log') = Len(log) + 1
  /\ LET p == log'[Len(log) + 1]
     IN  /\ p \in Payload
         /\ p.sequence = Len(log) + 1
         /\ ValidTransition(Last, p)
         /\ log' = Append(log, p)
  /\ UNCHANGED exposed

\* The newest recorded snapshot becomes the downloadable one.
ExposeSnapshot ==
  /\ exposed < Len(log)
  /\ exposed' = Len(log)
  /\ UNCHANGED log

Next == RecordSnapshot \/ ExposeSnapshot

Spec == Init /\ [][Next]_vars

-----------------------------------------------------------------------------
(* The keys merchant m ever showed under key ID k, at position i of the log. *)
Showing(i, m, k) == {x \in KeysOf(log[i], m) : x.kid = k}

\* A key ID is bound once and for all: no two snapshots, however far apart and
\* whatever was removed, revoked or re-added in between, show different keys
\* under one merchant's key ID (lifecycle.mjs:30,42).
KidNeverRebinds ==
  \A i, j \in DOMAIN log : \A m \in Merchants, k \in Kids :
    \A x \in Showing(i, m, k), y \in Showing(j, m, k) : x = y

\* Once a key ID is revoked and gone from its record it stays gone from every
\* later snapshot (lifecycle.mjs:46).
RetiredKidNeverReturns ==
  \A i, j \in DOMAIN log : \A m \in Merchants, k \in Kids :
    (i < j /\ Revoked(log[i], m, k) /\ Showing(i, m, k) = {}) => Showing(j, m, k) = {}

\* Later snapshots are never older, forget no revocation and drop no merchant
\* (lifecycle.mjs:35-39).
HistoryAccumulates ==
  \A i, j \in DOMAIN log : i < j =>
    /\ log[i].issuedAt <= log[j].issuedAt
    /\ log[i].revocations \subseteq log[j].revocations
    /\ {x.id : x \in log[i].merchants} \subseteq {x.id : x \in log[j].merchants}
=============================================================================

---------------------------- MODULE WalletProofs ----------------------------
(***************************************************************************)
(* Proofs about Wallet, for any number of calls, snapshots and invoices    *)
(* and an unbounded clock.  The inductive invariant says what is known of  *)
(* the snapshots that were returned or are about to be, and of the results *)
(* in hand.                                                                *)
(***************************************************************************)
EXTENDS Wallet, TLAPS

\* The snapshots behind which the checkpoint must not fall.
Known == returned \cup {call[t].compact : t \in {u \in Calls : At(u, "accepted")}}

\* They were judged; none is ahead of the checkpoint, one as far as it is the same.
KnownBehind ==
  \A c \in Known :
    /\ c \in Genuine /\ ValidRegistry(c.payload)
    /\ c.payload.sequence <= checkpoint.sequence
    /\ c.payload.sequence = checkpoint.sequence => c.digest = checkpoint.digest

KnownAgree ==
  \A c, d \in Known : c.payload.sequence = d.payload.sequence => c.digest = d.digest

\* A call that may be accepted was judged; the checkpoint has not fallen behind where the
\* call began; a result in hand was verified with a returned snapshot.
Sound(x) ==
  /\ x.pc = "accept" => x.compact \in Genuine /\ ValidRegistry(x.compact.payload)
  /\ x.pc \in {"jws", "accept", "accepted"} => x.floor <= checkpoint.sequence
  /\ x.pc = "accepted" => x.floor <= x.compact.payload.sequence
  /\ x.pc \in {"invoice", "verified"} => x.compact \in returned /\ x.now <= clock
  /\ x.pc = "verified" => VerifiesInvoice(x.invoice, x.compact.payload, x.context, x.now)

CallsAreSound == \A t \in Calls : Sound(call[t])

Inv == TypeOK /\ KnownBehind /\ KnownAgree /\ CallsAreSound

-----------------------------------------------------------------------------
(* Facts about the parts.                                                   *)

LEMMA CallShapes ==
  /\ \A x \in Verifying : x.pc \in {"jws", "accept", "accepted"} /\ x.compact \in Compacts
                            /\ x.now \in Nat /\ x.floor \in Nat
  /\ \A x \in Requesting : x.pc \in {"invoice", "verified"} /\ x.compact \in Compacts
                             /\ x.now \in Nat /\ x.invoice \in Invoices /\ x.context \in Context
  /\ NoCall.pc = "none"
BY DEF Verifying, Requesting, NoCall

LEMMA CompactShape ==
  ASSUME NEW c \in Compacts
  PROVE  /\ c.payload \in Payload /\ c.payload.sequence \in Nat /\ c.digest \in Digests
         /\ c.payload.issuedAt \in Nat /\ c.payload.expiresAt \in Nat
BY WalletAssumption DEF Compact, Payload

LEMMA InitInv == Init => Inv
<1> SUFFICES ASSUME Init PROVE Inv
  OBVIOUS
<1>1. TypeOK
  BY DEF Init, TypeOK, NoCall, CP!NoMark, CP!Mark
<1>2. Known = {}
  BY DEF Init, Known, At, NoCall
<1>3. CallsAreSound
  BY DEF Init, CallsAreSound, Sound, NoCall
<1> QED
  BY <1>1, <1>2, <1>3 DEF Inv, KnownBehind, KnownAgree

LEMMA TypeStep ==
  ASSUME TypeOK, [Next]_vars
  PROVE  TypeOK'
<1> USE DEF At, Finish
<1>1. ASSUME NEW t \in Calls, NEW c \in Compacts, BeginRegistry(t, c) PROVE TypeOK'
  <2>1. checkpoint.sequence \in Nat
    BY DEF TypeOK, CP!Mark
  <2>2. [pc |-> "jws", compact |-> c, now |-> clock, floor |-> checkpoint.sequence] \in Verifying
    BY <2>1 DEF TypeOK, Verifying
  <2> QED
    BY <1>1, <2>2 DEF BeginRegistry, TypeOK
<1>2. ASSUME NEW t \in Calls, CheckRegistry(t) PROVE TypeOK'
  <2>1. call[t] \in Verifying
    BY <1>2, CallShapes DEF TypeOK, CheckRegistry
  <2>2. [call[t] EXCEPT !.pc = "accept"] \in Verifying
    BY <2>1 DEF Verifying
  <2>3. CASE VerifiesRegistry(call[t].compact, call[t].now)
    <3>1. call[t].compact \in Genuine
      BY <2>1, <2>3, CallShapes DEF VerifiesRegistry, Genuine
    <3> DEFINE r == [call[t] EXCEPT !.pc = "accept"]
    <3>2. call' = [call EXCEPT ![t] = r] /\ r.compact = call[t].compact
      BY <1>2, <2>1, <2>3 DEF CheckRegistry, Verifying
    <3> HIDE DEF r
    <3>3. call' \in [Calls -> {NoCall} \cup Verifying \cup Requesting]
      BY <2>2, <3>2 DEF TypeOK, r
    <3>4. \A u \in Calls : call'[u].pc \in {"accept", "accepted"} => call'[u].compact \in Genuine
      BY <3>1, <3>2 DEF TypeOK
    <3> QED
      BY <1>2, <3>3, <3>4 DEF TypeOK, CheckRegistry
  <2>4. CASE ~VerifiesRegistry(call[t].compact, call[t].now)
    BY <1>2, <2>4, CallShapes DEF TypeOK, CheckRegistry
  <2> QED
    BY <2>3, <2>4
<1>3. ASSUME NEW t \in Calls, Accept(t) PROVE TypeOK'
  <2>1. call[t] \in Verifying /\ call[t].compact \in Genuine
    BY <1>3, CallShapes DEF TypeOK, Accept
  <2>2. MarkOf(call[t].compact) \in CP!Mark
    BY <2>1, CallShapes, CompactShape DEF MarkOf, CP!Mark
  <2> DEFINE r == [call[t] EXCEPT !.pc = "accepted"]
  <2>3. r \in Verifying /\ r.compact = call[t].compact
    BY <2>1 DEF Verifying
  <2>4. CASE CP!AssertCheckpoint(checkpoint, MarkOf(call[t].compact))
    <3>1. call' = [call EXCEPT ![t] = r] /\ checkpoint' = MarkOf(call[t].compact)
      BY <1>3, <2>4 DEF Accept
    <3> HIDE DEF r
    <3> QED
      BY <1>3, <2>1, <2>2, <2>3, <3>1 DEF TypeOK, Accept
  <2>5. CASE ~CP!AssertCheckpoint(checkpoint, MarkOf(call[t].compact))
    BY <1>3, <2>5, CallShapes DEF TypeOK, Accept
  <2> QED
    BY <2>4, <2>5
<1>4. ASSUME NEW t \in Calls, ReturnRegistry(t) PROVE TypeOK'
  BY <1>4, CallShapes DEF TypeOK, ReturnRegistry
<1>5. ASSUME NEW t \in Calls, NEW i \in Invoices, NEW c \in held, NEW context \in Context,
             BeginInvoice(t, i, c, context)
      PROVE  TypeOK'
  <2>1. c \in Compacts
    BY DEF TypeOK, Genuine
  <2>2. [pc |-> "invoice", invoice |-> i, compact |-> c, context |-> context, now |-> clock]
          \in Requesting
    BY <2>1 DEF TypeOK, Requesting
  <2> QED
    BY <1>5, <2>2 DEF BeginInvoice, TypeOK
<1>6. ASSUME NEW t \in Calls, EndInvoice(t) PROVE TypeOK'
  <2>1. call[t] \in Requesting
    BY <1>6, CallShapes DEF TypeOK, EndInvoice
  <2> DEFINE r == [call[t] EXCEPT !.pc = "verified"]
  <2>2. r \in Requesting /\ r.pc = "verified"
    BY <2>1 DEF Requesting
  <2>3. call' = [call EXCEPT ![t] = r] \/ call' = [call EXCEPT ![t] = NoCall]
    BY <1>6 DEF EndInvoice
  <2> HIDE DEF r
  <2> QED
    BY <1>6, <2>2, <2>3, CallShapes DEF TypeOK, EndInvoice
<1>7. ASSUME NEW t \in Calls, Discard(t) PROVE TypeOK'
  BY <1>7, CallShapes DEF TypeOK, Discard
<1>8. CASE Restart
  BY <1>8, CallShapes DEF TypeOK, Restart
<1>9. CASE Tick
  BY <1>9 DEF TypeOK, Tick
<1>10. CASE UNCHANGED vars
  BY <1>10 DEF TypeOK, vars
<1> QED
  BY <1>1, <1>2, <1>3, <1>4, <1>5, <1>6, <1>7, <1>8, <1>9, <1>10 DEF Next

-----------------------------------------------------------------------------
(* What is known stays behind the checkpoint, and agrees.                   *)

\* The checks of state.accept put the snapshot in front of everything known.
LEMMA AcceptedIsInFront ==
  ASSUME TypeOK, KnownBehind, NEW c \in Genuine, ValidRegistry(c.payload),
         CP!AssertCheckpoint(checkpoint, MarkOf(c))
  PROVE  /\ checkpoint.sequence <= c.payload.sequence
         /\ \A d \in Known : /\ d.payload.sequence <= c.payload.sequence
                             /\ d.payload.sequence = c.payload.sequence => d.digest = c.digest
<1>1. checkpoint.sequence \in Nat /\ c.payload.sequence \in Nat
  BY CompactShape DEF TypeOK, CP!Mark, Genuine
<1>2. MarkOf(c).sequence = c.payload.sequence /\ MarkOf(c).digest = c.digest
  BY DEF MarkOf
<1>3. \A d \in Known : d.payload.sequence \in 1..MaxSequence
  BY DEF KnownBehind, ValidRegistry
<1>4. CASE checkpoint = CP!NoMark
  <2>1. checkpoint.sequence = 0
    BY <1>4 DEF CP!NoMark
  <2>2. Known = {}
    <3> SUFFICES ASSUME NEW d \in Known PROVE FALSE
      OBVIOUS
    <3>1. d.payload.sequence <= 0
      BY <2>1 DEF KnownBehind
    <3> QED
      BY <1>3, <3>1
  <2> QED
    BY <1>1, <2>1, <2>2
<1>5. CASE checkpoint # CP!NoMark
  <2>1. /\ c.payload.sequence >= checkpoint.sequence
        /\ c.payload.sequence = checkpoint.sequence => c.digest = checkpoint.digest
    BY <1>2, <1>5 DEF CP!AssertCheckpoint
  <2> SUFFICES ASSUME NEW d \in Known
               PROVE  /\ d.payload.sequence <= c.payload.sequence
                      /\ d.payload.sequence = c.payload.sequence => d.digest = c.digest
    BY <1>1, <2>1
  <2>2. /\ d.payload.sequence <= checkpoint.sequence
        /\ d.payload.sequence = checkpoint.sequence => d.digest = checkpoint.digest
    BY DEF KnownBehind
  <2>3. d.payload.sequence \in Int
    BY <1>3
  <2> QED
    BY <1>1, <2>1, <2>2, <2>3
<1> QED
  BY <1>4, <1>5

\* Most steps make nothing known: they finish calls, or return what was accepted.
LEMMA NothingNew ==
  ASSUME Inv, Known' \subseteq Known, UNCHANGED checkpoint
  PROVE  KnownBehind' /\ KnownAgree'
<1>1. \A c \in Known' : c \in Known
  OBVIOUS
<1>2. KnownBehind'
  BY <1>1 DEF Inv, KnownBehind
<1>3. KnownAgree'
  BY <1>1 DEF Inv, KnownAgree
<1> QED
  BY <1>2, <1>3

LEMMA KnownStep ==
  ASSUME Inv, [Next]_vars
  PROVE  KnownBehind' /\ KnownAgree'
<1>t. TypeOK
  BY DEF Inv
<1>1. ASSUME NEW t \in Calls, NEW c \in Compacts, BeginRegistry(t, c)
      PROVE  KnownBehind' /\ KnownAgree'
  <2>1. Known' \subseteq Known
    BY <1>1, <1>t DEF BeginRegistry, Known, At, TypeOK
  <2> QED
    BY <1>1, <2>1, NothingNew DEF BeginRegistry
<1>2. ASSUME NEW t \in Calls, CheckRegistry(t) PROVE KnownBehind' /\ KnownAgree'
  <2>1. call[t] \in Verifying
    BY <1>2, <1>t, CallShapes DEF TypeOK, CheckRegistry, At
  <2> DEFINE r == [call[t] EXCEPT !.pc = "accept"]
  <2>2. r.pc = "accept"
    BY <2>1 DEF Verifying
  <2>3. call' = [call EXCEPT ![t] = r] \/ call' = [call EXCEPT ![t] = NoCall]
    BY <1>2 DEF CheckRegistry, Finish
  <2> HIDE DEF r
  <2>4. Known' \subseteq Known
    BY <1>2, <1>t, <2>2, <2>3, CallShapes DEF CheckRegistry, Known, At, TypeOK
  <2> QED
    BY <1>2, <2>4, NothingNew DEF CheckRegistry
<1>3. ASSUME NEW t \in Calls, Accept(t) PROVE KnownBehind' /\ KnownAgree'
  <2> DEFINE c == call[t].compact
             r == [call[t] EXCEPT !.pc = "accepted"]
  <2>1. call[t] \in Verifying /\ c \in Genuine /\ ValidRegistry(c.payload)
    BY <1>3, <1>t, CallShapes DEF Inv, CallsAreSound, Sound, TypeOK, Accept, At
  <2>2. CASE ~CP!AssertCheckpoint(checkpoint, MarkOf(c))
    <3>1. call' = [call EXCEPT ![t] = NoCall] /\ UNCHANGED <<checkpoint, returned>>
      BY <1>3, <2>2 DEF Accept, Finish
    <3>2. Known' \subseteq Known
      BY <1>t, <3>1, CallShapes DEF Known, At, TypeOK
    <3> QED
      BY <3>1, <3>2, NothingNew
  <2>3. CASE CP!AssertCheckpoint(checkpoint, MarkOf(c))
    <3>1. call' = [call EXCEPT ![t] = r] /\ checkpoint' = MarkOf(c) /\ returned' = returned
      BY <1>3, <2>3 DEF Accept
    <3>2. r.compact = c
      BY <2>1 DEF Verifying
    <3>3. \A d \in Known : /\ d.payload.sequence <= c.payload.sequence
                           /\ d.payload.sequence = c.payload.sequence => d.digest = c.digest
      BY <1>t, <2>1, <2>3, AcceptedIsInFront DEF Inv
    <3> HIDE DEF c, r
    <3>4. Known' \subseteq Known \cup {c}
      BY <1>t, <3>1, <3>2 DEF Known, At, TypeOK
    <3>5. c.payload.sequence \in Nat
      BY <2>1, CompactShape DEF Genuine
    <3>6. checkpoint'.sequence = c.payload.sequence /\ checkpoint'.digest = c.digest
      BY <3>1 DEF MarkOf
    <3>7. KnownBehind'
      BY <2>1, <3>3, <3>4, <3>5, <3>6 DEF Inv, KnownBehind
    <3>8. KnownAgree'
      <4> SUFFICES ASSUME NEW d \in Known', NEW e \in Known',
                          d.payload.sequence = e.payload.sequence
                   PROVE  d.digest = e.digest
        BY DEF KnownAgree
      <4>1. d \in Known \/ d = c
        BY <3>4
      <4>2. e \in Known \/ e = c
        BY <3>4
      <4> QED
        BY <3>3, <4>1, <4>2 DEF Inv, KnownAgree
    <3> QED
      BY <3>7, <3>8
  <2> QED
    BY <2>2, <2>3
<1>4. ASSUME NEW t \in Calls, ReturnRegistry(t) PROVE KnownBehind' /\ KnownAgree'
  <2>1. Known' \subseteq Known
    BY <1>4, <1>t, CallShapes DEF ReturnRegistry, Finish, Known, At, TypeOK
  <2> QED
    BY <1>4, <2>1, NothingNew DEF ReturnRegistry
<1>5. ASSUME NEW t \in Calls, NEW i \in Invoices, NEW c \in held, NEW context \in Context,
             BeginInvoice(t, i, c, context)
      PROVE  KnownBehind' /\ KnownAgree'
  <2>1. Known' \subseteq Known
    BY <1>5, <1>t DEF BeginInvoice, Known, At, TypeOK
  <2> QED
    BY <1>5, <2>1, NothingNew DEF BeginInvoice
<1>6. ASSUME NEW t \in Calls, EndInvoice(t) PROVE KnownBehind' /\ KnownAgree'
  <2>1. call[t] \in Requesting
    BY <1>6, <1>t, CallShapes DEF TypeOK, EndInvoice, At
  <2> DEFINE r == [call[t] EXCEPT !.pc = "verified"]
  <2>2. r.pc = "verified"
    BY <2>1 DEF Requesting
  <2>3. call' = [call EXCEPT ![t] = r] \/ call' = [call EXCEPT ![t] = NoCall]
    BY <1>6 DEF EndInvoice, Finish
  <2> HIDE DEF r
  <2>4. Known' \subseteq Known
    BY <1>6, <1>t, <2>2, <2>3, CallShapes DEF EndInvoice, Known, At, TypeOK
  <2> QED
    BY <1>6, <2>4, NothingNew DEF EndInvoice
<1>7. ASSUME NEW t \in Calls, Discard(t) PROVE KnownBehind' /\ KnownAgree'
  <2>1. Known' \subseteq Known
    BY <1>7, <1>t, CallShapes DEF Discard, Finish, Known, At, TypeOK
  <2> QED
    BY <1>7, <2>1, NothingNew DEF Discard
<1>8. CASE Restart
  <2>1. Known' \subseteq Known
    BY <1>8, CallShapes DEF Restart, Known, At
  <2> QED
    BY <1>8, <2>1, NothingNew DEF Restart
<1>9. CASE Tick \/ UNCHANGED vars
  <2>1. Known' = Known /\ checkpoint' = checkpoint
    BY <1>9 DEF Tick, vars, Known, At
  <2> QED
    BY <2>1, NothingNew
<1> QED
  BY <1>1, <1>2, <1>3, <1>4, <1>5, <1>6, <1>7, <1>8, <1>9 DEF Next

-----------------------------------------------------------------------------
(* Calls stay sound.                                                        *)

\* What a call relies on only grows.
LEMMA Growth ==
  ASSUME Inv, [Next]_vars
  PROVE  /\ checkpoint.sequence <= checkpoint'.sequence
         /\ returned \subseteq returned' /\ clock <= clock'
<1>1. checkpoint.sequence \in Nat /\ clock \in Nat
  BY DEF Inv, TypeOK, CP!Mark
<1>2. ASSUME NEW t \in Calls, Accept(t) PROVE checkpoint.sequence <= checkpoint'.sequence
  <2>1. call[t].compact \in Genuine /\ ValidRegistry(call[t].compact.payload)
    BY <1>2 DEF Inv, CallsAreSound, Sound, Accept, At
  <2>2. CASE CP!AssertCheckpoint(checkpoint, MarkOf(call[t].compact))
    <3>1. checkpoint.sequence <= call[t].compact.payload.sequence
      BY <2>1, <2>2, AcceptedIsInFront DEF Inv
    <3>2. checkpoint' = MarkOf(call[t].compact)
      BY <1>2, <2>2 DEF Accept
    <3> QED
      BY <3>1, <3>2 DEF MarkOf
  <2>3. CASE ~CP!AssertCheckpoint(checkpoint, MarkOf(call[t].compact))
    BY <1>1, <1>2, <2>3 DEF Accept
  <2> QED
    BY <2>2, <2>3
<1>3. checkpoint' = checkpoint \/ \E t \in Calls : Accept(t)
  BY DEF Next, vars, BeginRegistry, CheckRegistry, ReturnRegistry, BeginInvoice, EndInvoice,
         Discard, Restart, Tick
<1>4. returned \subseteq returned' /\ clock <= clock'
  BY <1>1 DEF Next, vars, BeginRegistry, CheckRegistry, Accept, ReturnRegistry, BeginInvoice,
              EndInvoice, Discard, Restart, Tick
<1> QED
  BY <1>1, <1>2, <1>3, <1>4

\* So it is enough to look at the call a step changes.
LEMMA SoundStays ==
  ASSUME Inv, [Next]_vars, NEW t \in Calls,
         call'[t] = call[t] \/ call'[t] = NoCall
  PROVE  Sound(call[t])'
<1>1. CASE call'[t] = NoCall
  BY <1>1 DEF Sound, NoCall
<1>2. CASE call'[t] = call[t]
  <2>1. call[t] \in {NoCall} \cup Verifying \cup Requesting
    BY DEF Inv, TypeOK
  <2>2. Sound(call[t])
    BY DEF Inv, CallsAreSound
  <2>3. call[t].pc \in {"jws", "accept", "accepted"} => call[t].floor <= checkpoint'.sequence
    <3> SUFFICES ASSUME call[t].pc \in {"jws", "accept", "accepted"}
                 PROVE  call[t].floor <= checkpoint'.sequence
      OBVIOUS
    <3>1. call[t].floor \in Nat /\ call[t].floor <= checkpoint.sequence
      BY <2>1, <2>2, CallShapes DEF Sound
    <3>2. checkpoint.sequence \in Nat /\ checkpoint'.sequence \in Nat
      BY TypeStep DEF Inv, TypeOK, CP!Mark
    <3> QED
      BY <3>1, <3>2, Growth
  <2>4. call[t].pc \in {"invoice", "verified"} => call[t].compact \in returned' /\ call[t].now <= clock'
    <3> SUFFICES ASSUME call[t].pc \in {"invoice", "verified"}
                 PROVE  call[t].compact \in returned' /\ call[t].now <= clock'
      OBVIOUS
    <3>1. call[t].now \in Nat /\ call[t].now <= clock /\ call[t].compact \in returned
      BY <2>1, <2>2, CallShapes DEF Sound
    <3>2. clock \in Nat /\ clock' \in Nat
      BY TypeStep DEF Inv, TypeOK
    <3> QED
      BY <3>1, <3>2, Growth
  <2> QED
    BY <1>2, <2>2, <2>3, <2>4 DEF Sound
<1> QED
  BY <1>1, <1>2

LEMMA SoundStep ==
  ASSUME Inv, [Next]_vars
  PROVE  CallsAreSound'
<1>t. TypeOK
  BY DEF Inv
<1> SUFFICES ASSUME NEW u \in Calls, ~(call'[u] = call[u] \/ call'[u] = NoCall)
             PROVE  Sound(call[u])'
  BY SoundStays DEF CallsAreSound
<1>1. ASSUME NEW t \in Calls, NEW c \in Compacts, BeginRegistry(t, c) PROVE Sound(call[u])'
  <2>1. u = t
    BY <1>1, <1>t DEF BeginRegistry, TypeOK
  <2>2. /\ call'[u] = [pc |-> "jws", compact |-> c, now |-> clock, floor |-> checkpoint.sequence]
        /\ checkpoint' = checkpoint /\ checkpoint.sequence \in Nat
    BY <1>1, <1>t, <2>1 DEF BeginRegistry, TypeOK, CP!Mark
  <2> QED
    BY <2>2 DEF Sound
<1>2. ASSUME NEW t \in Calls, CheckRegistry(t) PROVE Sound(call[u])'
  <2>1. u = t /\ call[t] \in Verifying /\ call[t].pc = "jws"
    BY <1>2, <1>t, CallShapes DEF CheckRegistry, Finish, TypeOK, At
  <2>2. VerifiesRegistry(call[t].compact, call[t].now)
    BY <1>2, <1>t, <2>1 DEF CheckRegistry, Finish, TypeOK
  <2> DEFINE r == [call[t] EXCEPT !.pc = "accept"]
  <2>3. call'[u] = r /\ checkpoint' = checkpoint
    BY <1>2, <1>t, <2>1, <2>2 DEF CheckRegistry, TypeOK
  <2>4. /\ r.pc = "accept" /\ r.compact = call[t].compact /\ r.floor = call[t].floor
        /\ r.compact \in Compacts
    BY <2>1 DEF Verifying
  <2>5. call[t].floor <= checkpoint.sequence
    BY <2>1 DEF Inv, CallsAreSound, Sound
  <2> HIDE DEF r
  <2>6. r.compact \in Genuine /\ ValidRegistry(r.compact.payload)
    BY <2>2, <2>4 DEF VerifiesRegistry, Genuine
  <2> QED
    BY <2>3, <2>4, <2>5, <2>6 DEF Sound
<1>3. ASSUME NEW t \in Calls, Accept(t) PROVE Sound(call[u])'
  <2> DEFINE c == call[t].compact
             r == [call[t] EXCEPT !.pc = "accepted"]
  <2>1. u = t /\ call[t] \in Verifying /\ call[t].pc = "accept"
    BY <1>3, <1>t, CallShapes DEF Accept, Finish, TypeOK, At
  <2>2. CP!AssertCheckpoint(checkpoint, MarkOf(c))
    BY <1>3, <1>t, <2>1 DEF Accept, Finish, TypeOK
  <2>3. call'[u] = r /\ checkpoint' = MarkOf(c)
    BY <1>3, <1>t, <2>1, <2>2 DEF Accept, TypeOK
  <2>4. r.pc = "accepted" /\ r.compact = c /\ r.floor = call[t].floor /\ r.floor \in Nat
    BY <2>1 DEF Verifying
  <2>5. /\ call[t].floor <= checkpoint.sequence
        /\ c \in Genuine /\ ValidRegistry(c.payload)
    BY <2>1 DEF Inv, CallsAreSound, Sound
  <2>6. checkpoint.sequence <= c.payload.sequence
    BY <1>t, <2>2, <2>5, AcceptedIsInFront DEF Inv
  <2>7. checkpoint.sequence \in Nat /\ c.payload.sequence \in Nat
    BY <1>t, <2>5, CompactShape DEF TypeOK, CP!Mark, Genuine
  <2>8. checkpoint'.sequence = c.payload.sequence
    BY <2>3 DEF MarkOf
  <2> HIDE DEF c, r
  <2>9. r.floor <= c.payload.sequence
    BY <2>4, <2>5, <2>6, <2>7
  <2> QED
    BY <2>3, <2>4, <2>8, <2>9 DEF Sound
<1>4. ASSUME NEW t \in Calls, ReturnRegistry(t) PROVE Sound(call[u])'
  BY <1>4, <1>t DEF ReturnRegistry, Finish, TypeOK
<1>5. ASSUME NEW t \in Calls, NEW i \in Invoices, NEW c \in held, NEW context \in Context,
             BeginInvoice(t, i, c, context)
      PROVE  Sound(call[u])'
  <2>1. u = t
    BY <1>5, <1>t DEF BeginInvoice, TypeOK
  <2>2. /\ call'[u] = [pc |-> "invoice", invoice |-> i, compact |-> c, context |-> context,
                       now |-> clock]
        /\ returned' = returned /\ clock' = clock
        /\ c \in returned /\ clock \in Nat
    BY <1>5, <1>t, <2>1 DEF BeginInvoice, TypeOK
  <2> QED
    BY <2>2 DEF Sound
<1>6. ASSUME NEW t \in Calls, EndInvoice(t) PROVE Sound(call[u])'
  <2>1. u = t /\ call[t] \in Requesting /\ call[t].pc = "invoice"
    BY <1>6, <1>t, CallShapes DEF EndInvoice, Finish, TypeOK, At
  <2>2. VerifiesInvoice(call[t].invoice, call[t].compact.payload, call[t].context, call[t].now)
    BY <1>6, <1>t, <2>1 DEF EndInvoice, Finish, TypeOK
  <2> DEFINE r == [call[t] EXCEPT !.pc = "verified"]
  <2>3. call'[u] = r /\ returned' = returned /\ clock' = clock
    BY <1>6, <1>t, <2>1, <2>2 DEF EndInvoice, TypeOK
  <2>4. /\ r.pc = "verified" /\ r.compact = call[t].compact /\ r.now = call[t].now
        /\ r.invoice = call[t].invoice /\ r.context = call[t].context
    BY <2>1 DEF Requesting
  <2>5. call[t].compact \in returned /\ call[t].now <= clock
    BY <2>1 DEF Inv, CallsAreSound, Sound
  <2> HIDE DEF r
  <2>6. VerifiesInvoice(r.invoice, r.compact.payload, r.context, r.now)
    BY <2>2, <2>4
  <2> QED
    BY <2>3, <2>4, <2>5, <2>6 DEF Sound
<1>7. ASSUME NEW t \in Calls, Discard(t) PROVE Sound(call[u])'
  BY <1>7, <1>t DEF Discard, Finish, TypeOK
<1>8. CASE Restart \/ Tick \/ UNCHANGED vars
  BY <1>8 DEF Restart, Tick, vars
<1> QED
  BY <1>1, <1>2, <1>3, <1>4, <1>5, <1>6, <1>7, <1>8 DEF Next

\* The inductive invariant holds.
THEOREM WalletInvariant == Spec => []Inv
<1>1. Inv /\ [Next]_vars => Inv'
  BY TypeStep, KnownStep, SoundStep DEF Inv
<1> QED
  BY InitInv, <1>1, PTL DEF Spec

-----------------------------------------------------------------------------
(* What the invariant and the rules say of a verified invoice.              *)

\* A valid snapshot binds a merchant's key ID to one key.
LEMMA OneKey ==
  ASSUME NEW p \in Payload, ValidRegistry(p), NEW i,
         NEW k \in KeysFor(p, i), NEW l \in KeysFor(p, i)
  PROVE  k = l
<1>1. PICK m \in p.merchants : m.id = i.merchantId /\ k \in m.keys
  BY DEF KeysFor, KeysOf
<1>2. PICK n \in p.merchants : n.id = i.merchantId /\ l \in n.keys
  BY DEF KeysFor, KeysOf
<1>3. m = n
  BY <1>1, <1>2 DEF ValidRegistry
<1>4. k.kid = l.kid
  BY DEF KeysFor
<1> QED
  BY <1>1, <1>2, <1>3, <1>4 DEF ValidRegistry, ValidRecord

LEMMA KeyShape ==
  ASSUME NEW p \in Payload, NEW i, NEW k \in KeysFor(p, i)
  PROVE  Window[k.data].notBefore \in Nat /\ Window[k.data].expiresAt \in Nat
<1>1. k \in Key
  BY DEF KeysFor, KeysOf, Payload, Record
<1>2. Window[k.data] \in [networks : SUBSET Networks, notBefore : Nat, expiresAt : Nat]
  BY <1>1, WalletAssumption DEF Key
<1> QED
  BY <1>2

\* validUntil is the earliest of the three expiries.
LEMMA ValidUntilIsEarliest ==
  ASSUME NEW p \in Payload, ValidRegistry(p), NEW i \in Invoice, NEW k \in KeysFor(p, i)
  PROVE  /\ ValidUntil(i, p) \in {i.expiresAt, p.expiresAt, Window[k.data].expiresAt}
         /\ ValidUntil(i, p) <= i.expiresAt /\ ValidUntil(i, p) <= p.expiresAt
         /\ ValidUntil(i, p) <= Window[k.data].expiresAt
<1> DEFINE w    == Window[k.data].expiresAt
           ends == {i.expiresAt, p.expiresAt, w}
           key  == CHOOSE l \in KeysFor(p, i) : TRUE
<1>1. i.expiresAt \in Nat /\ p.expiresAt \in Nat /\ w \in Nat
  BY KeyShape DEF Invoice, Payload
<1>2. key = k
  <2>1. key \in KeysFor(p, i)
    OBVIOUS
  <2> HIDE DEF key
  <2> QED
    BY <2>1, OneKey
<1>3. ValidUntil(i, p) = CHOOSE u \in ends : \A e \in ends : u <= e
  <2>1. ValidUntil(i, p) =
          CHOOSE u \in {i.expiresAt, p.expiresAt, Window[key.data].expiresAt} :
            \A e \in {i.expiresAt, p.expiresAt, Window[key.data].expiresAt} : u <= e
    BY DEF ValidUntil
  <2> HIDE DEF key
  <2> QED
    BY <1>2, <2>1
<1>4. \E u \in ends : \A e \in ends : u <= e
  <2> HIDE DEF w
  <2> QED
    BY <1>1
<1> QED
  BY <1>3, <1>4

\* A result in hand: verified at some earlier time with a valid snapshot of a pinned root.
LEMMA InHand ==
  ASSUME Inv, NEW t \in Calls, At(t, "verified")
  PROVE  /\ call[t].invoice \in Invoice /\ call[t].compact \in Genuine
         /\ call[t].compact.payload \in Payload /\ ValidRegistry(call[t].compact.payload)
         /\ call[t].now \in Nat /\ clock \in Nat /\ call[t].now <= clock
         /\ VerifiesInvoice(call[t].invoice, call[t].compact.payload, call[t].context, call[t].now)
<1>1. call[t] \in Requesting /\ clock \in Nat
  BY CallShapes DEF Inv, TypeOK, At
<1>2. /\ call[t].compact \in returned /\ call[t].now <= clock
      /\ VerifiesInvoice(call[t].invoice, call[t].compact.payload, call[t].context, call[t].now)
  BY DEF Inv, CallsAreSound, Sound, At
<1>3. call[t].compact \in Known
  BY <1>2 DEF Known
<1>4. call[t].compact \in Genuine /\ ValidRegistry(call[t].compact.payload)
  BY <1>3 DEF Inv, KnownBehind
<1> QED
  BY <1>1, <1>2, <1>4, CallShapes, CompactShape, WalletAssumption DEF Genuine

-----------------------------------------------------------------------------
(* The theorems.                                                            *)

\* Types, for any number of calls and a clock that runs as long as it likes.
THEOREM WalletTypes == Spec => []TypeOK
BY WalletInvariant, PTL DEF Inv

\* The wallet never relies on two different snapshots of one sequence.
THEOREM OneOfEachSequence == Spec => []NeverTwoOfOneSequence
<1>1. Inv => NeverTwoOfOneSequence
  BY DEF Inv, KnownAgree, Known, NeverTwoOfOneSequence
<1> QED
  BY WalletInvariant, <1>1, PTL

\* A call is not answered with a snapshot behind the checkpoint it began at.
THEOREM CallsAreNotRolledBack == Spec => []NoRollback
<1>1. Inv => NoRollback
  <2> SUFFICES ASSUME Inv, NEW t \in Calls, At(t, "accepted")
               PROVE  call[t].compact.payload.sequence >= call[t].floor
    BY DEF NoRollback
  <2>1. call[t] \in Verifying
    BY CallShapes DEF Inv, TypeOK, At
  <2>2. call[t].floor \in Nat /\ call[t].compact.payload.sequence \in Nat
    BY <2>1, CallShapes, CompactShape
  <2>3. call[t].floor <= call[t].compact.payload.sequence
    BY DEF Inv, CallsAreSound, Sound, At
  <2> QED
    BY <2>2, <2>3
<1> QED
  BY WalletInvariant, <1>1, PTL

\* A result that is still within its validUntil a day after payload q was issued was verified
\* with a snapshot issued later than q: if that one knows q's revocations, they are heeded.
LEMMA LaterSnapshotDecides ==
  ASSUME Inv, NEW t \in Calls, At(t, "verified"), NEW q, q.issuedAt \in Nat,
         q.issuedAt < call[t].compact.payload.issuedAt
           => q.revocations \subseteq call[t].compact.payload.revocations,
         clock < ValidUntil(call[t].invoice, call[t].compact.payload),
         ~(clock < q.issuedAt + Day)
  PROVE  ~Revoked(q, call[t].invoice.merchantId, call[t].invoice.kid)
<1> DEFINE i == call[t].invoice
           p == call[t].compact.payload
<1>1. /\ i \in Invoice /\ p \in Payload /\ ValidRegistry(p)
      /\ clock \in Nat
      /\ VerifiesInvoice(i, p, call[t].context, call[t].now)
  BY InHand
<1>a. /\ q.issuedAt < p.issuedAt => q.revocations \subseteq p.revocations
      /\ clock < ValidUntil(i, p)
  OBVIOUS
<1> HIDE DEF i, p
<1>2. ~Revoked(p, i.merchantId, i.kid)
  BY <1>1 DEF VerifiesInvoice
<1>3. PICK k \in KeysFor(p, i) : TRUE
  BY <1>1 DEF VerifiesInvoice
<1>4. ValidUntil(i, p) \in Nat /\ ValidUntil(i, p) <= p.expiresAt
  BY <1>1, <1>3, ValidUntilIsEarliest, KeyShape DEF Invoice, Payload
<1>5. /\ p.issuedAt \in Nat /\ p.expiresAt \in Nat
      /\ p.expiresAt - p.issuedAt <= Day /\ Day \in Nat
  BY <1>1, NumbersAssumption DEF ValidRegistry, Lifetime, Payload
<1>6. q.issuedAt < p.issuedAt
  BY <1>a, <1>1, <1>4, <1>5
<1> QED
  BY <1>2, <1>6, <1>a DEF Revoked, i

\* Revocation reaches every result within a day, though the snapshot may not.
THEOREM RevocationIsBounded ==
  ASSUME RevocationsAccumulate
  PROVE  Spec => []RevokedWithinADay
<1>1. Inv => RevokedWithinADay
  <2> SUFFICES ASSUME Inv, NEW t \in Calls, NEW c \in Genuine, At(t, "verified"),
                      clock < ValidUntil(call[t].invoice, call[t].compact.payload),
                      ~(clock < c.payload.issuedAt + Day)
               PROVE  ~Revoked(c.payload, call[t].invoice.merchantId, call[t].invoice.kid)
    BY DEF RevokedWithinADay
  <2>1. call[t].compact \in Genuine /\ c.payload.issuedAt \in Nat
    BY InHand, CompactShape DEF Genuine
  <2> QED
    BY <2>1, LaterSnapshotDecides DEF RevocationsAccumulate
<1> QED
  BY WalletInvariant, <1>1, PTL

\* Until validUntil, and no longer, the same call would succeed again.
THEOREM ValidUntilExact == Spec => []ValidUntilIsExact
<1>1. Inv => ValidUntilIsExact
  <2> SUFFICES ASSUME Inv, NEW t \in Calls, At(t, "verified")
               PROVE  VerifiesInvoice(call[t].invoice, call[t].compact.payload, call[t].context, clock)
                        <=> clock < ValidUntil(call[t].invoice, call[t].compact.payload)
    BY DEF ValidUntilIsExact
  <2> DEFINE i   == call[t].invoice
             p   == call[t].compact.payload
             x   == call[t].context
             now == call[t].now
  <2>1. /\ i \in Invoice /\ p \in Payload /\ ValidRegistry(p)
        /\ now \in Nat /\ clock \in Nat /\ now <= clock /\ VerifiesInvoice(i, p, x, now)
    BY InHand
  <2> HIDE DEF i, p, x, now
  <2>2. PICK k \in KeysFor(p, i) : KeyValid(k, i, now)
    BY <2>1 DEF VerifiesInvoice
  <2>3. \A l \in KeysFor(p, i) : l = k
    BY <2>1, OneKey
  <2>4. /\ i.issuedAt \in Nat /\ i.expiresAt \in Nat /\ p.issuedAt \in Nat /\ p.expiresAt \in Nat
        /\ Window[k.data].notBefore \in Nat /\ Window[k.data].expiresAt \in Nat /\ Skew \in Nat
    BY <2>1, KeyShape, NumbersAssumption DEF Invoice, Payload
  <2>5. /\ ValidUntil(i, p) \in {i.expiresAt, p.expiresAt, Window[k.data].expiresAt}
        /\ ValidUntil(i, p) <= i.expiresAt /\ ValidUntil(i, p) <= p.expiresAt
        /\ ValidUntil(i, p) <= Window[k.data].expiresAt
    BY <2>1, ValidUntilIsEarliest
  <2>6. ValidUntil(i, p) \in Nat
    BY <2>4, <2>5
  <2>7. ASSUME VerifiesInvoice(i, p, x, clock) PROVE clock < ValidUntil(i, p)
    <3>1. clock < i.expiresAt /\ clock < p.expiresAt
      BY <2>7 DEF VerifiesInvoice, Fresh
    <3>2. clock < Window[k.data].expiresAt
      BY <2>3, <2>7 DEF VerifiesInvoice, KeyValid
    <3> QED
      BY <2>5, <3>1, <3>2
  <2>8. ASSUME clock < ValidUntil(i, p) PROVE VerifiesInvoice(i, p, x, clock)
    <3>1. clock < i.expiresAt /\ clock < p.expiresAt /\ clock < Window[k.data].expiresAt
      BY <2>1, <2>4, <2>5, <2>6, <2>8
    <3>2. Fresh(p, now) /\ Fresh(i, now)
      BY <2>1 DEF VerifiesInvoice
    <3>3. Fresh(p, clock) /\ Fresh(i, clock)
      BY <2>1, <2>4, <3>1, <3>2 DEF Fresh
    <3>4. KeyValid(k, i, clock)
      BY <2>1, <2>2, <2>4, <3>1 DEF KeyValid
    <3> QED
      BY <2>1, <2>3, <3>3, <3>4 DEF VerifiesInvoice
  <2> QED
    BY <2>7, <2>8 DEF i, p, x, now
<1> QED
  BY WalletInvariant, <1>1, PTL

\* The durable checkpoint implements the abstract one: it stays, or its sequence rises.
THEOREM WalletIsACheckpoint == Spec => ImplementsCheckpoint
<1>1. Init => CP!Init
  BY DEF Init, CP!Init
<1>2. ASSUME Inv, [Next]_vars PROVE [CP!Advance]_checkpoint
  <2>t. checkpoint \in CP!Mark /\ checkpoint' \in CP!Mark
    BY <1>2, TypeStep DEF Inv, TypeOK
  <2>1. ASSUME NEW t \in Calls, Accept(t) PROVE [CP!Advance]_checkpoint
    <3> DEFINE next == MarkOf(call[t].compact)
    <3>1. CASE CP!AssertCheckpoint(checkpoint, next)
      <4>1. checkpoint' = next
        BY <2>1, <3>1 DEF Accept
      <4> HIDE DEF next
      <4>2. checkpoint.sequence \in Nat /\ next.sequence \in Nat
        BY <2>t, <4>1 DEF CP!Mark
      <4>3. CASE next.sequence > checkpoint.sequence
        BY <2>t, <4>1, <4>3 DEF CP!Advance
      <4>4. CASE ~(next.sequence > checkpoint.sequence)
        <5>1. checkpoint # CP!NoMark
          BY <3>1, <4>2, <4>4 DEF CP!AssertCheckpoint, CP!NoMark
        <5>2. next.sequence = checkpoint.sequence /\ next.digest = checkpoint.digest
          BY <3>1, <4>2, <4>4, <5>1 DEF CP!AssertCheckpoint
        <5>3. checkpoint' = checkpoint
          BY <2>t, <4>1, <5>2 DEF CP!Mark
        <5> QED
          BY <5>3
      <4> QED
        BY <4>3, <4>4
    <3>2. CASE ~CP!AssertCheckpoint(checkpoint, next)
      BY <2>1, <3>2 DEF Accept
    <3> QED
      BY <3>1, <3>2
  <2>2. CASE ~\E t \in Calls : Accept(t)
    BY <1>2, <2>2 DEF Next, vars, BeginRegistry, CheckRegistry, ReturnRegistry, BeginInvoice,
                      EndInvoice, Discard, Restart, Tick
  <2> QED
    BY <2>1, <2>2
<1> QED
  BY <1>1, <1>2, WalletInvariant, PTL DEF Spec, ImplementsCheckpoint, CP!Spec
=============================================================================

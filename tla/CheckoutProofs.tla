--------------------------- MODULE CheckoutProofs ---------------------------
(***************************************************************************)
(* Proofs about Checkout, for any number of server processes, any          *)
(* lifetimes and any clock.                                                *)
(*                                                                         *)
(* Handlers overlap at their awaits, so nothing about the page can be said *)
(* of one handler alone.  The invariant says what each holds between two   *)
(* awaits: a process that exists and an invoice that was issued (Known),   *)
(* and, once a registry was accepted, the process of the checkpoint, which *)
(* no later step can change (Relied).                                      *)
(***************************************************************************)
EXTENDS Checkout, FiniteSetTheorems, TLAPS

Started == 1..Len(starts)

Issued(i) == i.by \in Started /\ i.issuedAt <= clock

\* What the page and its handlers hold came from a server process.
Known ==
  /\ config # Nothing => config \in Started
  /\ shown.compact \in Invoice => Issued(shown.compact) /\ config # Nothing
  /\ creating.at = "invoice" => config # Nothing
  /\ (creating.at = "config" /\ creating.reply # Nothing) => creating.reply \in Started
  /\ (creating.at = "invoice" /\ creating.reply # Nothing) => Issued(creating.reply)
  /\ verifying.at = "registry" => verifying.config \in Started /\ shown.compact \in Invoice
  /\ verifying.at = "invoice" =>
       /\ verifying.config \in Started /\ Issued(verifying.invoice)
       /\ verifying.invoice.issuedAt <= verifying.now

\* The checkpoint names the one process whose registry is relied on.
Relied ==
  /\ verifying.at = "invoice" => MarkOf(verifying.config) = checkpoint
  /\ \A p \in issuers : MarkOf(p) = checkpoint
  /\ shown.details # Nothing => shown.details.invoice.by \in Started
  /\ (verifying.at = "invoice" /\ ~verifying.replaced) => verifying.invoice = shown.compact

\* A server that runs was started.
Ran == up => starts # <<>>

Inv == TypeOK /\ Ran /\ Known /\ Relied /\ PresentedIsSigned /\ PresentedIsCurrent

-----------------------------------------------------------------------------

LEMMA InitInv == Init => Inv
<1> SUFFICES ASSUME Init PROVE Inv
  OBVIOUS
<1>1. starts \in Seq(Nat) /\ Len(starts) <= MaxServers
  BY CheckoutAssumption DEF Init
<1>2. checkpoint \in CP!Mark /\ shown \in Shown
  BY DEF Init, CP!NoMark, CP!Mark, Blank, Shown
<1>3. TypeOK
  BY <1>1, <1>2 DEF Init, TypeOK
<1>4. Known /\ Relied /\ PresentedIsSigned /\ PresentedIsCurrent
  BY NothingAssumption DEF Init, Known, Relied, PresentedIsSigned, PresentedIsCurrent, Blank, Idle
<1> QED
  BY <1>3, <1>4 DEF Inv, Ran, Init

\* A new process leaves those that were started as they are.
LEMMA StartsGrow ==
  ASSUME Inv, StartServer
  PROVE  /\ Len(starts') = Len(starts) + 1 /\ starts' \in Seq(Nat)
         /\ Started \subseteq Started' /\ \A p \in Started : starts'[p] = starts[p]
<1>1. starts \in Seq(Nat) /\ clock \in Nat /\ starts' = Append(starts, clock)
  BY DEF Inv, TypeOK, StartServer
<1> QED
  BY <1>1 DEF Started

LEMMA StartInv ==
  ASSUME Inv, StartServer
  PROVE  Inv'
<1>1. /\ UNCHANGED <<clock, checkpoint, config, shown, creating, verifying, issuers>>
      /\ up' = TRUE /\ Len(starts) < MaxServers /\ MaxServers \in Nat /\ Len(starts) \in Nat
  BY CheckoutAssumption DEF StartServer, page, Inv, TypeOK
<1>2. TypeOK'
  BY <1>1, StartsGrow DEF Inv, TypeOK
<1>3. Known'
  BY <1>1, StartsGrow DEF Inv, Known, Issued
<1>4. Relied'
  BY <1>1, StartsGrow DEF Inv, Relied
<1>5. PresentedIsSigned' /\ PresentedIsCurrent'
  BY <1>1, StartsGrow DEF Inv, Relied, PresentedIsSigned, PresentedIsCurrent
<1>6. Ran'
  <2>1. Len(starts) \in Nat /\ Len(<<>>) = 0
    BY DEF Inv, TypeOK
  <2>2. starts' # <<>>
    BY <2>1, StartsGrow
  <2> QED
    BY <2>2 DEF Ran
<1> QED
  BY <1>2, <1>3, <1>4, <1>5, <1>6 DEF Inv

\* Time passes, the server stops.
LEMMA QuietInv ==
  ASSUME Inv, StopServer \/ Tick \/ UNCHANGED vars
  PROVE  Inv'
<1>1. UNCHANGED <<starts, checkpoint, config, shown, creating, verifying, issuers>>
  BY DEF StopServer, Tick, server, page, vars
<1>2. up' \in BOOLEAN
  BY Zenon DEF StopServer, Tick, server, vars, Inv, TypeOK
<1>3. clock \in Nat /\ clock' \in Nat /\ clock <= clock'
  <2>1. clock \in Nat
    BY DEF Inv, TypeOK
  <2>2. clock' = clock \/ clock' = clock + 1
    BY DEF StopServer, Tick, vars
  <2> QED
    BY <2>1, <2>2
<1>4. TypeOK'
  BY <1>1, <1>2, <1>3 DEF Inv, TypeOK
<1>5. ASSUME NEW i \in Invoice, Issued(i) PROVE Issued(i)'
  BY <1>1, <1>3, <1>5 DEF Issued, Started, Invoice
<1>6. Known'
  <2>1. /\ shown.compact \in Invoice \cup {Nothing}
        /\ creating.at = "invoice" => creating.reply \in Invoice \cup {Nothing}
        /\ verifying.at = "invoice" => verifying.invoice \in Invoice
    BY DEF Inv, TypeOK, Shown, Fetching, Checking, Idle
  <2> QED
    BY <1>1, <1>5, <2>1 DEF Inv, Known, Started
<1>7. Relied' /\ PresentedIsSigned' /\ PresentedIsCurrent'
  BY <1>1 DEF Inv, Relied, PresentedIsSigned, PresentedIsCurrent, Started
<1>8. Ran'
  <2>1. up' => up
    BY Zenon DEF StopServer, Tick, server, vars
  <2> QED
    BY <1>1, <2>1, Zenon DEF Ran, Inv
<1> QED
  BY <1>4, <1>6, <1>7, <1>8 DEF Inv

LEMMA ReloadInv ==
  ASSUME Inv, Reload
  PROVE  Inv'
<1>1. TypeOK'
  BY DEF Reload, Loaded, server, Inv, TypeOK, CP!NoMark, CP!Mark, Blank, Shown, Idle
<1>2. Known' /\ Relied' /\ PresentedIsSigned' /\ PresentedIsCurrent'
  BY NothingAssumption DEF Reload, Loaded, Known, Relied, PresentedIsSigned, PresentedIsCurrent, Blank, Idle
<1>3. Ran'
  BY Zenon DEF Reload, server, Inv, Ran
<1> QED
  BY <1>1, <1>2, <1>3 DEF Inv

-----------------------------------------------------------------------------
(* Creating an invoice.                                                     *)

\* The click, the server's answers and their failure.
LEMMA CreateInv ==
  ASSUME Inv, ClickCreate \/ AnswerConfig \/ AnswerInvoice \/ FetchFails
  PROVE  Inv'
<1>1. UNCHANGED <<clock, starts, up, checkpoint, config, shown, verifying, issuers>>
  <2>1. UNCHANGED server
    BY Zenon DEF ClickCreate, AnswerConfig, AnswerInvoice, Answer, FetchFails
  <2>2. UNCHANGED <<clock, checkpoint, config, shown, verifying, issuers>>
    BY DEF ClickCreate, AnswerConfig, AnswerInvoice, Answer, FetchFails
  <2> QED
    BY <2>1, <2>2 DEF server
<1>2. /\ creating' \in {Idle} \cup Fetching
      /\ creating'.at = "invoice" => config # Nothing
      /\ (creating'.at = "config" /\ creating'.reply # Nothing) => creating'.reply \in Started
      /\ (creating'.at = "invoice" /\ creating'.reply # Nothing) => Issued(creating'.reply)
  <2>1. CASE ClickCreate
    BY <2>1 DEF ClickCreate, Fetching
  <2>2. CASE FetchFails
    BY <2>2 DEF FetchFails, Back, Idle
  <2>3. CASE AnswerConfig \/ AnswerInvoice
    <3>1. PICK stage \in {"config", "invoice"} :
            /\ Len(starts) \in Processes /\ clock \in Nat
            /\ creating \in Fetching /\ creating.at = stage /\ creating.reply = Nothing
            /\ creating' = [creating EXCEPT !.reply =
                 IF stage = "config" THEN Len(starts)
                 ELSE [by |-> Len(starts), issuedAt |-> clock, intact |-> TRUE]]
      <4>1. starts \in Seq(Nat) /\ Len(starts) <= MaxServers /\ clock \in Nat
        BY DEF Inv, TypeOK
      <4>2. creating \in Fetching
        BY <2>3 DEF AnswerConfig, AnswerInvoice, Answer, Idle, Inv, TypeOK
      <4>3. up
        BY <2>3, Zenon DEF AnswerConfig, AnswerInvoice, Answer
      <4>4. Len(starts) \in Processes
        BY <4>1, <4>3, CheckoutAssumption DEF Inv, Ran, Processes
      <4> QED
        BY <2>3, <4>1, <4>2, <4>4 DEF AnswerConfig, AnswerInvoice, Answer
    <3>2. Len(starts) \in Started
      BY <3>1 DEF Processes, Started
    <3>3. CASE stage = "config"
      <4> DEFINE n == Len(starts)
      <4>1. creating' = [at |-> "config", reply |-> n]
        BY <3>1, <3>3 DEF Fetching
      <4>2. n \in Processes /\ n \in Started
        BY <3>1, <3>2
      <4> HIDE DEF n
      <4>3. creating' \in Fetching
        BY <4>1, <4>2 DEF Fetching
      <4> QED
        BY <4>1, <4>2, <4>3
    <3>4. CASE stage = "invoice"
      <4> DEFINE new == [by |-> Len(starts), issuedAt |-> clock, intact |-> TRUE]
      <4>1. creating' = [at |-> "invoice", reply |-> new]
        BY <3>1, <3>4 DEF Fetching
      <4>2. new \in Invoice
        BY <3>1 DEF Invoice
      <4>3. Issued(new)
        BY <3>1, <3>2 DEF Issued
      <4>4. config # Nothing
        BY <3>1, <3>4 DEF Inv, Known
      <4> HIDE DEF new
      <4> QED
        BY <4>1, <4>2, <4>3, <4>4 DEF Fetching
    <3> QED
      BY <3>1, <3>3, <3>4
  <2> QED
    BY <2>1, <2>2, <2>3
<1>3. TypeOK'
  BY <1>1, <1>2 DEF Inv, TypeOK
<1>4. Known'
  BY <1>1, <1>2 DEF Inv, Known, Issued, Started
<1>5. Relied' /\ PresentedIsSigned' /\ PresentedIsCurrent'
  BY <1>1 DEF Inv, Relied, PresentedIsSigned, PresentedIsCurrent, Started
<1>6. Ran'
  BY <1>1, Zenon DEF Inv, Ran
<1> QED
  BY <1>3, <1>4, <1>5, <1>6 DEF Inv

\* Another invoice in the text area: a verification that has read the last one goes on.
LEMMA ReplaceInv ==
  ASSUME Inv, NEW i \in Invoice, Issued(i), Replace(i), config # Nothing,
         UNCHANGED <<clock, starts, up, checkpoint, config, issuers>>,
         creating' = creating \/ creating' = Idle
  PROVE  Inv'
<1>1. shown' = [compact |-> i, details |-> Nothing] /\ shown' \in Shown
  BY DEF Replace, Shown
<1>2. /\ verifying' \in {Idle} \cup Checking /\ verifying'.at = verifying.at
      /\ verifying.at # "idle" => verifying'.config = verifying.config
                                    /\ verifying'.now = verifying.now
      /\ verifying.at = "invoice" => verifying'.invoice = verifying.invoice /\ verifying'.replaced
  <2>1. verifying' = Outdated(verifying) /\ verifying \in {Idle} \cup Checking
    BY DEF Replace, Inv, TypeOK
  <2>2. CASE verifying.at = "invoice"
    <3>1. verifying' = [verifying EXCEPT !.replaced = TRUE]
      BY <2>1, <2>2 DEF Outdated
    <3>2. PICK c \in Processes, n \in Nat, j \in Invoice, r \in BOOLEAN :
            verifying = [at |-> "invoice", config |-> c, now |-> n, invoice |-> j, replaced |-> r]
      BY <2>1, <2>2 DEF Checking, Idle
    <3>3. verifying' = [at |-> "invoice", config |-> c, now |-> n, invoice |-> j,
                        replaced |-> TRUE]
      BY <3>1, <3>2
    <3> QED
      BY <3>2, <3>3 DEF Checking
  <2>3. CASE verifying.at # "invoice"
    BY <2>1, <2>3 DEF Outdated
  <2> QED
    BY <2>2, <2>3
<1>3. creating' \in {Idle} \cup Fetching
  BY DEF Inv, TypeOK
<1>4. TypeOK'
  BY <1>1, <1>2, <1>3 DEF Inv, TypeOK
<1>5. Known'
  <2>1. verifying.at \in {"idle", "registry", "invoice"}
    BY DEF Inv, TypeOK, Idle, Checking
  <2>2. creating'.at \in {"config", "invoice"} => creating' = creating
    BY DEF Idle
  <2>3. i # Nothing => Issued(i)' /\ config' # Nothing
    BY DEF Issued, Started
  <2> QED
    BY <1>1, <1>2, <2>1, <2>2, <2>3 DEF Inv, Known, Issued, Started
<1>6. Relied' /\ PresentedIsSigned' /\ PresentedIsCurrent'
  BY <1>1, <1>2 DEF Inv, TypeOK, Relied, PresentedIsSigned, PresentedIsCurrent, Idle, Checking
<1>7. Ran'
  BY Zenon DEF Inv, Ran
<1> QED
  BY <1>4, <1>5, <1>6, <1>7 DEF Inv

LEMMA ReceiveInv ==
  ASSUME Inv, ReceiveConfig \/ ReceiveInvoice \/ Tamper
  PROVE  Inv'
<1>1. CASE ReceiveConfig
  <2>1. /\ creating \in Fetching /\ creating.reply \in Started
        /\ config' = creating.reply /\ config' # Nothing
        /\ creating' = [at |-> "invoice", reply |-> Nothing]
        /\ UNCHANGED <<clock, starts, checkpoint, shown, verifying, issuers>>
    BY <1>1 DEF ReceiveConfig, server, Inv, TypeOK, Idle, Known
  <2>2. UNCHANGED up
    BY <1>1, Zenon DEF ReceiveConfig, server
  <2>3. config' \in Processes /\ creating' \in Fetching
    BY <1>1, <2>1 DEF ReceiveConfig, Fetching
  <2>4. TypeOK'
    BY <2>1, <2>2, <2>3 DEF Inv, TypeOK
  <2>5. Known'
    BY <2>1 DEF Inv, Known, Issued, Started
  <2>6. Relied' /\ PresentedIsSigned' /\ PresentedIsCurrent'
    BY <2>1 DEF Inv, Relied, PresentedIsSigned, PresentedIsCurrent, Started
  <2>7. Ran'
    BY <2>1, <2>2, Zenon DEF Inv, Ran
  <2> QED
    BY <2>4, <2>5, <2>6, <2>7 DEF Inv
<1>2. CASE ReceiveInvoice
  <2>1. /\ creating.reply \in Invoice /\ Issued(creating.reply) /\ config # Nothing
        /\ Replace(creating.reply) /\ creating' = Idle
    BY <1>2 DEF ReceiveInvoice, Back, Inv, TypeOK, Idle, Fetching, Known
  <2>2. UNCHANGED <<clock, starts, up, checkpoint, config, issuers>>
    BY <1>2, Zenon DEF ReceiveInvoice, server
  <2> QED
    BY <2>1, <2>2, ReplaceInv
<1>3. CASE Tamper
  <2> DEFINE i == [shown.compact EXCEPT !.intact = FALSE]
  <2>1. shown.compact \in Invoice /\ Replace(i) /\ creating' = creating
    BY <1>3 DEF Tamper, Inv, TypeOK, Shown
  <2>2. UNCHANGED <<clock, starts, up, checkpoint, config, issuers>>
    BY <1>3, Zenon DEF Tamper, server
  <2>3. i \in Invoice /\ i.by = shown.compact.by /\ i.issuedAt = shown.compact.issuedAt
    BY <2>1 DEF Invoice
  <2>4. Issued(i) /\ config # Nothing
    BY <2>1, <2>3 DEF Inv, Known, Issued
  <2> HIDE DEF i
  <2> QED
    BY <2>1, <2>2, <2>3, <2>4, ReplaceInv
<1> QED
  BY <1>1, <1>2, <1>3

-----------------------------------------------------------------------------
(* Verifying an invoice.                                                    *)

LEMMA VerifyInv ==
  ASSUME Inv, ClickVerify \/ EndRegistry \/ EndInvoice
  PROVE  Inv'
<1>1. /\ UNCHANGED <<clock, starts, config, creating>> /\ clock \in Nat
  BY DEF ClickVerify, EndRegistry, EndInvoice, server, Inv, TypeOK
<1>2. UNCHANGED up
  BY Zenon DEF ClickVerify, EndRegistry, EndInvoice, server
<1>3. Ran'
  BY <1>1, <1>2, Zenon DEF Inv, Ran
<1>4. CASE ClickVerify
  <2>1. /\ config \in Processes /\ config \in Started /\ shown.compact \in Invoice
        /\ verifying' = [at |-> "registry", config |-> config, now |-> clock]
        /\ UNCHANGED <<checkpoint, shown, issuers>>
    BY <1>4 DEF ClickVerify, Inv, TypeOK, Known, Shown
  <2>2. verifying' \in Checking
    BY <1>1, <2>1 DEF Checking
  <2>3. TypeOK'
    BY <1>1, <1>2, <2>1, <2>2 DEF Inv, TypeOK
  <2>4. Known'
    BY <1>1, <2>1 DEF Inv, Known, Issued, Started
  <2>5. Relied' /\ PresentedIsSigned' /\ PresentedIsCurrent'
    BY <1>1, <2>1 DEF Inv, Relied, PresentedIsSigned, PresentedIsCurrent, Started
  <2> QED
    BY <1>3, <2>3, <2>4, <2>5 DEF Inv
<1>5. CASE EndRegistry
  <2>1. /\ verifying \in Checking /\ verifying.config \in Processes
        /\ verifying.config \in Started /\ shown.compact \in Invoice
        /\ Issued(shown.compact) /\ UNCHANGED <<shown, issuers>>
    BY <1>5 DEF EndRegistry, Inv, TypeOK, Idle, Checking, Known
  <2>2. CASE checkpoint' = checkpoint /\ verifying' = Idle
    <3>1. TypeOK'
      BY <1>1, <1>2, <2>1, <2>2 DEF Inv, TypeOK
    <3>2. Known'
      BY <1>1, <2>1, <2>2 DEF Inv, Known, Issued, Started, Idle
    <3>3. Relied' /\ PresentedIsSigned' /\ PresentedIsCurrent'
      BY <1>1, <2>1, <2>2 DEF Inv, Relied, PresentedIsSigned, PresentedIsCurrent, Started, Idle
    <3> QED
      BY <1>3, <3>1, <3>2, <3>3 DEF Inv
  <2>3. CASE /\ CP!AssertCheckpoint(checkpoint, MarkOf(verifying.config))
             /\ checkpoint' = MarkOf(verifying.config)
             /\ verifying' = [at |-> "invoice", config |-> verifying.config, now |-> clock,
                              invoice |-> shown.compact, replaced |-> FALSE]
    <3>1. checkpoint' \in CP!Mark /\ verifying' \in Checking
      BY <1>1, <2>1, <2>3 DEF MarkOf, CP!Mark, Checking
    <3>2. TypeOK'
      BY <1>1, <1>2, <2>1, <3>1 DEF Inv, TypeOK
    <3>3. Known'
      BY <1>1, <2>1, <2>3 DEF Inv, Known, Issued, Started
    \* A checkpoint that somebody relies on is one of sequence 1, so it stays.
    <3>4. (\E p \in Processes : checkpoint = MarkOf(p)) => checkpoint' = checkpoint
      BY <2>1, <2>3 DEF CP!AssertCheckpoint, CP!NoMark, MarkOf, Processes
    <3>5. issuers # {} => checkpoint' = checkpoint
      BY <3>4 DEF Inv, TypeOK, Relied
    <3>6. shown.details # Nothing => checkpoint' = checkpoint
      BY <3>4, CheckoutAssumption DEF Inv, TypeOK, Relied, PresentedIsSigned, Started, Processes
    <3>7. Relied'
      BY <1>1, <2>1, <2>3, <3>5 DEF Inv, Relied, Started
    <3>8. PresentedIsSigned' /\ PresentedIsCurrent'
      BY <1>1, <2>1, <3>6 DEF Inv, PresentedIsSigned, PresentedIsCurrent
    <3> QED
      BY <1>3, <3>2, <3>3, <3>7, <3>8 DEF Inv
  <2> QED
    BY <1>5, <2>2, <2>3 DEF EndRegistry, Back
<1>6. CASE EndInvoice
  <2> DEFINE i == verifying.invoice
             d == [invoice |-> i, at |-> verifying.now, replaced |-> verifying.replaced]
  <2>1. /\ verifying.at = "invoice" /\ verifying \in Checking /\ i \in Invoice
        /\ verifying.now \in Nat /\ verifying.replaced \in BOOLEAN
        /\ verifying.config \in Started /\ i.by \in Started /\ i.issuedAt <= verifying.now
        /\ MarkOf(verifying.config) = checkpoint /\ checkpoint' = checkpoint
    BY <1>6 DEF EndInvoice, Inv, TypeOK, Idle, Checking, Known, Relied, Issued
  <2>2. CASE UNCHANGED <<shown, issuers>> /\ verifying' = Idle
    <3>1. TypeOK'
      BY <1>1, <1>2, <2>1, <2>2 DEF Inv, TypeOK
    <3>2. Known'
      BY <1>1, <2>2 DEF Inv, Known, Issued, Started, Idle
    <3>3. Relied' /\ PresentedIsSigned' /\ PresentedIsCurrent'
      BY <1>1, <2>1, <2>2 DEF Inv, Relied, PresentedIsSigned, PresentedIsCurrent, Started, Idle
    <3> QED
      BY <1>3, <3>1, <3>2, <3>3 DEF Inv
  <2>3. CASE /\ VerifiesInvoice(i, verifying.config, verifying.now)
             /\ shown' = [shown EXCEPT !.details = d] /\ issuers' = issuers \cup {i.by}
             /\ verifying' = Idle
    <3>1. i.by = verifying.config /\ i.intact
          /\ verifying.now < starts[i.by] + RegistryLife /\ verifying.now < i.issuedAt + InvoiceLife
      BY <2>3 DEF VerifiesInvoice
    <3>2. d \in Details /\ i.by \in Processes
      BY <2>1 DEF Details, Invoice
    <3>3. shown' = [compact |-> shown.compact, details |-> d] /\ shown' \in Shown
          /\ shown.compact \in Invoice \cup {Nothing}
      <4> HIDE DEF d
      <4> QED
        BY <2>3, <3>2 DEF Inv, TypeOK, Shown
    <3>4. TypeOK'
      BY <1>1, <1>2, <2>1, <2>3, <3>2, <3>3 DEF Inv, TypeOK
    <3>5. Known'
      BY <1>1, <2>3, <3>3 DEF Inv, Known, Issued, Started, Idle
    <3>6. Relied'
      BY <1>1, <2>1, <2>3, <3>1, <3>3 DEF Inv, Relied, Started, Idle
    <3>7. PresentedIsSigned'
      BY <1>1, <2>1, <3>1, <3>3 DEF PresentedIsSigned
    <3>8. PresentedIsCurrent'
      BY <2>1, <3>3 DEF PresentedIsCurrent, Inv, Relied
    <3> QED
      BY <1>3, <3>4, <3>5, <3>6, <3>7, <3>8 DEF Inv
  <2> QED
    BY <1>6, <2>2, <2>3 DEF EndInvoice, Back
<1> QED
  BY <1>4, <1>5, <1>6

-----------------------------------------------------------------------------

THEOREM CheckoutInvariant == Spec => []Inv
<1>1. Inv /\ [Next]_vars => Inv'
  BY StartInv, QuietInv, ReloadInv, CreateInv, ReceiveInv, VerifyInv DEF Next, Fetch, Verify
<1> QED
  BY InitInv, <1>1, PTL DEF Spec

\* The page and the server hold values of their types.
THEOREM CheckoutTypes == Spec => []TypeOK
BY CheckoutInvariant, PTL DEF Inv

\* Whatever the handlers' awaits let happen in between, presented details were signed by the
\* process whose registry the page relies on and were valid when they were verified.
THEOREM DetailsAreSigned == Spec => []PresentedIsSigned
BY CheckoutInvariant, PTL DEF Inv

\* Details are those of the invoice in the text area, but for a verification overtaken by
\* another invoice.
THEOREM DetailsAreCurrent == Spec => []PresentedIsCurrent
BY CheckoutInvariant, PTL DEF Inv

\* A page that is not reloaded presents the invoices of one server process.
THEOREM OneIssuer == Spec => []OneIssuerPerPage
<1>1. Inv => OneIssuerPerPage
  <2> SUFFICES ASSUME Inv PROVE Cardinality(issuers) <= 1
    BY DEF OneIssuerPerPage
  <2>1. \A p, q \in issuers : p = q
    BY DEF Inv, Relied, MarkOf
  <2>2. CASE issuers = {}
    BY <2>2, FS_EmptySet
  <2>3. CASE issuers # {}
    <3>1. PICK p : issuers = {p}
      BY <2>1, <2>3
    <3> QED
      BY <3>1, FS_Singleton
  <2> QED
    BY <2>2, <2>3
<1> QED
  BY CheckoutInvariant, <1>1, PTL
=============================================================================

------------------------------ MODULE Checkout ------------------------------
(***************************************************************************)
(* The checkout demo: examples/checkout/server.mjs, whose keys and         *)
(* registry live as long as its process, and examples/checkout/app.js, the *)
(* page that stands for a wallet.  Each of the page's two buttons is off   *)
(* while its own handler runs, so creating, verifying and tampering        *)
(* overlap at the handlers' awaits; the server may be restarted any time.  *)
(* Server and page are on one machine, with one clock.                     *)
(***************************************************************************)
EXTENDS Integers, Sequences, FiniteSets

CONSTANTS
  MaxServers,    \* bound on server processes
  InvoiceLife,   \* 600
  RegistryLife,  \* 3600
  KeyLife,       \* 7200
  Nothing,
  MaxTime        \* bound on the clock

ASSUME CheckoutAssumption ==
  /\ MaxServers \in Nat /\ MaxTime \in Nat
  /\ {InvoiceLife, RegistryLife, KeyLife} \subseteq Nat \ {0}
  /\ Nothing \notin Nat

VARIABLES
  clock,
  starts,      \* when each server process signed its registry, in order
  up,          \* is the last of them running?
  checkpoint,  \* the page: `checkpoint`, in RAM
  config,      \* the server process whose configuration the page holds, or Nothing
  shown,       \* `compact`, which is in the text area, and #details
  creating,    \* the handler of #create
  verifying,   \* the handler of #verify
  issuers      \* history: server processes whose invoices the loaded page presented

server == <<starts, up>>
page   == <<checkpoint, config, shown, creating, verifying, issuers>>
vars   == <<clock, starts, up, checkpoint, config, shown, creating, verifying, issuers>>

Processes == 1..MaxServers

CP == INSTANCE Checkpoint WITH mark <- checkpoint, Digests <- Processes, NoDigest <- 0

\* Every process calls its registry demo-only and its snapshot number 1.
MarkOf(p) == [sequence |-> 1, digest |-> p]

\* An invoice: the process that signed it and when, and whether its amount is still the
\* signed one.
Invoice == [by : Processes, issuedAt : Nat, intact : BOOLEAN]

ASSUME NothingAssumption == Nothing \notin Invoice

\* What #details presents and the time its verification went by.  `replaced`: history, was
\* another invoice put in the text area before they were presented?
Details == [invoice : Invoice, at : Nat, replaced : BOOLEAN]

Idle == [at |-> "idle"]

\* `reply`: what the server answered, on its way.
Fetching == [at : {"config"}, reply : Processes \cup {Nothing}]
              \cup [at : {"invoice"}, reply : Invoice \cup {Nothing}]

\* The registry of `config` at the click, later also the invoice.
Checking == [at : {"registry"}, config : Processes, now : Nat]
              \cup [at : {"invoice"}, config : Processes, now : Nat, invoice : Invoice,
                    replaced : BOOLEAN]

Shown == [compact : Invoice \cup {Nothing}, details : Details \cup {Nothing}]

Blank == [compact |-> Nothing, details |-> Nothing]

TypeOK ==
  /\ clock \in Nat /\ up \in BOOLEAN
  /\ starts \in Seq(Nat) /\ Len(starts) <= MaxServers
  /\ checkpoint \in CP!Mark /\ config \in Processes \cup {Nothing}
  /\ shown \in Shown /\ issuers \in SUBSET Processes
  /\ creating \in {Idle} \cup Fetching
  /\ verifying \in {Idle} \cup Checking

Loaded ==
  /\ checkpoint' = CP!NoMark /\ config' = Nothing /\ shown' = Blank
  /\ creating' = Idle /\ verifying' = Idle /\ issuers' = {}

Init ==
  /\ clock = 0 /\ starts = <<>> /\ up = FALSE
  /\ checkpoint = CP!NoMark /\ config = Nothing /\ shown = Blank
  /\ creating = Idle /\ verifying = Idle /\ issuers = {}

-----------------------------------------------------------------------------
(* The server                                                               *)

\* New keys, and a registry signed once: it is never renewed.
StartServer ==
  /\ ~up /\ Len(starts) < MaxServers
  /\ starts' = Append(starts, clock) /\ up' = TRUE
  /\ UNCHANGED <<clock, page>>

StopServer ==
  /\ up
  /\ up' = FALSE
  /\ UNCHANGED <<clock, starts, page>>

Answer(stage, reply) ==
  /\ up /\ creating.at = stage /\ creating.reply = Nothing
  /\ creating' = [creating EXCEPT !.reply = reply]
  /\ UNCHANGED <<clock, server, checkpoint, config, shown, verifying, issuers>>

AnswerConfig == Answer("config", Len(starts))

AnswerInvoice ==
  Answer("invoice", [by |-> Len(starts), issuedAt |-> clock, intact |-> TRUE])

-----------------------------------------------------------------------------
(* The page                                                                 *)

\* The text area changes under a verification that has read it.
Outdated(v) == IF v.at = "invoice" THEN [v EXCEPT !.replaced = TRUE] ELSE v

\* Mutant: what was verified stays on the page beside another invoice.
ReplaceKeeping(compact) ==
  shown' = [shown EXCEPT !.compact = compact] /\ verifying' = Outdated(verifying)

\* Another invoice in the text area takes the details of the last away.
Replace(compact) ==
  shown' = [compact |-> compact, details |-> Nothing] /\ verifying' = Outdated(verifying)

\* Mutant: the button stays off after an error.
BackUnlessFailed(succeeds) == IF succeeds THEN Idle ELSE [at |-> "off"]

\* `finally` of run(button): it is on again whether or not fn() threw, and an error leaves
\* the details as they are.
Back(succeeds) == Idle

ClickCreate ==
  /\ creating = Idle
  /\ creating' = [at |-> "config", reply |-> Nothing]
  /\ UNCHANGED <<clock, server, checkpoint, config, shown, verifying, issuers>>

\* From here on a new configuration goes with the old invoice.
ReceiveConfig ==
  /\ creating.at = "config" /\ creating.reply # Nothing
  /\ config' = creating.reply
  /\ creating' = [at |-> "invoice", reply |-> Nothing]
  /\ UNCHANGED <<clock, server, checkpoint, shown, verifying, issuers>>

ReceiveInvoice ==
  /\ creating.at = "invoice" /\ creating.reply # Nothing
  /\ Replace(creating.reply)
  /\ creating' = Back(TRUE)
  /\ UNCHANGED <<clock, server, checkpoint, config, issuers>>

\* The server is down, or goes down before its answer has arrived.
FetchFails ==
  /\ creating.at \in {"config", "invoice"}
  /\ creating' = Back(FALSE)
  /\ UNCHANGED <<clock, server, checkpoint, config, shown, verifying, issuers>>

\* Verify and tamper are hidden until there is an invoice.
Tamper ==
  /\ shown.compact # Nothing
  /\ Replace([shown.compact EXCEPT !.intact = FALSE])
  /\ UNCHANGED <<clock, server, checkpoint, config, creating, issuers>>

ClickVerify ==
  /\ verifying = Idle /\ shown.compact # Nothing
  /\ verifying' = [at |-> "registry", config |-> config, now |-> clock]
  /\ UNCHANGED <<clock, server, checkpoint, config, shown, creating, issuers>>

\* The registry's signature is verified: expiry as of the click, checkpoint as of now.
\* Only then is `compact` read, and the clock again.
EndRegistry ==
  /\ verifying.at = "registry"
  /\ IF /\ verifying.now < starts[verifying.config] + RegistryLife
        /\ CP!AssertCheckpoint(checkpoint, MarkOf(verifying.config))
     THEN /\ checkpoint' = MarkOf(verifying.config)
          /\ verifying' = [at |-> "invoice", config |-> verifying.config, now |-> clock,
                           invoice |-> shown.compact, replaced |-> FALSE]
     ELSE verifying' = Back(FALSE) /\ UNCHANGED checkpoint
  /\ UNCHANGED <<clock, server, config, shown, creating, issuers>>

\* Mutant: the registry's expiry is not looked at again.
VerifiesInvoiceStale(i, p, now) ==
  /\ i.by = p /\ i.intact
  /\ now < starts[p] + KeyLife /\ i.issuedAt + InvoiceLife <= starts[p] + KeyLife
  /\ now < i.issuedAt + InvoiceLife

\* verifyInvoice with the registry of process p.
VerifiesInvoice(i, p, now) ==
  /\ now < starts[p] + RegistryLife
  /\ i.by = p /\ i.intact
  /\ now < starts[p] + KeyLife /\ i.issuedAt + InvoiceLife <= starts[p] + KeyLife
  /\ now < i.issuedAt + InvoiceLife

EndInvoice ==
  /\ verifying.at = "invoice"
  /\ LET i == verifying.invoice
     IN  IF VerifiesInvoice(i, verifying.config, verifying.now)
         THEN /\ shown' = [shown EXCEPT !.details =
                             [invoice |-> i, at |-> verifying.now, replaced |-> verifying.replaced]]
              /\ issuers' = issuers \cup {i.by}
              /\ verifying' = Back(TRUE)
         ELSE verifying' = Back(FALSE) /\ UNCHANGED <<shown, issuers>>
  /\ UNCHANGED <<clock, server, checkpoint, config, creating>>

Reload == Loaded /\ UNCHANGED <<clock, server>>

Tick ==
  /\ clock < MaxTime
  /\ clock' = clock + 1
  /\ UNCHANGED <<server, page>>

Fetch  == AnswerConfig \/ AnswerInvoice \/ ReceiveConfig \/ ReceiveInvoice \/ FetchFails
Verify == EndRegistry \/ EndInvoice

Next ==
  \/ StartServer \/ StopServer
  \/ ClickCreate \/ Fetch \/ Tamper \/ ClickVerify \/ Verify
  \/ Reload \/ Tick

\* A fetch ends, if only because the server is gone, and so does a signature check.
Spec == Init /\ [][Next]_vars /\ WF_vars(Fetch) /\ WF_vars(Verify)

-----------------------------------------------------------------------------
(* Properties.                                                              *)

\* Whatever overlaps, what is presented as verified was signed as it stands by the process
\* whose registry the page has accepted, and registry, key and invoice were all valid at
\* the time the verification went by (app.js:18-19, index.js:36,46-49).
PresentedIsSigned ==
  shown.details # Nothing =>
    LET i == shown.details.invoice
        t == shown.details.at
    IN  /\ i.intact /\ MarkOf(i.by) = checkpoint
        /\ i.issuedAt <= t /\ t < i.issuedAt + InvoiceLife
        /\ t < starts[i.by] + RegistryLife

\* The details belong to the invoice in the text area, unless it was put there while the
\* verification that presents them was already reading another (app.js:14,19-22,32).
PresentedIsCurrent ==
  (shown.details # Nothing /\ ~shown.details.replaced) => shown.details.invoice = shown.compact

\* Until it is reloaded, a page presents the invoices of one server process only: the
\* registry of a restarted server is an equivocation (app.js:4, server.mjs:18).
OneIssuerPerPage == Cardinality(issuers) <= 1

\* No click is the last: each button comes back, whatever fails (app.js:5-9).
ButtonsComeBack == (creating # Idle ~> creating = Idle) /\ (verifying # Idle ~> verifying = Idle)
=============================================================================

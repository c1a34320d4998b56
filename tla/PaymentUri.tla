----------------------------- MODULE PaymentUri -----------------------------
(***************************************************************************)
(* parsePaymentUri of src/src/zip321.js: one explicit shielded payment.  A *)
(* URI is its path and its query's items <<name, raw>>, in order; an item  *)
(* without a name or a "=" has the name "", and an empty query is one such *)
(* item.  An amount is written as a sequence of digits and Dot, every      *)
(* other raw text is one value.                                            *)
(***************************************************************************)
EXTENDS Numerals, FiniteSets, SequencesExt

CONSTANTS
  Addresses,       \* texts of letters and digits
  Networks,        \* mainnet, testnet
  Shielded,        \* Shielded[n]: the addresses the wallet's validator accepts on network n
  Memos,           \* base64url texts of at most 512 bytes
  Texts,           \* label and message texts: percent-encoded, no control characters
  Nothing,         \* the empty text, and a parameter that is not there
  Decimals,        \* 8
  MaxMoney,        \* 2100000000000000 zatoshis
  MaxAmountLength  \* 32

ASSUME UriAssumption ==
  /\ Nothing \notin Addresses \cup Memos /\ Nothing \notin Nat
  /\ Decimals \in Nat \ {0} /\ MaxMoney \in Nat /\ MaxAmountLength \in Nat

Dot   == 10
ParamNames == {"address", "amount", "memo", "label", "message"}

-----------------------------------------------------------------------------
(* The amount: BigInt arithmetic, no floating point.                        *)

FirstDot(s)  == SelectInSeq(s, LAMBDA c : c = Dot)
WholePart(s) == IF Dot \in Range(s) THEN SubSeq(s, 1, FirstDot(s) - 1) ELSE s
Fraction(s)  == IF Dot \in Range(s) THEN SubSeq(s, FirstDot(s) + 1, Len(s)) ELSE <<>>

\* Mutant: the fraction is padded on the wrong side.
PadStart(f) == Zeros(Decimals - Len(f)) \o f

PadEnd(f) == f \o Zeros(Decimals - Len(f))

Zatoshis(s) == Number(10, WholePart(s)) * TenTo(Decimals) + Number(10, PadEnd(Fraction(s)))

\* The pattern, the length and, only then, the range.
ValidAmount(s) ==
  /\ Len(s) <= MaxAmountLength
  /\ WholePart(s) # <<>> /\ Range(WholePart(s)) \cup Range(Fraction(s)) \subseteq 0..9
  /\ Dot \in Range(s) => Len(Fraction(s)) \in 1..Decimals
  /\ Zatoshis(s) \in 1..MaxMoney

-----------------------------------------------------------------------------
(* The parameters.                                                          *)

Has(items, name) == \E n \in DOMAIN items : items[n][1] = name

\* params.get(name)
Param(items, name) ==
  IF Has(items, name) THEN items[CHOOSE n \in DOMAIN items : items[n][1] = name][2] ELSE Nothing

\* Mutant: of parameters with one name one is taken.
AllowedTwice(items) == \A n \in DOMAIN items : items[n][1] \in ParamNames

\* Nothing unknown, indexed or given twice.
Allowed(items) ==
  /\ \A n \in DOMAIN items : items[n][1] \in ParamNames
  /\ \A n, k \in DOMAIN items : items[n][1] = items[k][1] => n = k

\* `uri.path` is Nothing or an address, exactly one of it and the address parameter is given.
AddressOf(uri) == IF uri.path # Nothing THEN uri.path ELSE Param(uri.items, "address")

Payable(uri, network) ==
  /\ Allowed(uri.items)
  /\ \A t \in {"label", "message"} : Has(uri.items, t) => Param(uri.items, t) \in Texts \cup {Nothing}
  /\ ~(uri.path # Nothing /\ Has(uri.items, "address"))
  /\ AddressOf(uri) \in Addresses
  /\ Has(uri.items, "amount") /\ ValidAmount(Param(uri.items, "amount"))
  /\ Param(uri.items, "memo") \in Memos \cup {Nothing}
  /\ AddressOf(uri) \in Shielded[network]

\* The terms the wallet shows and pays, or the empty set if the parser throws.
ParsePaymentUri(uri, network) ==
  IF Payable(uri, network)
  THEN {[address |-> AddressOf(uri), amount |-> Zatoshis(Param(uri.items, "amount")),
         memo |-> Param(uri.items, "memo"),
         label |-> Param(uri.items, "label"), message |-> Param(uri.items, "message")]}
  ELSE {}

\* How many parts of the URI say something, and how many terms there are.
Said(uri)    == Cardinality({n \in DOMAIN uri.items : uri.items[n][2] # Nothing})
                  + (IF uri.path # Nothing THEN 1 ELSE 0)
Terms(terms) == Cardinality({f \in DOMAIN terms : terms[f] # Nothing})

-----------------------------------------------------------------------------

\* No part of an accepted URI is lost: as many terms reach the wallet's review as the URI
\* states, and in whatever order it states them ("never drop them", zip321.js:18-27,41-42).
NothingIsDropped(uri, network) ==
  /\ \A t \in ParsePaymentUri(uri, network) : Terms(t) = Said(uri)
  /\ ParsePaymentUri([uri EXCEPT !.items = Reverse(@)], network) = ParsePaymentUri(uri, network)

\* The amount is the decimal number that is written, to the last zatoshi, and every such
\* number that is positive, within the supply and short enough is taken: the digits without
\* their dot, scaled by the places behind it (zip321.js:30-33).
AmountIsExact(s) ==
  LET dotted == Dot \in Range(s)
      digits == IF dotted THEN RemoveAt(s, FirstDot(s)) ELSE s
      places == IF dotted THEN Len(s) - FirstDot(s) ELSE 0
      worth  == Number(10, digits) * TenTo(Decimals - places)
      plain  == /\ Range(digits) \subseteq 0..9 /\ places <= Decimals /\ Len(s) <= MaxAmountLength
                /\ s # <<>> /\ s[1] # Dot /\ s[Len(s)] # Dot
  IN  /\ ValidAmount(s) <=> plain /\ worth \in 1..MaxMoney
      /\ ValidAmount(s) => Zatoshis(s) = worth
=============================================================================

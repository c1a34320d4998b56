----------------------------- MODULE JsonPrinter -----------------------------
(***************************************************************************)
(* JSON.stringify, with which signJws writes what strictJSON will read and *)
(* compact documents and records are compared (src/src/jws.js, index.js).  *)
(***************************************************************************)
EXTENDS StrictJson

\* The text without its spaces, and with each string and scalar by its meaning.
Meant(t) == IF t \in Strings \cup Scalars THEN Meaning[t] ELSE t
Plain(s) ==
  LET plain[n \in 0..Len(s)] ==
        IF n = 0 THEN <<>>
        ELSE plain[n - 1] \o IF s[n] = Space THEN <<>> ELSE <<Meant(s[n])>>
  IN  plain[Len(s)]

\* The texts in a row: `last` are the last n of them.
Separated(texts) ==
  LET last[n \in 0..Len(texts)] ==
        IF n = 0 THEN <<>>
        ELSE texts[Len(texts) - n + 1] \o IF n = 1 THEN <<>> ELSE <<Comma>> \o last[n - 1]
  IN  last[Len(texts)]

\* What is printed of the items of an array and of the members of an object.
ItemTexts(print, vs)   == [n \in DOMAIN vs |-> print[vs[n]]]
MemberTexts(print, ms) == [n \in DOMAIN ms |-> <<ms[n][1], Colon>> \o print[ms[n][2]]]

\* The values whose parts are in `inner`.
Values(inner) ==
  ({"atom"} \X {Meaning[t] : t \in Strings \cup Scalars})
    \cup ({"array"} \X Seq(inner)) \cup ({"object"} \X Seq(Names \X inner))

\* One call of the printer; `print` is what its recursive calls do.
Printing(print, v) ==
  CASE v[1] = "atom"   -> <<v[2]>>
    [] v[1] = "array"  -> <<BeginArray>> \o Separated(ItemTexts(print, v[2])) \o <<EndArray>>
    [] v[1] = "object" -> <<BeginObject>> \o Separated(MemberTexts(print, v[2])) \o <<EndObject>>

\* Printed[n] prints the values nested less than n deep.
Printed ==
  LET print[n \in 0..MaxDepth + 1] ==
        [v \in IF n = 0 THEN {} ELSE Values(DOMAIN print[n - 1]) |-> Printing(print[n - 1], v)]
  IN  print

\* JSON.stringify, of all that strictJSON returns.
Stringify(v) == Printed[MaxDepth + 1][v]

\* The value printed again is the text, spaces and spelling apart, which signJws and the
\* comparison of records rely on (jws.js:23-25, index.js:70-71).
SaysTheText(s) == \A v \in StrictJSON(s) : Stringify(v) = Plain(s)
=============================================================================

----------------------------- MODULE StrictJson -----------------------------
(***************************************************************************)
(* strictJSON of src/src/encoding.js, the parser every signed document and *)
(* every file of the operator goes through: recursive descent with its own *)
(* rules on duplicate keys, nesting and trailing text.                     *)
(*                                                                         *)
(* A text is a sequence of lexemes.  A string lexeme is one spelling of a  *)
(* string ("a" and "\u0061" are two of one string), a scalar one of a      *)
(* number or literal (1 and 1.0); Meaning is what JSON.parse and Number    *)
(* make of it, Unreadable if a string is malformed, unfinished or holds    *)
(* half a surrogate pair, or a number is not finite.  Keys are names: no   *)
(* document of the protocol has one that JavaScript takes for an index and *)
(* moves to the front.                                                     *)
(***************************************************************************)
EXTENDS Integers, Sequences

CONSTANTS
  Strings,      \* string lexemes
  Scalars,      \* number and literal lexemes
  Unreadable,   \* the meaning of a lexeme that throws
  Meaning,      \* Meaning[t]: what lexeme t spells
  MaxDepth      \* 32

\* Structural characters, and what is read past the end.
BeginObject == "{"
EndObject   == "}"
BeginArray  == "["
EndArray    == "]"
Colon       == ":"
Comma       == ","
Space       == " "
End         == "undefined"

ASSUME JsonAssumption ==
  /\ DOMAIN Meaning = Strings \cup Scalars /\ MaxDepth \in Nat
  /\ (Strings \cup Scalars) \cap
       {BeginObject, EndObject, BeginArray, EndArray, Colon, Comma, Space, End} = {}

\* A value; an object lists its members <<key, value>> in the order of the text.
Atom(x)    == <<"atom", x>>
Array(vs)  == <<"array", vs>>
Object(ms) == <<"object", ms>>

\* What a parsing function does: nothing if it throws, otherwise it returns a value and
\* leaves the position `next`.
Throw        == {}
Return(v, n) == {[value |-> v, next |-> n]}

\* input[i].
Char(s, i) == IF i <= Len(s) THEN s[i] ELSE End

Blank(s, i, j) == \A k \in i..j : s[k] = Space

\* Where ws() leaves i.
Ws(s, i) == CHOOSE j \in i..Len(s) + 1 : Blank(s, i, j - 1) /\ Char(s, j) # Space

\* A lexeme of one of those kinds: str(), or what is done with a literal or number.
Read(s, i, lexemes) ==
  IF Char(s, i) \in lexemes /\ Meaning[s[i]] # Unreadable
  THEN Return(Meaning[s[i]], i + 1) ELSE Throw

\* What is parsed next: a value, or what is left of an array or object, which has the keys
\* `used` already.
Names    == {Meaning[t] : t \in Strings}
Tasks(s) == [job : {"value", "elements", "members"}, at : 1..Len(s) + 1, depth : 0..MaxDepth + 1,
             used : SUBSET Names]
Task(job, i, depth) == [job |-> job, at |-> i, depth |-> depth, used |-> {}]

\* Mutant: nobody looks for duplicate keys.
AnyKey(used, key) == TRUE

NewKey(used, key) == key \notin used

-----------------------------------------------------------------------------
(* The parser.  `parse` is what its recursive calls do.                     *)

\* value(depth).
Value(parse, s, t) ==
  LET j == Ws(s, t.at)
      k == Ws(s, j + 1)
  IN  IF t.depth > MaxDepth THEN Throw
      ELSE IF Char(s, j) = BeginObject THEN
        IF Char(s, k) = EndObject THEN Return(Object(<<>>), k + 1)
        ELSE {[r EXCEPT !.value = Object(@)] : r \in parse[Task("members", k, t.depth + 1)]}
      ELSE IF Char(s, j) = BeginArray THEN
        IF Char(s, k) = EndArray THEN Return(Array(<<>>), k + 1)
        ELSE {[r EXCEPT !.value = Array(@)] : r \in parse[Task("elements", k, t.depth + 1)]}
      ELSE {[r EXCEPT !.value = Atom(@)] : r \in Read(s, j, Strings \cup Scalars)}

\* The end of a loop's body, after an item: it returns, or goes on with task t.
Loop(parse, s, item, i, close, t) ==
  LET end == Ws(s, i)
  IN  IF Char(s, end) = close THEN Return(<<item>>, end + 1)
      ELSE IF Char(s, end) = Comma THEN
        {[r EXCEPT !.value = <<item>> \o @] : r \in parse[[t EXCEPT !.at = Ws(s, end + 1)]]}
      ELSE Throw

\* The loop of an array.
Elements(parse, s, t) ==
  UNION {Loop(parse, s, v.value, v.next, EndArray, t) : v \in parse[Task("value", t.at, t.depth)]}

\* The loop of an object.
Members(parse, s, t) ==
  UNION {LET colon == Ws(s, key.next)
             more  == [t EXCEPT !.used = @ \cup {key.value}]
         IN  IF ~NewKey(t.used, key.value) \/ Char(s, colon) # Colon THEN Throw
             ELSE UNION {Loop(parse, s, <<key.value, v.value>>, v.next, EndObject, more) :
                           v \in parse[Task("value", colon + 1, t.depth)]}
         : key \in Read(s, t.at, Strings)}

Do(parse, s, t) ==
  CASE t.job = "value"    -> Value(parse, s, t)
    [] t.job = "elements" -> Elements(parse, s, t)
    [] t.job = "members"  -> Members(parse, s, t)

Parse(s) == LET parse[t \in Tasks(s)] == Do(parse, s, t) IN parse

\* Mutant: what follows the value is ignored.
StrictJSONPrefix(s) == {v.value : v \in Parse(s)[Task("value", 1, 0)]}

\* strictJSON: the value, or the empty set if it throws.
StrictJSON(s) ==
  {v.value : v \in {r \in Parse(s)[Task("value", 1, 0)] : Ws(s, r.next) = Len(s) + 1}}

-----------------------------------------------------------------------------
(* The reference: what JSON's grammar says a part of a text means, if       *)
(* anything, each object's keys distinct and nesting bounded.  Spaces may   *)
(* surround every value, key and punctuation mark.                          *)

\* s[from] to s[to] as a value, as the elements of an array, or as the members of an object
\* without the keys in `used`; `depth` counts the brackets around it.
Parts(s) == [kind : {"value", "elements", "members"}, from : 1..Len(s) + 1, to : 0..Len(s),
             depth : 0..MaxDepth + 1, used : SUBSET Names]
Part(kind, i, j, depth) == [kind |-> kind, from |-> i, to |-> j, depth |-> depth, used |-> {}]

Reads(t, lexemes) == t \in lexemes /\ Meaning[t] # Unreadable

\* Where a part begins and ends, spaces apart.
Starts(s, q) == {i \in q.from..q.to : s[i] # Space /\ Blank(s, q.from, i - 1)}
Stops(s, q)  == {j \in q.from..q.to : s[j] # Space /\ Blank(s, j + 1, q.to)}

\* What stands between an opening and a closing bracket.
Bracketed(means, s, q, open, close, kind) ==
  UNION {IF Blank(s, i + 1, j - 1) THEN {<<>>} ELSE means[Part(kind, i + 1, j - 1, q.depth + 1)]
         : i \in {i \in Starts(s, q) : s[i] = open}, j \in {j \in Stops(s, q) : s[j] = close}}

ValueMeans(means, s, q) ==
  IF q.depth > MaxDepth THEN {}
  ELSE {Atom(Meaning[s[i]]) :
          i \in {i \in Starts(s, q) \cap Stops(s, q) : Reads(s[i], Strings \cup Scalars)}}
       \cup {Array(vs) : vs \in Bracketed(means, s, q, BeginArray, EndArray, "elements")}
       \cup {Object(ms) : ms \in Bracketed(means, s, q, BeginObject, EndObject, "members")}

\* Where an item may end: before a comma or where the part ends; and what comes after it.
Cuts(s, q) == {k \in q.from..q.to + 1 : k = q.to + 1 \/ s[k] = Comma}
After(means, q, k) == IF k = q.to + 1 THEN {<<>>} ELSE means[[q EXCEPT !.from = k + 1]]

ElementsMean(means, s, q) ==
  UNION {{<<v>> \o vs : v \in means[Part("value", q.from, k - 1, q.depth)],
                        vs \in After(means, q, k)} : k \in Cuts(s, q)}

\* A member with its key at i and its colon at c.
MembersMean(means, s, q) ==
  UNION {LET key  == Meaning[s[i]]
             more == [q EXCEPT !.used = @ \cup {key}]
         IN  UNION {{<<<<key, v>>>> \o ms : v \in means[Part("value", c + 1, k - 1, q.depth)],
                                            ms \in After(means, more, k)} :
               c \in {c \in i + 1..q.to : s[c] = Colon /\ Blank(s, i + 1, c - 1)}, k \in Cuts(s, q)}
         : i \in {i \in Starts(s, q) : Reads(s[i], Strings) /\ Meaning[s[i]] \notin q.used}}

Means(means, s, q) ==
  CASE q.kind = "value"    -> ValueMeans(means, s, q)
    [] q.kind = "elements" -> ElementsMean(means, s, q)
    [] q.kind = "members"  -> MembersMean(means, s, q)

Meanings(s) == LET means[q \in Parts(s)] == Means(means, s, q) IN means

-----------------------------------------------------------------------------

\* Neither too strict nor too lax, nothing dropped, merged or invented: strictJSON returns
\* exactly what the grammar says the text means, which is nothing if an object repeats a key
\* - however the key is spelled - or a value is nested deeper than the limit or more text
\* follows (encoding.js:28-29,50,58,79; protocol.md:46-47).
MeansWhatItSays(s) == StrictJSON(s) = Meanings(s)[Part("value", 1, Len(s), 0)]
=============================================================================

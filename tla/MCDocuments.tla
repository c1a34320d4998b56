----------------------------- MODULE MCDocuments -----------------------------
(***************************************************************************)
(* Small inputs for Documents.                                             *)
(***************************************************************************)
EXTENDS Documents

CONSTANTS a1, a2, m1, m2, t1, t2, net, x, y, s1, s2

-----------------------------------------------------------------------------
(* JSON texts.                                                              *)

\* Two spellings of a string and of a number, half a surrogate pair, and a number that is
\* too large.
Spelled == [t \in {"a", "a_escaped", "b", "half", "1", "1.0", "1e999"} |->
              CASE t \in {"a", "a_escaped"} -> "a" [] t = "b" -> "b"
                [] t \in {"1", "1.0"} -> "1" [] OTHER -> Unreadable]

SomeLexemes == {"{", "}", "[", "]", ":", ",", Space} \cup Strings \cup Scalars

\* {"a":1,"b":[1]}, [[1],{}] and {"a":{"a":1}}: two levels deep, a key in two objects.
SomeTexts == {<<"{", "a", ":", "1", ",", "b", ":", "[", "1", "]", "}">>,
           <<"[", "[", "1", "]", ",", "{", "}", "]">>,
           <<"{", "a", ":", "{", "a", ":", "1", "}", "}">>}

-----------------------------------------------------------------------------
(* Values of the constants.                                                 *)

\* Characters that fill up to zero bits, or not, at the end of a text.
EdgeChars == {0, 1, 16, 63, Other}

\* Every kind of item, readable or not; 1 and 0 are amounts.
SomeItems ==
  {<<"address", a1>>, <<"address", a2>>, <<"amount", <<1>>>>, <<"amount", <<0>>>>,
   <<"memo", m1>>, <<"memo", m2>>, <<"memo", Nothing>>, <<"label", t1>>, <<"label", t2>>,
   <<"message", t1>>, <<"amount.1", <<1>>>>, <<"", Nothing>>}

OnlyOne == [n \in {net} |-> {a1}]

\* Sizes around each limit of the signers and verifiers; MaxProofSize is itself one.
Sizes == [invoice |-> {1000, 24420, 24421, 24440}, registration |-> {700, MaxProofSize},
          registry |-> {1000, 3145500, 3145600, 4194304, 4194305}]

EdgePayloads ==
  UNION {[shape : {p}, kid : {1, 64}, body : {x, y}, size : Sizes[p]] : p \in Purposes}

Keys1 == [k \in {x, y} |-> [publicKey |-> IF k = x THEN s1 ELSE s2, notBefore |-> 1,
                            expiresAt |-> 4]]
SomeFiles == {File(m1, {a1, a2}, Keys1, n) : n \in 1..2}

SomeRequests ==
  {[file |-> f, origin |-> o, kid |-> k, nonce |-> n, at |-> 2, revision |-> r] :
     f \in SomeFiles, o \in {a1, a2}, k \in {x, y}, n \in {t1, t2}, r \in {m1, m2}}

\* Approvals issued by hand: any time, any lifetime up to a day.
SomeApprovals ==
  {[merchantId |-> m1, kid |-> x, origin |-> a1, recordSha256 |-> f, challenge |-> t1,
    issuedAt |-> from, expiresAt |-> from + n] : f \in SomeFiles, from \in 0..4, n \in 1..DayLength}

UpTo5 == 0..5
=============================================================================

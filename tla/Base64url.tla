----------------------------- MODULE Base64url -----------------------------
(***************************************************************************)
(* b64 and unb64 of src/src/encoding.js.  A text is a sequence of          *)
(* characters, each the six bits it stands for, 0..63, or Other: padding,  *)
(* a blank, "+", "/".  Bytes are numbers below 256.                        *)
(***************************************************************************)
EXTENDS Numerals

Other == 64

\* Bit n, from 0, of a sequence of numbers of w bits, most significant first; 0 past its end.
Bit(s, w, n) ==
  LET k == n \div w + 1
  IN  IF k > Len(s) THEN 0 ELSE (s[k] \div 2^(w - 1 - (n % w))) % 2

\* The k-th group of w bits of s, whose numbers have v bits.
Group(s, v, w, k) == Number(2, [n \in 1..w |-> Bit(s, v, w * (k - 1) + n - 1)])

\* b64: the last character is filled up with zero bits, and there is no padding.
B64(bytes) == [k \in 1..((8 * Len(bytes) + 5) \div 6) |-> Group(bytes, 8, 6, k)]

\* atob drops the bits that do not fill a byte.
Atob(s) == [k \in 1..((6 * Len(s)) \div 8) |-> Group(s, 6, 8, k)]

\* Mutant: what was decoded is not encoded again and compared.
Unb64Lax(s) ==
  IF s = <<>> \/ Other \in {s[i] : i \in DOMAIN s} \/ Len(s) % 4 = 1 THEN {} ELSE {Atob(s)}

\* unb64: the bytes, or the empty set if it throws (the pattern does not match, atob
\* throws on a length that leaves one character over, or the text is not canonical).
Unb64(s) ==
  IF s = <<>> \/ Other \in {s[i] : i \in DOMAIN s} \/ Len(s) % 4 = 1 THEN {}
  ELSE {b \in {Atob(s)} : B64(b) = s}

-----------------------------------------------------------------------------

\* Bytes have one text: what is written is read back, and of all texts of a length no two
\* are accepted for the same bytes, so that what was signed cannot be transported in a
\* second spelling (protocol.md:41-42).
OneTextPerBytes(s, alphabet) ==
  /\ Unb64(B64(Atob(s))) = {Atob(s)} \/ Atob(s) = <<>>
  /\ \A c \in alphabet :
       LET u == [s EXCEPT ![Len(s)] = c]
       IN  u # s => Unb64(u) \cap Unb64(s) = {}
=============================================================================

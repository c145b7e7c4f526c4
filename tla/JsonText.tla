------------------------------ MODULE JsonText ------------------------------
(***************************************************************************)
(* The characters of a JSON text, and what json_tool.h does with them.  A  *)
(* text is a sequence of bytes; a byte is named by the character it is, or *)
(* by its number when it is not printable ("x08", "xC3").                  *)
(***************************************************************************)
EXTENDS Integers, Sequences

(* The characters of a TLA+ string, one by one.                            *)
Chars(s) == [i \in 1 .. Len(s) |-> SubSeq(s, i, i)]

Printable ==
  Chars(" !\"#$%&'()*+,-./0123456789:;<=>?@ABCDEFGHIJKLMNOPQRSTUVWXYZ[\\]^_")
    \o <<"x60">> \o Chars("abcdefghijklmnopqrstuvwxyz{|}~")

HexDigits == Chars("0123456789ABCDEF")

Char == [n \in 0 .. 255 |->
           CASE n \in 32 .. 126 -> Printable[n - 31]
             [] n = 9  -> "\t"
             [] n = 10 -> "\n"
             [] n = 12 -> "\f"
             [] n = 13 -> "\r"
             [] OTHER  -> "x" \o HexDigits[(n \div 16) + 1] \o HexDigits[(n % 16) + 1]]

Byte == {Char[n] : n \in 0 .. 255}
Code == [c \in Byte |-> CHOOSE n \in 0 .. 255 : Char[n] = c]
Nul == Char[0]

(* The characters the reader tells tokens by, but for the digits.          *)
Marks == {"{", "}", "[", "]", ",", ":", "\"", "/", "*", "-", "t", "f", "n"}

(* Characters that are written differently are different bytes.            *)
ASSUME CharacterAssumption ==
  /\ \A m \in 0 .. 255 : \A n \in 0 .. 255 : Char[m] = Char[n] => m = n
  /\ \A c \in Marks : \E n \in 33 .. 126 : Char[n] = c /\ n \notin 48 .. 57

(* What a C string holds of s: the bytes before the first NUL.             *)
CString(s) ==
  LET ends == {i \in DOMAIN s : s[i] = Nul}
  IN  IF ends = {} THEN s ELSE SubSeq(s, 1, (CHOOSE i \in ends : \A j \in ends : i <= j) - 1)

(* strcmp(a, b) < 0                                                        *)
StrLess(a, b) ==
  \E i \in 1 .. Len(b) :
    /\ i <= Len(a) + 1
    /\ SubSeq(a, 1, i - 1) = SubSeq(b, 1, i - 1)
    /\ i = Len(a) + 1 \/ Code[a[i]] < Code[b[i]]

isControlCharacter(c) == Code[c] \in 1 .. 31

Digit == {Char[n] : n \in 48 .. 57}
DigitValue(c) == Code[c] - 48

(* The nearest integer to n / d, the even one when two are as near.        *)
Nearest(n, d) ==
  LET quotient == n \div d
      rest == n % d
  IN  IF 2 * rest > d \/ (2 * rest = d /\ quotient % 2 = 1) THEN quotient + 1 ELSE quotient

TenTo[n \in Nat] == IF n = 0 THEN 1 ELSE 10 * TenTo[n - 1]

uintToString[n \in Nat] ==
  IF n < 10 THEN <<Char[48 + n]>> ELSE uintToString[n \div 10] \o <<Char[48 + (n % 10)]>>

(* The value of a hexadecimal digit of either case.                        *)
HexValue(c) ==
  IF c \in Digit THEN DigitValue(c)
                 ELSE 10 + (Code[c] - (IF Code[c] >= 97 THEN 97 ELSE 65))
HexDigit == Digit \cup {Char[n] : n \in (65 .. 70) \cup (97 .. 102)}

Continuation(n) == Char[128 + (n % 64)]

codePointToUTF8(cp) ==
  IF cp <= 127 THEN <<Char[cp]>>
  ELSE IF cp <= 2047 THEN <<Char[192 + (cp \div 64)], Continuation(cp)>>
  ELSE IF cp <= 65535
    THEN <<Char[224 + (cp \div 4096)], Continuation(cp \div 64), Continuation(cp)>>
  ELSE IF cp <= 1114111
    THEN <<Char[240 + (cp \div 262144)], Continuation(cp \div 4096),
           Continuation(cp \div 64), Continuation(cp)>>
  ELSE <<>>
=============================================================================

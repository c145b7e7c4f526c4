----------------------------- MODULE JsonWriter -----------------------------
(***************************************************************************)
(* Json::StyledStreamWriter, which operator<< uses: the text of a value    *)
(* without comments.                                                       *)
(***************************************************************************)
EXTENDS JsonValue

CONSTANTS
  rightMargin,  \* the length from which an array takes several lines
  Precision     \* the digits a double is printed with

ASSUME WriterAssumption == rightMargin \in Nat /\ Precision \in Nat \ {0}

Joined(parts, separator) ==
  FlattenSeq([i \in DOMAIN parts |-> IF i = 1 THEN parts[i] ELSE separator \o parts[i]])

-----------------------------------------------------------------------------
(* valueToString, by type.                                                 *)

IntegerToString(n) ==
  IF n < 0 THEN <<"-">> \o uintToString[-n] ELSE uintToString[n]

(* A number of Unit-ths in the last of Precision digits, when the first of *)
(* them stands for 10^x.                                                   *)
Significand(size, x) ==
  IF x < Precision THEN Nearest(size * TenTo[Precision - 1 - x], Unit)
                   ELSE Nearest(size, Unit * TenTo[x - (Precision - 1)])

(* The least x that leaves it that many digits; of a zero it is 0.         *)
Exponent(size) ==
  LET least == -Len(uintToString[Unit])
      exponents == {x \in least .. Len(uintToString[size \div Unit]) :
                      Significand(size, x) < TenTo[Precision]}
  IN  IF size = 0 THEN 0 ELSE CHOOSE x \in exponents : \A y \in exponents : x <= y

Zeros(n) == [i \in 1 .. n |-> "0"]
Padded(digits, width) == Zeros(width - Len(digits)) \o digits

(* The zeros at the end of a number without an exponent are cut off, but   *)
(* for the first.                                                          *)
Trimmed_Bare(s) == SubSeq(s, 1, Max({i \in DOMAIN s : s[i] \notin {"0", "."}} \cup {1}))
Trimmed(s) == SubSeq(s, 1, Min({Len(s), 1 + Max({i \in DOMAIN s : s[i] # "0"})}))

(* "%#.16g", whose 16 is Precision: the digits, the first of which stands  *)
(* for 10^x.                                                               *)
Pointed(digits, i) == SubSeq(digits, 1, i) \o <<".">> \o SubSeq(digits, i + 1, Len(digits))
Printed(digits, x) ==
  IF x \in -4 .. Precision - 1
    THEN Trimmed(IF x < 0 THEN Pointed(Zeros(-x) \o digits, 1) ELSE Pointed(digits, x + 1))
    ELSE Pointed(digits, 1) \o <<"e", IF x < 0 THEN "-" ELSE "+">>
           \o Padded(uintToString[IF x < 0 THEN -x ELSE x], 2)

Digits(size, x) == Printed(Padded(uintToString[Significand(size, x)], Precision), x)

RealToString(r) ==
  LET size == IF r < 0 THEN -r ELSE r
  IN  (IF r < 0 THEN <<"-">> ELSE <<>>)
        \o IF size > MaxReal THEN Chars("inf") ELSE Digits(size, Exponent(size))

Escaped(c) ==
  CASE c = "\"" -> <<"\\", "\"">>
    [] c = "\\" -> <<"\\", "\\">>
    [] c = Char[8]  -> <<"\\", "b">>
    [] c = Char[12] -> <<"\\", "f">>
    [] c = Char[10] -> <<"\\", "n">>
    [] c = Char[13] -> <<"\\", "r">>
    [] c = Char[9]  -> <<"\\", "t">>
    [] isControlCharacter(c) /\ Code[c] \notin {8, 9, 10, 12, 13} ->
         <<"\\", "u", "0", "0", HexDigits[(Code[c] \div 16) + 1], HexDigits[(Code[c] % 16) + 1]>>
    [] OTHER -> <<c>>

valueToQuotedString(s) ==
  <<"\"">> \o FlattenSeq([i \in DOMAIN CString(s) |-> Escaped(s[i])]) \o <<"\"">>

-----------------------------------------------------------------------------
(* The layout.                                                             *)

Line(depth) == <<"\n">> \o [i \in 1 .. depth |-> "\t"]

(* What pushValue is given: everything but a container with children.      *)
Pushed(v) ==
  CASE isNull(v)          -> Chars("null")
    [] Integer(v)         -> IntegerToString(v.num)
    [] v.type = "real"    -> RealToString(v.real)
    [] v.type = "string"  -> valueToQuotedString(v.str)
    [] v.type = "boolean" -> Chars(IF v.bool THEN "true" ELSE "false")
    [] isArray(v)         -> Chars("[]")
    [] isObject(v)        -> Chars("{}")

Children(v) == [i \in 1 .. Size(v) |-> Element(v, i - 1)]

isMultineArray(v) ==
  \/ Size(v) * 3 >= rightMargin
  \/ \E i \in 1 .. Size(v) : Size(Children(v)[i]) > 0
  \/ 4 + (Size(v) - 1) * 2
       + Len(FlattenSeq([i \in 1 .. Size(v) |-> Pushed(Children(v)[i])])) >= rightMargin

RECURSIVE writeValue(_, _)

writeArrayValue(v, depth) ==
  IF isMultineArray(v)
    THEN Line(depth) \o <<"[">>
           \o Joined([i \in 1 .. Size(v) |->
                        Line(depth + 1) \o writeValue(Children(v)[i], depth + 1)], <<",">>)
           \o Line(depth) \o <<"]">>
    ELSE Chars("[ ")
           \o Joined([i \in 1 .. Size(v) |-> Pushed(Children(v)[i])], Chars(", "))
           \o Chars(" ]")

writeObjectValue(v, depth) ==
  LET names == getMemberNames(v)
  IN  Line(depth) \o <<"{">>
        \o Joined([i \in DOMAIN names |->
                     Line(depth + 1) \o valueToQuotedString(names[i]) \o Chars(" : ")
                       \o writeValue(Member(v, names[i]), depth + 1)], <<",">>)
        \o Line(depth) \o <<"}">>

writeValue(v, depth) ==
  CASE Size(v) = 0                -> Pushed(v)
    [] Size(v) > 0 /\ isArray(v)  -> writeArrayValue(v, depth)
    [] Size(v) > 0 /\ isObject(v) -> writeObjectValue(v, depth)

Written(root) == writeValue(root, 0) \o <<"\n">>
=============================================================================

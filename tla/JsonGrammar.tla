----------------------------- MODULE JsonGrammar -----------------------------
(***************************************************************************)
(* What a text means, by recursion on its structure: a root value at its   *)
(* beginning, whatever follows it.  The language is the one Json::Reader   *)
(* accepts, which differs from JSON in four places: comments; no comment in*)
(* an empty array; a comma before the brace behind an empty name; behind a *)
(* member and a comment, any token for the comma.                          *)
(***************************************************************************)
EXTENDS JsonLexer

(* The tokens of the text, in order; the last is the end of the text.      *)
RECURSIVE TokensFrom(_)
TokensFrom(i) ==
  LET t == readToken(i)
  IN  IF t.start = End THEN <<t>> ELSE <<t>> \o TokensFrom(t.end)

Tokens == TokensFrom(1)
Type(T, i) == IF i <= Len(T) THEN T[i].type ELSE "end"
Solid(T, i) == IF \A j \in i .. Len(T) : T[j].type = "comment" THEN Len(T)
               ELSE CHOOSE j \in i .. Len(T) : /\ T[j].type # "comment"
                                               /\ \A k \in i .. j - 1 : T[k].type = "comment"

(* A number of digits only is that number: an integer if it has a type for *)
(* it and a double otherwise.                                              *)
IsDigits(t) == \A i \in t.start .. t.end - 1 : text[i] \in Digit \/ (i = t.start /\ text[i] = "-")
IsInteger(t) == t.type = "number" /\ IsDigits(t) /\ t.end - t.start > (IF text[t.start] = "-" THEN 1 ELSE 0)
Integer_(t) ==
  IF text[t.start] = "-" THEN -NumberAt(t.start + 1, t.end - 1) ELSE NumberAt(t.start, t.end - 1)
Scalar(t) ==
  IF IsInteger(t)
    THEN {CASE Integer_(t) \in minLargestInt .. maxInt -> IntValue(Integer_(t))
            [] Integer_(t) \in HalfWord .. maxLargestUInt -> UIntValue(Integer_(t))
            [] OTHER -> RealValue(Unit * Integer_(t))}
    ELSE Decoded(t)

RECURSIVE ValueAt(_, _), MembersAt(_, _, _, _), ElementsAt(_, _, _)

(* The value that starts at token i, with the token behind it; none if     *)
(* there is no value.                                                      *)
ValueAt(T, i) ==
  LET j == Solid(T, i)
  IN  CASE Type(T, j) = "{" -> MembersAt(T, j + 1, EmptyObject, <<>>)
        [] Type(T, j) = "[" -> IF Type(T, j + 1) = "]" THEN {<<EmptyArray, j + 2>>}
                                                       ELSE ElementsAt(T, j + 1, EmptyArray)
        [] OTHER -> {<<v, j + 1>> : v \in Scalar(T[j])}

(* The rest of an object, from a name or its brace on.                     *)
MembersAt(T, i, object, last) ==
  LET j == Solid(T, i)
      Behind(p, name) ==
        LET k == Solid(T, p[2])
            longer == WithMember(object, name, p[1])
        IN  IF Type(T, p[2]) \notin {",", "}", "comment"} THEN {}
            ELSE IF Type(T, k) = "}" THEN {<<longer, k + 1>>}
            ELSE MembersAt(T, k + 1, longer, name)
  IN  CASE Type(T, j) = "}" -> IF last = <<>> THEN {<<object, j + 1>>} ELSE {}
        [] Type(T, j) = "string" /\ Type(T, j + 1) = ":" ->
             UNION {Behind(p, name) : p \in ValueAt(T, j + 2), name \in decodeString(T[j])}
        [] OTHER -> {}

(* The rest of an array, from an element on.                               *)
ElementsAt(T, i, array) ==
  LET Behind(p) ==
        LET k == Solid(T, p[2])
            longer == AppendValue(array, p[1])
        IN  CASE Type(T, k) = "]" -> {<<longer, k + 1>>}
              [] Type(T, k) = "," -> ElementsAt(T, k + 1, longer)
              [] OTHER            -> {}
  IN  UNION {Behind(p) : p \in ValueAt(T, i)}

Meaning == {p[1] : p \in ValueAt(Tokens, 1)}
=============================================================================

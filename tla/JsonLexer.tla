------------------------------ MODULE JsonLexer ------------------------------
(***************************************************************************)
(* Json::Reader: the tokens of a text and the scalars they stand for.      *)
(***************************************************************************)
EXTENDS JsonValue

VARIABLE text     \* the document, begin_ .. end_

End == Len(text) + 1
CharAt(i) == IF i < End THEN text[i] ELSE Nul     \* c_str() ends in a NUL
After_PastEnd(i) == i + 1
After(i) == IF i < End THEN i + 1 ELSE i          \* getNextChar()

FirstFrom(i, Stop(_)) ==
  LET at == {j \in i .. Len(text) : Stop(text[j])}
  IN  IF at = {} THEN End ELSE CHOOSE j \in at : \A k \in at : j <= k

-----------------------------------------------------------------------------
(* readToken: the token's type, where it starts and where current_ is then.*)
(* The type of a punctuation mark is the mark.                             *)

skipSpaces(i) == FirstFrom(i, LAMBDA c : c \notin {" ", "\t", "\r", "\n"})

(* After the opening quote: behind the closing one, or 0.                  *)
readString[i \in 1 .. End] ==
  CASE i >= End                  -> 0
    [] i < End /\ text[i] = "\\" -> readString[After(i + 1)]
    [] i < End /\ text[i] = "\"" -> i + 1
    [] OTHER                     -> readString[i + 1]

readNumber(i) == FirstFrom(i, LAMBDA c : c \notin Digit \cup {".", "e", "E", "+", "-"})

CommentEnds(i) == {j \in i .. Len(text) - 1 : text[j] = "*" /\ text[j + 1] = "/"}
readCStyleComment(i) ==
  IF CommentEnds(i) = {} THEN 0
  ELSE 2 + CHOOSE j \in CommentEnds(i) : \A k \in CommentEnds(i) : j <= k
readCppStyleComment(i) == After(FirstFrom(i, LAMBDA c : c \in {"\r", "\n"}))
readComment(i) ==
  CASE CharAt(i) = "*" -> readCStyleComment(i + 1)
    [] CharAt(i) = "/" -> readCppStyleComment(i + 1)
    [] OTHER           -> 0

match(i, word) == IF IsPrefix(word, SubSeq(text, i, Len(text))) THEN i + Len(word) ELSE 0

Token(type, start, end) == [type |-> type, start |-> start, end |-> end]

(* Behind what an unfinished string or comment has swallowed.              *)
ErrorEnd(i) ==
  CASE CharAt(i) = "\"" -> End
    [] CharAt(i) = "/"  -> IF CharAt(i + 1) = "*" THEN End ELSE After(i + 1)
    [] OTHER            -> After(i)

readToken(from) ==
  LET i == skipSpaces(from)
      c == CharAt(i)
      OrError(type, end) == IF end = 0 THEN Token("error", i, ErrorEnd(i)) ELSE Token(type, i, end)
  IN  CASE c \in {"{", "}", "[", "]", ",", ":"} -> Token(c, i, i + 1)
        [] c = "\""                -> OrError("string", readString[i + 1])
        [] c = "/"                 -> OrError("comment", readComment(i + 1))
        [] c \in Digit \cup {"-"}  -> Token("number", i, readNumber(i))
        [] c = "t"                 -> OrError("true", match(i, <<"t", "r", "u", "e">>))
        [] c = "f"                 -> OrError("false", match(i, <<"f", "a", "l", "s", "e">>))
        [] c = "n"                 -> OrError("null", match(i, <<"n", "u", "l", "l">>))
        [] c = Nul                 -> Token("end", i, After(i))
        [] OTHER                   -> Token("error", i, i + 1)

(* skipCommentTokens: the next token that is no comment.                   *)
skipCommentTokens[from \in 1 .. End] ==
  LET t == readToken(from)
  IN  IF t.type = "comment" THEN skipCommentTokens[t.end] ELSE t

-----------------------------------------------------------------------------
(* The decoding of scalars: the set of results, empty for an error.        *)

(* The digits from i to j as a number.                                     *)
NumberAt(i, j) ==
  LET value[k \in i - 1 .. j] == IF k < i THEN 0 ELSE 10 * value[k - 1] + DigitValue(text[k])
  IN  value[j]

(* sscanf("%lf"): the double nearest to the longest prefix that is a       *)
(* number, if there is one; an infinity, if it is past the largest.        *)
decodeDouble(t) ==
  LET first == IF text[t.start] = "-" THEN t.start + 1 ELSE t.start
      stop(i) == Min({j \in i .. t.end : j = t.end \/ text[j] \notin Digit})
      point == stop(first)
      hasPoint == point < t.end /\ text[point] = "."
      mantissa == IF hasPoint THEN stop(point + 1) ELSE point
      places == IF hasPoint THEN mantissa - point - 1 ELSE 0
      sign == IF mantissa < t.end - 1 /\ text[mantissa] \in {"e", "E"}
                /\ text[mantissa + 1] \in {"+", "-"} THEN mantissa + 1 ELSE mantissa
      hasExponent == mantissa < t.end /\ text[mantissa] \in {"e", "E"}
      exponent == IF hasExponent THEN NumberAt(sign + 1, stop(sign + 1) - 1) ELSE 0
      digits == NumberAt(first, point - 1) * TenTo[places]
                  + (IF hasPoint THEN NumberAt(point + 1, mantissa - 1) ELSE 0)
      size == IF hasExponent /\ text[sign] = "-"
                THEN Nearest(digits * Unit, TenTo[places + exponent])
                ELSE Nearest(digits * Unit * TenTo[exponent], TenTo[places])
  IN  IF mantissa - first = (IF hasPoint THEN 1 ELSE 0) THEN {}
      ELSE {RealValue(IF first = t.start THEN size ELSE -size)}

(* Digits are taken while they fit; the first that does not makes the      *)
(* number a double.                                                        *)
Overflows_LastUnchecked(value, digit, last, max) ==
  value >= max \div 10 /\ (value > max \div 10 \/ ~last)
Overflows(value, digit, last, max) ==
  /\ value >= max \div 10
  /\ value > max \div 10 \/ ~last \/ digit > max % 10

decodeNumber(t) ==
  LET negative == text[t.start] = "-"
      first == IF negative THEN t.start + 1 ELSE t.start
      isDouble_ == \E i \in t.start .. t.end - 1 :
                     text[i] \in {".", "e", "E", "+"} \/ (text[i] = "-" /\ i # t.start)
      max == IF negative THEN HalfLong ELSE maxLargestUInt
      value == NumberAt(first, t.end - 1) % (2 * HalfLong)
  IN  IF isDouble_ \/ \E i \in first .. t.end - 1 :
           Overflows(NumberAt(first, i - 1), DigitValue(text[i]), i = t.end - 1, max)
        THEN decodeDouble(t)
        ELSE {IF negative THEN IntValue(-value)
              ELSE IF value <= maxInt THEN IntValue(value) ELSE UIntValue(value)}

(* The four hexadecimal digits from i on, in a string that ends before end.*)
decodeUnicodeEscapeSequence(i, end) ==
  IF end - i >= 4 /\ \A j \in i .. i + 3 : text[j] \in HexDigit
    THEN {4096 * HexValue(text[i]) + 256 * HexValue(text[i + 1])
            + 16 * HexValue(text[i + 2]) + HexValue(text[i + 3])}
    ELSE {}

(* The code point and its length in the text; two halves make one.         *)
decodeUnicodeCodePoint(i, end) ==
  UNION {IF unit \notin 55296 .. 56319 THEN {<<unit, 4>>}
         ELSE IF end - i < 10 \/ text[i + 4] # "\\" \/ text[i + 5] # "u" THEN {}
         ELSE {<<65536 + 1024 * (unit % 1024) + (low % 1024), 10>> :
                 low \in decodeUnicodeEscapeSequence(i + 6, end)} :
           unit \in decodeUnicodeEscapeSequence(i, end)}

Escape(c) == CASE c = "b" -> Char[8]
               [] c = "f" -> Char[12]
               [] c = "n" -> Char[10]
               [] c = "r" -> Char[13]
               [] c = "t" -> Char[9]
               [] OTHER   -> c

Before(c, strings) == {c \o s : s \in strings}

decodeChars(start, end) ==
  LET rest[i \in start .. End] ==
        IF i >= end THEN {<<>>}
        ELSE IF text[i] # "\\" THEN Before(<<text[i]>>, rest[i + 1])
        ELSE IF i + 1 >= end THEN {}
        ELSE IF text[i + 1] = "u"
          THEN UNION {Before(codePointToUTF8(p[1]), rest[i + 2 + p[2]]) :
                        p \in decodeUnicodeCodePoint(i + 2, end)}
        ELSE IF text[i + 1] \in {"\"", "/", "\\", "b", "f", "n", "r", "t"}
          THEN Before(<<Escape(text[i + 1])>>, rest[i + 2])
        ELSE {}
  IN  rest[start]

decodeString(t) == decodeChars(t.start + 1, t.end - 1)

Decoded(t) ==
  CASE t.type = "number" -> decodeNumber(t)
    [] t.type = "string" -> {StringValue(s) : s \in decodeString(t)}
    [] t.type = "true"   -> {BooleanValue(TRUE)}
    [] t.type = "false"  -> {BooleanValue(FALSE)}
    [] t.type = "null"   -> {NullValue}
    [] OTHER             -> {}
=============================================================================

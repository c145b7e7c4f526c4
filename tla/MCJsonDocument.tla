--------------------------- MODULE MCJsonDocument ---------------------------
(* A small instance of JsonDocument for TLC: words of 0 .. 15, long words  *)
(* of 0 .. 63, doubles in quarters and up to 149.75.                       *)
EXTENDS JsonDocument

(* All the texts of up to four tokens, and those in the middle of objects  *)
(* and arrays.                                                             *)
TextTokens == {"{", "}", "[", "]", ",", ":", "\"\"", "\"a\"", "1", "/**/", "t"}
Concatenated(parts) == FlattenSeq([i \in DOMAIN parts |-> Chars(parts[i])])
Short == UNION {[1 .. n -> TextTokens] : n \in 1 .. 3}
Middles == {<<first>> \o rest : first \in {"{\"a\":1", "[[1]", "{\"\":", "[{", "[1,", "{\"a\":1,"}, rest \in Short}

(* All the numbers of up to four characters, of three with an exponent.    *)
Numbers == UNION {[1 .. n -> {"-", "1", "3", "6", "."}] : n \in 1 .. 4}
             \cup [1 .. 3 -> {"-", "1", "6", ".", "e"}]

(* Strings and the rest of the notation.                                   *)
Notation == {
  <<"\"", "\\", "u", "0", "0", "e", "9", "\\", "u", "D", "8", "3", "d", "\\", "u", "d", "E", "0", "0", "\"">>,
  Chars("\"\\ud83d\\u0041\""), Chars("\"\\ud83d\""), Chars("\"\\u0041\\u12g4\""), Chars("[\"\\x\", 1]"),
  Chars("\"\\\"\\\\\\/\\b\\f\\n\\r\\t\\u0001\\u001f\""), Chars("{\"a\\u0000b\" : 1, \"a\" : [2]}"),
  <<"\"", "x01", "x7F", "xC3", "xA9", "\"">>, <<"[", "1", "xFF", "]">>, <<"1", "x00", "2">>,
  Chars("{ // a comment\n \"b\" : /* and another */ true /**/ , \"a\" : null }"),
  Chars("[ /* only a comment */ ]"), Chars("[ {\"a\":1 \"b\" ] } , 2 ]"), Chars("[tru, {}]"), Chars("/* open"),
  Chars("[{\"a\":[1,2,\"x\"]}, [[],[[]]], {}]"), Chars("[111,111,111,111,111,111,111,11]"),
  Chars("[1,2,3,4,5,6,7,8,9,1,2,3]"), Chars("-31.0"), Chars("63.0"), Chars("63.75"), Chars("7.25"),
  Chars("-0.75"), Chars("1e1"), Chars("16e-1"), Chars("1E+1"), Chars("149.75"),
  Chars("[0.1, 0.125, 9.87, 16.25, 9875e-2, -99.75, 1.0e2]"), Chars("{\"a\" : -1e3, \"b\" : 600.0}"), Chars("\"open"), Chars("false"),
  Chars("{\"model\" : 1}"), Chars("[\"model\"]")}

Texts == {Concatenated(parts) : parts \in Middles \cup Short \cup Numbers} \cup Notation

(* An empty file, a blank one, an object without and one with the model.   *)
OperatorFiles == {<<>>, <<"\n">>, Chars("{\"note\" : [1, 16.25]}")}

PacketLengths == {<<>>, [n \in {3} |-> 15], [n \in {0, 15} |-> 1]}
HostTimes == {<<>>, [h \in {15} |-> [n \in {63} |-> 9]],
              [h \in {2, 10} |-> [n \in {32} |-> h]]}
=============================================================================

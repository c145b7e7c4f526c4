----------------------------- MODULE JsonValue -----------------------------
(***************************************************************************)
(* Json::Value: the tree the reader builds, the handlers fill and read,    *)
(* and the writer prints.  Int and UInt are words, LargestInt and          *)
(* LargestUInt longs, of any width.  A double is a number of Unit-ths, or  *)
(* an infinity, which is a number past the largest.                        *)
(*                                                                         *)
(* A conversion returns the set of its possible results: none when it      *)
(* throws, every value of the type when C++ leaves the result undefined.   *)
(***************************************************************************)
EXTENDS JsonText, SequencesExt

CONSTANTS
  HalfWord,  \* 2^31
  HalfLong,  \* 2^63
  Unit,      \* resolution of a double
  MaxReal    \* the largest finite double, in Unit-ths

ASSUME JsonAssumption ==
  /\ HalfWord \in Nat \ {0}
  /\ HalfLong \in Nat /\ HalfLong > 2 * HalfWord /\ HalfLong >= 10
  /\ Unit \in Nat \ {0}
  /\ MaxReal \in Nat /\ MaxReal >= Unit * (2 * HalfLong)

minInt == -HalfWord
maxInt == HalfWord - 1
maxUInt == 2 * HalfWord - 1
minLargestInt == -HalfLong
maxLargestInt == HalfLong - 1
maxLargestUInt == 2 * HalfLong - 1

-----------------------------------------------------------------------------
ValueType == {"null", "int", "uint", "real", "string", "boolean", "array", "object"}

(* A double is not as fine as a long integer: next to the largest long     *)
(* integers it is the power of two behind them.                            *)
Rounded(r) ==
  CASE r \in {Unit * maxLargestInt, Unit * maxLargestUInt}   -> r + Unit
    [] -r \in {Unit * maxLargestInt, Unit * maxLargestUInt} -> r - Unit
    [] OTHER -> r

Infinity == Unit * (MaxReal + 1)

OrInfinity(r) ==
  IF r > MaxReal THEN Infinity ELSE IF -r > MaxReal THEN -Infinity ELSE r

(* The constructors; an array maps indices, an object keys, to values.     *)
NullValue == [type |-> "null"]
IntValue(n) == [type |-> "int", num |-> n]
UIntValue(n) == [type |-> "uint", num |-> n]
RealValue(r) == [type |-> "real", real |-> OrInfinity(Rounded(r))]
StringValue(s) == [type |-> "string", str |-> CString(s)]
BooleanValue(b) == [type |-> "boolean", bool |-> b]
ArrayValue(elems) == [type |-> "array", elems |-> elems]
ObjectValue(members) == [type |-> "object", members |-> members]

EmptyArray == ArrayValue(<<>>)
EmptyObject == ObjectValue(<<>>)

isNull(v) == v.type = "null"
isArray(v) == v.type = "array"
isObject(v) == v.type = "object"

(* What operator[] asserts of its object before it uses an index or a key. *)
Indexable(v) == v.type \in {"null", "array"}
Keyed(v) == v.type \in {"null", "object"}

With(f, k, v) == [x \in DOMAIN f \cup {k} |-> IF x = k THEN v ELSE f[x]]
Elements(v) == IF isArray(v) THEN v.elems ELSE <<>>
Members(v) == IF isObject(v) THEN v.members ELSE <<>>

(* size(): of an array the highest index plus one, whatever is missing     *)
(* below it.                                                               *)
Size(v) ==
  CASE isArray(v) /\ DOMAIN v.elems # {} ->
         1 + (CHOOSE i \in DOMAIN v.elems : \A j \in DOMAIN v.elems : j <= i)
    [] isObject(v) -> Cardinality(DOMAIN v.members)
    [] OTHER -> 0

(* The const operator[]: null for what is not there.                       *)
Element(v, i) == IF i \in DOMAIN Elements(v) THEN v.elems[i] ELSE NullValue
Member(v, key) ==
  IF CString(key) \in DOMAIN Members(v) THEN v.members[CString(key)] ELSE NullValue

(* The other operator[], and an assignment to the reference it returns: a  *)
(* null becomes an array or an object.                                     *)
WithElement(v, i, x) == ArrayValue(With(Elements(v), i, x))
WithMember(v, key, x) == ObjectValue(With(Members(v), CString(key), x))

AppendValue(v, x) == WithElement(v, Size(v), x)

(* The keys in the order of the map.                                       *)
getMemberNames(v) == SetToSortSeq(DOMAIN Members(v), StrLess)

-----------------------------------------------------------------------------
(* Numbers.                                                                *)
Integer(v) == v.type \in {"int", "uint"}

Double(n) == Rounded(Unit * n)
Truncated(r) == IF r >= 0 THEN r \div Unit ELSE -((-r) \div Unit)
IsIntegral(r) == r % Unit = 0
InRange(r, min, max) == Double(min) <= r /\ r <= Double(max)

isInt(v) ==
  \/ Integer(v) /\ v.num \in minInt .. maxInt
  \/ v.type = "real" /\ InRange(v.real, minInt, maxInt) /\ IsIntegral(v.real)
isUInt(v) ==
  \/ Integer(v) /\ v.num \in 0 .. maxUInt
  \/ v.type = "real" /\ InRange(v.real, 0, maxUInt) /\ IsIntegral(v.real)
isInt64(v) ==
  \/ Integer(v) /\ v.num <= maxLargestInt
  \/ /\ v.type = "real" /\ IsIntegral(v.real)
     /\ Double(minLargestInt) <= v.real /\ v.real < Double(maxLargestInt)
isUInt64(v) ==
  \/ Integer(v) /\ v.num >= 0
  \/ /\ v.type = "real" /\ IsIntegral(v.real)
     /\ 0 <= v.real /\ v.real < Double(maxLargestUInt)
isDouble(v) == v.type = "real" \/ isInt64(v) \/ isUInt64(v)

(* A cast of a double outside the type is undefined behaviour.             *)
Cast(n, min, max) == IF n \in min .. max THEN {n} ELSE min .. max

Converted(v, fits, min, max) ==
  CASE Integer(v)           -> IF fits THEN {v.num} ELSE {}
    [] v.type = "real"      -> IF InRange(v.real, min, max)
                                 THEN Cast(Truncated(v.real), min, max) ELSE {}
    [] v.type = "null"      -> {0}
    [] v.type = "boolean"   -> {IF v.bool THEN 1 ELSE 0}
    [] OTHER                -> {}

asInt(v) == Converted(v, isInt(v), minInt, maxInt)
asUInt(v) == Converted(v, isUInt(v), 0, maxUInt)
asLargestInt(v) == Converted(v, isInt64(v), minLargestInt, maxLargestInt)
asLargestUInt(v) == Converted(v, isUInt64(v), 0, maxLargestUInt)

asDouble(v) ==
  CASE Integer(v)         -> {Double(v.num)}
    [] v.type = "real"    -> {v.real}
    [] v.type = "null"    -> {0}
    [] v.type = "boolean" -> {IF v.bool THEN Unit ELSE 0}
    [] OTHER              -> {}

asBool(v) ==
  CASE v.type = "boolean" -> {v.bool}
    [] v.type = "string" \/ isArray(v) \/ isObject(v) -> {}
    [] OTHER              -> {asDouble(v) # {0}}

isConvertibleTo(v, type) ==
  CASE type = "null" ->
         \/ isDouble(v) /\ asDouble(v) = {0}
         \/ v.type = "boolean" /\ ~v.bool
         \/ v.type = "string" /\ v.str = <<>>
         \/ v.type \in {"array", "object"} /\ Size(v) = 0
         \/ isNull(v)
    [] type = "int" -> \/ isInt(v)
                       \/ v.type = "real" /\ InRange(v.real, minInt, maxInt)
                       \/ v.type \in {"boolean", "null"}
    [] type = "uint" -> \/ isUInt(v)
                        \/ v.type = "real" /\ InRange(v.real, 0, maxUInt)
                        \/ v.type \in {"boolean", "null"}
    [] type \in {"real", "boolean"} -> isDouble(v) \/ v.type \in {"boolean", "null"}
    [] type = "string" -> isDouble(v) \/ v.type \in {"boolean", "string", "null"}
    [] type \in {"array", "object"} -> v.type \in {type, "null"}
=============================================================================

----------------------------- MODULE JsonReader -----------------------------
(***************************************************************************)
(* Json::Reader: parse() of a text, a token at a time, with comments       *)
(* allowed and not collected.  The C++ call stack of readValue, readObject *)
(* and readArray is the pair nodes, calls; pc says which of them goes on.  *)
(***************************************************************************)
EXTENDS JsonLexer

VARIABLES
  current,  \* current_: position of the next character
  nodes,    \* nodes_: the values being read, the root first
  calls,    \* readObject and readArray in progress: which, and the child's place
  pc,       \* where the innermost call stands
  ok,       \* what the call that has just ended returned
  errors,   \* length of errors_
  steps     \* history: tokens read and returns in this parse

readerVars == <<text, current, nodes, calls, pc, ok, errors, steps>>

-----------------------------------------------------------------------------
(* The calls.                                                              *)

Location == {"value", "member", "separator", "item", "recover", "return", "done"}

(* readObject holds the name of its last member, readArray its index.      *)
CallType == [fn : {"object"}, name : Seq(Byte)] \cup [fn : {"array"}, index : Nat]

(* A value whose number fits its type.                                     *)
Fits(v) ==
  /\ v.type \in ValueType
  /\ v.type = "int" => v.num \in minLargestInt .. maxLargestInt
  /\ v.type = "uint" => v.num \in 0 .. maxLargestUInt
  /\ v.type = "real" => v.real \in Int
  /\ v.type = "boolean" => v.bool \in BOOLEAN

ReaderTypeOK ==
  /\ text \in Seq(Byte)
  /\ current \in 1 .. End
  /\ nodes \in Seq(Range(nodes))
  /\ \A i \in DOMAIN nodes : Fits(nodes[i])
  /\ calls \in Seq(CallType)
  /\ pc \in Location
  /\ ok \in BOOLEAN
  /\ errors \in Nat
  /\ steps \in Nat

Top == nodes[Len(nodes)]
SetTop(v) == [nodes EXCEPT ![Len(nodes)] = v]
Call == calls[Len(calls)]
InObject == Call.fn = "object"

(* No Reader is alive.                                                     *)
Idle ==
  /\ text = <<>> /\ current = 1 /\ nodes = <<NullValue>> /\ calls = <<>>
  /\ pc = "done" /\ ok = TRUE /\ errors = 0 /\ steps = 0

(* parse(): a new root, an empty stack, no errors.                         *)
Parsing(document) ==
  /\ text' = document
  /\ current' = 1
  /\ nodes' = <<NullValue>>
  /\ calls' = <<>>
  /\ pc' = "value"
  /\ ok' = TRUE
  /\ errors' = 0
  /\ steps' = 0

(* The Reader and its root are gone.                                       *)
Released ==
  /\ pc = "done"
  /\ text' = <<>> /\ current' = 1 /\ nodes' = <<NullValue>> /\ calls' = <<>>
  /\ pc' = "done" /\ ok' = TRUE /\ errors' = 0 /\ steps' = 0

(* A call ends with result; pc then says that its caller goes on.          *)
Return_AlwaysTrue(result) == pc' = "return" /\ ok' = TRUE
Return(result) == pc' = "return" /\ ok' = result
AddError == errors' = errors + 1
AddErrorAndRecover_Silent == UNCHANGED errors /\ pc' = "recover"
AddErrorAndRecover == AddError /\ pc' = "recover"

(* The next child of the innermost container is read: of an object what it *)
(* holds under that name already, if it does.                              *)
PushMember(name) ==
  /\ calls' = [calls EXCEPT ![Len(calls)].name = name]
  /\ nodes' = SetTop(WithMember(Top, name, Member(Top, name))) \o <<Member(Top, name)>>
  /\ pc' = "value"

PushElement(index) ==
  /\ calls' = [calls EXCEPT ![Len(calls)].index = index]
  /\ nodes' = SetTop(WithElement(Top, index, NullValue)) \o <<NullValue>>
  /\ pc' = "value"

ReadObjectBegin ==
  /\ pc = "value"
  /\ LET t == skipCommentTokens[current]
     IN  t.type = "{" /\ current' = t.end
  /\ nodes' = SetTop(EmptyObject)
  /\ calls' = Append(calls, [fn |-> "object", name |-> <<>>])
  /\ pc' = "member"
  /\ UNCHANGED <<text, ok, errors>>

(* Only spaces may stand before the bracket that closes an empty array.    *)
ReadArrayBegin ==
  /\ pc = "value"
  /\ LET t == skipCommentTokens[current]
         inside == skipSpaces(t.end)
     IN  /\ t.type = "["
         /\ IF CharAt(inside) = "]"
              THEN /\ current' = inside + 1
                   /\ nodes' = SetTop(EmptyArray)
                   /\ Return(TRUE)
                   /\ UNCHANGED calls
              ELSE /\ current' = inside
                   /\ nodes' = SetTop(WithElement(EmptyArray, 0, NullValue)) \o <<NullValue>>
                   /\ calls' = Append(calls, [fn |-> "array", index |-> 0])
                   /\ pc' = "value"
                   /\ UNCHANGED ok
  /\ UNCHANGED <<text, errors>>

(* A scalar, or a token that starts no value.                              *)
ReadScalar ==
  /\ pc = "value"
  /\ LET t == skipCommentTokens[current]
     IN  /\ t.type \notin {"{", "["}
         /\ current' = t.end
         /\ \/ /\ \E v \in Decoded(t) : nodes' = SetTop(v)
               /\ Return(TRUE)
               /\ UNCHANGED errors
            \/ /\ Decoded(t) = {}
               /\ AddError
               /\ Return(FALSE)
               /\ UNCHANGED nodes
  /\ UNCHANGED <<text, calls>>

(* readObject ends, or reads a name and a colon and goes on to the value.  *)
(* The brace is also taken behind a comma when the last name was empty.    *)
ReadMember ==
  /\ pc = "member"
  /\ LET t == skipCommentTokens[current]
         colon == readToken(t.end)
     IN  \/ /\ t.type = "}" /\ Call.name = <<>>
            /\ current' = t.end
            /\ calls' = Front(calls)
            /\ Return(TRUE)
            /\ UNCHANGED <<nodes, errors>>
         \/ /\ \/ t.type \notin {"}", "string"}
               \/ t.type = "}" /\ Call.name # <<>>
               \/ t.type = "string" /\ decodeString(t) = {}
            /\ current' = t.end
            /\ AddErrorAndRecover
            /\ UNCHANGED <<nodes, calls, ok>>
         \/ /\ t.type = "string"
            /\ current' = colon.end
            /\ \E name \in decodeString(t) :
                 IF colon.type = ":"
                   THEN PushMember(name) /\ UNCHANGED <<ok, errors>>
                   ELSE AddErrorAndRecover /\ UNCHANGED <<nodes, calls, ok>>
  /\ UNCHANGED text

(* Behind a member: what follows a comment is taken for a comma.           *)
ReadSeparator ==
  /\ pc = "separator"
  /\ LET first == readToken(current)
         t == skipCommentTokens[current]
     IN  \/ /\ first.type \notin {"}", ",", "comment"}
            /\ current' = first.end
            /\ AddErrorAndRecover
            /\ UNCHANGED <<calls, ok>>
         \/ /\ first.type \in {"}", ",", "comment"}
            /\ current' = t.end
            /\ IF t.type = "}"
                 THEN calls' = Front(calls) /\ Return(TRUE)
                 ELSE pc' = "member" /\ UNCHANGED <<calls, ok>>
            /\ UNCHANGED errors
  /\ UNCHANGED <<text, nodes>>

(* Behind an element.                                                      *)
ReadItem ==
  /\ pc = "item"
  /\ LET t == skipCommentTokens[current]
     IN  /\ current' = t.end
         /\ \/ /\ t.type = "," /\ PushElement(Call.index + 1)
               /\ UNCHANGED <<ok, errors>>
            \/ /\ t.type = "]"
               /\ calls' = Front(calls)
               /\ Return(TRUE)
               /\ UNCHANGED <<nodes, errors>>
            \/ /\ t.type \notin {",", "]"}
               /\ AddErrorAndRecover
               /\ UNCHANGED <<nodes, calls, ok>>
  /\ UNCHANGED text

SkipsUntil_Bracket(type) == type = IF InObject THEN "}" ELSE "]"
SkipsUntil(type) == type \in {"end", IF InObject THEN "}" ELSE "]"}

(* recoverFromError: tokens are skipped to the end of the container.       *)
Recover ==
  /\ pc = "recover"
  /\ LET t == readToken(current)
     IN  /\ current' = t.end
         /\ IF SkipsUntil(t.type)
              THEN calls' = Front(calls) /\ Return(FALSE)
              ELSE UNCHANGED <<calls, pc, ok>>
  /\ UNCHANGED <<text, nodes, errors>>

(* readValue has returned to the container, which has the child in place.  *)
ReturnToContainer ==
  /\ pc = "return" /\ calls # <<>>
  /\ LET container == nodes[Len(nodes) - 1]
     IN  nodes' = Append(SubSeq(nodes, 1, Len(nodes) - 2),
                         IF InObject THEN WithMember(container, Call.name, Top)
                                     ELSE WithElement(container, Call.index, Top))
  /\ pc' = IF ~ok THEN "recover" ELSE IF InObject THEN "separator" ELSE "item"
  /\ UNCHANGED <<text, current, calls, ok, errors>>

(* The root has been read; whatever follows it is not looked at.           *)
ReturnToParse ==
  /\ pc = "return" /\ calls = <<>>
  /\ current' = skipCommentTokens[current].end
  /\ pc' = "done"
  /\ UNCHANGED <<text, nodes, calls, ok, errors>>

ReaderStep ==
  /\ \/ ReadObjectBegin \/ ReadArrayBegin \/ ReadScalar \/ ReadMember
     \/ ReadSeparator \/ ReadItem \/ Recover \/ ReturnToContainer \/ ReturnToParse
  /\ steps' = steps + 1

(* The Readers of a program, one after the other, each with a text of its  *)
(* own.                                                                    *)
ReaderNext ==
  \/ Idle /\ \E document \in Seq(Byte) : Parsing(document)
  \/ ReaderStep
  \/ Released

ReaderSpec == Idle /\ [][ReaderNext]_readerVars
-----------------------------------------------------------------------------
(* Why the reader can be trusted: what holds at every step.                *)

Holds(v, call) == IF call.fn = "object" THEN CString(call.name) \in DOMAIN v.members
                                        ELSE call.index \in DOMAIN v.elems

Descended == pc \in {"value", "return", "done"}   \* the top node is being read

(* nodes_ and the C++ calls stay in step: below the value being read stand *)
(* the containers of the calls in progress, each with the child in place.  *)
StackInv ==
  /\ Len(nodes) = Len(calls) + (IF Descended THEN 1 ELSE 0)
  /\ pc \in {"member", "separator", "item", "recover"} => calls # <<>>
  /\ pc \in {"member", "separator"} => InObject
  /\ pc = "item" => ~InObject
  /\ pc = "done" => calls = <<>>
  /\ \A i \in DOMAIN calls :
       /\ nodes[i].type = calls[i].fn
       /\ i < Len(nodes) => Holds(nodes[i], calls[i])

(* A parse reports at most one error: after the first, every call returns  *)
(* false, and skipping tokens adds none.                                   *)
ErrorInv ==
  /\ errors \in {0, 1}
  /\ (errors = 0) <=> (ok /\ pc # "recover")
  /\ ~ok => pc \in {"recover", "return", "done"}

(* The invariant of the reader: the types, with numbers that fit in every  *)
(* value on the stack, and the two above.                                  *)
ReaderInv == ReaderTypeOK /\ StackInv /\ ErrorInv

(* A bound on the steps that are left: a token read, a container left or a *)
(* return to one brings it down.                                           *)
Rank == [value |-> 4, return |-> 3, item |-> 2, separator |-> 2, member |-> 2,
         recover |-> 1, done |-> 0]
StepsLeft == 4 * (End - current) + (3 * Len(calls) + Rank[pc])

(* parse() ends on every text, after no more steps than four for each      *)
(* character: a token is never taken twice, and at the end of the text     *)
(* recoverFromError leaves one container after the other.  (It is never    *)
(* stuck before: that would be a deadlock.)                                *)
ParseEnds == steps + StepsLeft <= 4 * Len(text) + 4

(* The conversions (asUInt, asLargestUInt and the others) never give a     *)
(* number other than the one that was read, in words and long words: what  *)
(* does not fit throws, as isConvertibleTo foretells.  Undefined are the   *)
(* doubles 2^63 and 2^64, which pass the check of the range.               *)
Boundary == {Unit * HalfLong, 2 * Unit * HalfLong}
Numeric(v) == Integer(v) \/ (v.type = "real" /\ v.real \notin Boundary)
Number(v) == IF Integer(v) THEN v.num ELSE Truncated(v.real)

Converts(results, v, min, max, as) ==
  /\ Numeric(v) => results \subseteq {Number(v)} \cap min .. max
  /\ isConvertibleTo(v, as) <=> results # {}

NeverWraps ==
  pc \in {"return", "done"} /\ ok =>
    /\ Converts(asInt(Top), Top, minInt, maxInt, "int")
    /\ Converts(asUInt(Top), Top, 0, maxUInt, "uint")
    /\ Integer(Top) => /\ asLargestInt(Top) = {Top.num} \cap minLargestInt .. maxLargestInt
                       /\ asLargestUInt(Top) = {Top.num} \cap 0 .. maxLargestUInt
    /\ Numeric(Top) => /\ asLargestInt(Top) \subseteq {Number(Top)}
                       /\ asLargestUInt(Top) \subseteq {Number(Top)}
    /\ isConvertibleTo(Top, "real") <=> asDouble(Top) # {}
    /\ isConvertibleTo(Top, "boolean") <=> asBool(Top) # {}
=============================================================================

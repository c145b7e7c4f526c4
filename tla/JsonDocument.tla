---------------------------- MODULE JsonDocument ----------------------------
(***************************************************************************)
(* The bytes of model.json: FeatureTestHandler reads them with the reader, *)
(* replaces one section of the tree and writes the whole tree over them,   *)
(* from the first byte on and without truncating the file.  The sections   *)
(* are the handlers' own data, as DataToJson makes them and JsonToData     *)
(* takes them back.                                                        *)
(***************************************************************************)
EXTENDS JsonReader, JsonWriter

CONSTANTS
  Text,      \* texts that are only read
  Files,     \* what the operator may have in the file before the first run
  Lengths,   \* the packet length distributions to save
  Times,     \* the interdeparture time distributions to save
  MaxSaves,  \* bound: saves
  MaxFaults  \* bound: writes cut short

ASSUME DocumentAssumption == MaxSaves \in Nat /\ MaxFaults \in Nat

(* The features by their place in the file, which has its keys in order.   *)
Feature == 1 .. 2
Name == <<Chars("INTERDEPARTURE_TIME"), Chars("PACKET_LENGHT")>>
Dataset == <<Times, Lengths>>
MODEL_ROOT_ == Chars("model")

VARIABLES
  file,     \* the bytes of model.json
  task,     \* "none", or the FeatureTestHandler member in progress
  feature,  \* whose
  saved,    \* the last data of each section that was written; none, if none was
  garbled,  \* sections whose bytes an interruption has mixed up
  origin,   \* who wrote the file last
  saves, faults

documentVars == <<file, task, feature, saved, garbled, origin, saves, faults>>
vars == <<readerVars, documentVars>>

TypeOK ==
  /\ ReaderTypeOK
  /\ task = "none" => Idle
  /\ file \in Seq(Byte)
  /\ task \in {"none", "loadDataFromModel", "saveDataToModel"}
  /\ feature \in Feature
  /\ \A f \in Feature : saved[f] \subseteq Dataset[f]
  /\ garbled \subseteq Feature
  /\ origin \in {"operator", "save", "fault"}
  /\ saves \in 0 .. MaxSaves
  /\ faults \in 0 .. MaxFaults

(* A text of Text is only read.                                            *)
Init ==
  /\ Idle
  /\ file \in Files \cup Text
  /\ saves = IF file \in Files THEN 0 ELSE MaxSaves
  /\ task = "none"
  /\ feature = 1
  /\ saved = [f \in Feature |-> {}]
  /\ garbled = {}
  /\ origin = "operator"
  /\ faults = 0

-----------------------------------------------------------------------------
(* The sections.                                                           *)

Numeral(n) == uintToString[n]
atoi(s) == LET value[i \in 0 .. Len(s)] ==
                 IF i = 0 THEN 0 ELSE (10 * value[i - 1] + DigitValue(s[i])) % (2 * HalfWord)
           IN  value[Len(s)]

Ascending(S) == SetToSortSeq(S, LAMBDA a, b : a < b)

(* An array of [key, count], from a map of counts.                         *)
Rows(counts) ==
  LET keys == Ascending(DOMAIN counts)
      Row(k) == AppendValue(AppendValue(EmptyArray, UIntValue(k)), UIntValue(counts[k]))
  IN  ArrayValue([i \in 0 .. Len(keys) - 1 |-> Row(keys[i + 1])])

DataToJson(f, data) ==
  IF Name[f] = Chars("PACKET_LENGHT") THEN Rows(data)
  ELSE IF data = <<>> THEN NullValue
  ELSE ObjectValue([h \in {Numeral(host) : host \in DOMAIN data} |-> Rows(data[atoi(h)])])

One(results) == Cardinality(results) = 1

(* The map of counts in an array of rows; none if an operator[] asserts or *)
(* a conversion throws or is undefined.                                    *)
Counts(v, asKey(_)) ==
  LET row(i) == Element(v, i - 1)
      key(i) == asKey(Element(row(i), 0))
      count(i) == asUInt(Element(row(i), 1))
      rows == 1 .. Size(v)
      sum(k) == MapThenSumSet(LAMBDA i : CHOOSE n \in count(i) : TRUE,
                              {i \in rows : key(i) = {k}}) % (2 * HalfWord)
  IN  IF /\ rows # {} => Indexable(v)
         /\ \A i \in rows : Indexable(row(i)) /\ One(key(i)) /\ One(count(i))
        THEN {[k \in UNION {key(i) : i \in rows} |-> sum(k)]}
        ELSE {}

(* Of a host with no times nothing is kept.                                *)
JsonToData(f, root) ==
  LET section == Member(Member(root, MODEL_ROOT_), Name[f])
      names == DOMAIN Members(section)
      times(h) == Counts(section.members[h], asLargestUInt)
  IN  IF ~Keyed(root) \/ ~Keyed(Member(root, MODEL_ROOT_)) THEN {}
      ELSE IF Name[f] = Chars("PACKET_LENGHT") THEN Counts(section, asUInt)
      ELSE IF /\ Keyed(section)
              /\ \A h \in names : One(times(h))
              /\ \A h \in names : h # <<>> /\ \A i \in DOMAIN h : h[i] \in Digit
             THEN {[host \in {atoi(h) : h \in names} |->
                      CHOOSE d \in times(CHOOSE h \in names : atoi(h) = host) : TRUE]}
             ELSE {}

-----------------------------------------------------------------------------
(* The handler's two members.                                              *)

(* getline reads up to the byte that looks like EOF.                       *)
Readable(bytes) ==
  LET ends == {i \in DOMAIN bytes : bytes[i] = Char[255]}
  IN  IF ends = {} THEN bytes ELSE SubSeq(bytes, 1, (CHOOSE i \in ends : \A j \in ends : i <= j) - 1)

LoadDataFromModel ==
  /\ task = "none"
  /\ file # <<>>
  /\ Parsing(Readable(file))
  /\ task' = "loadDataFromModel"
  /\ UNCHANGED <<file, feature, saved, garbled, origin, saves, faults>>

(* An empty file is not parsed.                                            *)
SaveDataToModel(f) ==
  /\ task = "none"
  /\ saves < MaxSaves
  /\ saves' = saves + 1
  /\ IF file = <<>> THEN UNCHANGED readerVars ELSE Parsing(Readable(file))
  /\ task' = "saveDataToModel"
  /\ feature' = f
  /\ UNCHANGED <<file, saved, garbled, origin, faults>>

MemberReturns ==
  /\ Released
  /\ task' = "none"
  /\ feature' = 1

LoadReturns ==
  /\ task = "loadDataFromModel" /\ pc = "done"
  /\ MemberReturns
  /\ UNCHANGED <<file, saved, garbled, origin, saves, faults>>

Root == nodes[1]
NoModel == Size(Root) = 0 \/ (isObject(Root) /\ isNull(Member(Root, MODEL_ROOT_)))

GivesUp == ~NoModel /\ ~ok

(* operator[] aborts on a root, or a model, that can have no members.      *)
Aborts == ~Keyed(Root) \/ ~Keyed(Member(Root, MODEL_ROOT_))

SaveReturns ==
  /\ task = "saveDataToModel" /\ pc = "done"
  /\ GivesUp \/ Aborts
  /\ MemberReturns
  /\ UNCHANGED <<file, saved, garbled, origin, saves, faults>>

Merged_OnlyThis(data) ==
  WithMember(NullValue, MODEL_ROOT_, WithMember(NullValue, Name[feature], DataToJson(feature, data)))
Merged(data) ==
  WithMember(Root, MODEL_ROOT_,
             WithMember(Member(Root, MODEL_ROOT_), Name[feature], DataToJson(feature, data)))

(* The first n bytes of new over the old ones.                             *)
Overwritten(old, new, n) == SubSeq(new, 1, n) \o SubSeq(old, n + 1, Len(old))

Writing == task = "saveDataToModel" /\ pc = "done" /\ ~GivesUp /\ ~Aborts

WriteModel(data) ==
  /\ Writing
  /\ LET new == Written(Merged(data)) IN file' = Overwritten(file, new, Len(new))
  /\ saved' = [saved EXCEPT ![feature] = {data}]
  /\ garbled' = garbled \ {feature}
  /\ origin' = "save"
  /\ MemberReturns
  /\ UNCHANGED <<saves, faults>>

(* A kill, or a failed write, after n bytes.                               *)
CutShort(data) ==
  /\ Writing
  /\ faults < MaxFaults
  /\ faults' = faults + 1
  /\ LET new == Written(Merged(data))
     IN  \E n \in 1 .. Len(new) - 1 : file' = Overwritten(file, new, n)
  /\ garbled' = garbled \cup {g \in Feature : g >= feature}
  /\ origin' = "fault"
  /\ MemberReturns
  /\ UNCHANGED <<saved, saves>>

Parse == ReaderStep /\ UNCHANGED documentVars

Next ==
  \/ LoadDataFromModel \/ LoadReturns
  \/ \E f \in Feature : SaveDataToModel(f)
  \/ \E data \in Dataset[feature] : WriteModel(data) \/ CutShort(data)
  \/ SaveReturns
  \/ Parse

Spec == Init /\ [][Next]_vars
-----------------------------------------------------------------------------
(* Properties.                                                             *)

Of(t) == INSTANCE JsonGrammar WITH text <- t

(* The reader, its stack of nodes_ and its recovery from errors            *)
(* (recoverFromError), decide exactly the language of JsonGrammar: it      *)
(* returns true when the text has a meaning, and the root is the meaning.  *)
ReadsGrammar ==
  task # "none" /\ pc = "done" /\ text # <<>> =>
    Of(text)!Meaning = IF ok THEN {Root} ELSE {}

(* The doubles of a tree.                                                  *)
RECURSIVE Reals(_)
Reals(v) ==
  CASE v.type = "real"          -> {v.real}
    [] isArray(v) \/ isObject(v) -> UNION {Reals(x) : x \in Range(Elements(v)) \cup Range(Members(v))}
    [] OTHER                    -> {}

Abs(r) == IF r < 0 THEN -r ELSE r
Finite(v) == \A r \in Reals(v) : Abs(r) <= MaxReal

(* Half a unit in the last digit it is printed with takes no double of the *)
(* tree past the largest.                                                  *)
Moderate(v) ==
  LET half == 2 * TenTo[Precision - 1]
  IN  \A r \in Reals(v) : (half + 1) * Abs(r) <= half * MaxReal

(* A double of no more than Precision digits, and what any other may come  *)
(* back as: it is off by half a unit in the last of them, and by half a    *)
(* Unit-th for being a double.                                             *)
IsShort(r) ==
  \E n \in 0 .. Precision :
    \/ (Abs(r) * TenTo[n]) % Unit = 0 /\ Abs(r) * TenTo[n] < Unit * TenTo[Precision]
    \/ r % (Unit * TenTo[n]) = 0 /\ Abs(r) < Unit * TenTo[Precision + n]
ComesBackAs(r, q) ==
  IF IsShort(r) THEN q = r ELSE (2 * Abs(q - r) - 1) * TenTo[Precision - 1] <= Abs(r)

(* The same tree but for the digits of its doubles.                        *)
RECURSIVE Resembles(_, _)
Resembles(v, w) ==
  /\ v.type = w.type
  /\ CASE v.type = "real" -> ComesBackAs(v.real, w.real)
       [] isArray(v) ->
            /\ DOMAIN v.elems = DOMAIN w.elems
            /\ \A i \in DOMAIN v.elems : Resembles(v.elems[i], w.elems[i])
       [] isObject(v) ->
            /\ DOMAIN v.members = DOMAIN w.members
            /\ \A key \in DOMAIN v.members : Resembles(v.members[key], w.members[key])
       [] OTHER -> v = w

(* saveDataToModel writes the other sections back as it has read them,     *)
(* also out of a text with an error: the text the writer makes of a tree   *)
(* the reader leaves, with its escapes, integers, layout and keys cut at a *)
(* NUL, means that tree.  Only a double of more digits than "%#.16g" keeps *)
(* changes, in the last of those, and by the first rewrite alone; and only *)
(* an infinity, which is printed as inf, makes an object a text with no    *)
(* meaning.  (A "-inf" alone would be read as the 0 of its "-".)           *)
RewriteIsStable ==
  LET rewritten[n \in 0 .. 2] ==
        IF n = 0 THEN {Root} ELSE UNION {Of(Written(tree))!Meaning : tree \in rewritten[n - 1]}
  IN  task # "none" /\ pc = "done" =>
        /\ isObject(Root) => (rewritten[1] # {} <=> Finite(Root))
        /\ Moderate(Root) => \E tree \in rewritten[1] :
                               /\ Resembles(Root, tree)
                               /\ tree # Root => rewritten[2] = {tree}

(* A model is never lost between the saves that share the file, each of    *)
(* which writes over the bytes of the others.  After whole writes it       *)
(* parses, whatever an old tail leaves behind it, and every section is as  *)
(* it was last saved.  After an interrupted one, a text that still parses  *)
(* has every section before the one being saved as it was; a text that     *)
(* does not is recognized as a damaged model, if there was one.            *)
SectionsSurvive ==
  task # "none" /\ pc = "done" /\ text # <<>> /\ origin # "operator" =>
    /\ origin = "save" => ok
    /\ ok => \A f \in Feature \ garbled :
               IF saved[f] = {} THEN isNull(Member(Member(Root, MODEL_ROOT_), Name[f]))
                                ELSE JsonToData(f, Root) = saved[f]
    /\ ~ok /\ (\E f \in Feature : saved[f] # {}) => GivesUp
=============================================================================

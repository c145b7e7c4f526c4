--------------------------- MODULE JsonReaderProofs ---------------------------
(***************************************************************************)
(* What JsonReader does on every text, and with words of every width.      *)
(***************************************************************************)
EXTENDS JsonReader, FiniteSetTheorems, SequenceTheorems, TLAPS

-----------------------------------------------------------------------------
(* Induction and recursion.  An induction is by a smallest counterexample. *)

LEMMA LeastElement ==
  ASSUME NEW B, B \subseteq Nat, NEW k \in B
  PROVE  \E m \in B : \A n \in B : m <= n
<1> DEFINE below == {0 .. i : i \in {j \in B : j <= k}}
           K == 0 .. k
<1>1. IsFiniteSet(K)
  BY FS_Interval
<1>2. below \in SUBSET SUBSET K /\ below # {}
  OBVIOUS
<1>3. PICK s \in below : \A t \in below : t \subseteq s => t = s
  <2> HIDE DEF below, K
  <2>1. IsWellFoundedOn(StrictSubsetOrdering(K), SUBSET K)
    BY <1>1, FS_FiniteSubsetsOfFinite, FS_StrictSubsetOrderingWellFounded
  <2>2. \E m \in below : \A t \in below : ~(<<t, m>> \in StrictSubsetOrdering(K))
    BY <1>2, <2>1, WFMin
  <2> QED
    BY <1>2, <2>2 DEF StrictSubsetOrdering
<1>4. PICK low \in B : low <= k /\ s = 0 .. low
  OBVIOUS
<1>5. ASSUME NEW h \in B PROVE low <= h
  <2> SUFFICES ASSUME h < low PROVE FALSE
    OBVIOUS
  <2>1. 0 .. h \in below /\ 0 .. h \subseteq s /\ 0 .. h # s
    BY <1>4
  <2> QED
    BY <2>1, <1>3
<1> QED
  BY <1>5

(* What holds at i when it holds wherever m is smaller holds everywhere.   *)
LEMMA Induction ==
  ASSUME NEW S, NEW m \in [S -> Nat], NEW P,
         \A i \in S : (\A j \in S : m[j] < m[i] => j \in P) => i \in P
  PROVE  S \subseteq P
<1> DEFINE B == {m[i] : i \in S \ P}
<1> SUFFICES ASSUME NEW i \in S, i \notin P PROVE FALSE
  OBVIOUS
<1>1. B \subseteq Nat /\ m[i] \in B
  OBVIOUS
<1>2. PICK low \in B : \A n \in B : low <= n
  <2> HIDE DEF B
  <2> QED
    BY <1>1, LeastElement
<1>3. PICK k \in S : k \notin P /\ low = m[k]
  OBVIOUS
<1>4. \A j \in S : m[j] < m[k] => j \in P
  <2> SUFFICES ASSUME NEW j \in S, m[j] < m[k], j \notin P PROVE FALSE
    OBVIOUS
  <2>1. m[j] \in B /\ m[j] \in Nat /\ m[k] \in Nat
    OBVIOUS
  <2>2. m[k] <= m[j]
    BY <2>1, <1>2, <1>3
  <2> QED
    BY <2>1, <2>2
<1> QED
  BY <1>3, <1>4

(* A function defined by a recursion that only asks for its values where m *)
(* is smaller exists.                                                      *)
AsksBelow(S, V, m, G) ==
  /\ V # {}
  /\ m \in [S -> Nat]
  /\ G \in [S \X [S -> V] -> V]
  /\ \A i \in S : \A f \in [S -> V] : \A g \in [S -> V] :
       (\A j \in S : m[j] < m[i] => f[j] = g[j]) => G[<<i, f>>] = G[<<i, g>>]

LEMMA Recursion ==
  ASSUME NEW S, NEW V, NEW m, NEW G, AsksBelow(S, V, m, G)
  PROVE  \E f \in [S -> V] : f = [i \in S |-> G[<<i, f>>]]
<1> /\ m \in [S -> Nat]
    /\ G \in [S \X [S -> V] -> V]
    /\ \A i \in S : \A f \in [S -> V] : \A g \in [S -> V] :
         (\A j \in S : m[j] < m[i] => f[j] = g[j]) => G[<<i, f>>] = G[<<i, g>>]
  BY DEF AsksBelow
<1> PICK v \in V : TRUE
  BY DEF AsksBelow
<1> DEFINE Upto == [n \in Nat |->
                     {f \in [S -> V] : \A i \in S : m[i] < n => f[i] = G[<<i, f>>]}]
<1>1. ASSUME NEW f \in [S -> V], NEW g \in [S -> V], NEW n \in Nat, NEW k \in Nat,
             f \in Upto[n], g \in Upto[k]
      PROVE  \A i \in S : m[i] < n /\ m[i] < k => f[i] = g[i]
  <2> DEFINE P == {i \in S : m[i] < n /\ m[i] < k => f[i] = g[i]}
  <2>1. ASSUME NEW i \in S, \A j \in S : m[j] < m[i] => j \in P PROVE i \in P
    <3> SUFFICES ASSUME m[i] < n, m[i] < k PROVE f[i] = g[i]
      OBVIOUS
    <3>1. ASSUME NEW j \in S, m[j] < m[i] PROVE f[j] = g[j]
      <4>1. j \in P
        BY <2>1, <3>1
      <4>2. m[i] \in Nat /\ m[j] \in Nat
        OBVIOUS
      <4>3. m[j] < n /\ m[j] < k
        BY <3>1, <4>2
      <4> QED
        BY <4>1, <4>3
    <3>2. G[<<i, f>>] = G[<<i, g>>]
      BY <3>1
    <3>3. f[i] = G[<<i, f>>] /\ g[i] = G[<<i, g>>]
      BY <1>1
    <3> QED
      BY <3>2, <3>3
  <2>2. S \subseteq P
    <3> HIDE DEF P
    <3> QED
      BY <2>1, Induction
  <2> QED
    BY <2>2
<1>2. ASSUME NEW n \in Nat, Upto[n] # {} PROVE Upto[n + 1] # {}
  <2>0. PICK f \in Upto[n] : TRUE
    BY <1>2
  <2> DEFINE g == [i \in S |-> IF m[i] < n THEN f[i] ELSE G[<<i, f>>]]
  <2>1. g \in [S -> V]
    OBVIOUS
  <2>2. ASSUME NEW i \in S, m[i] < n + 1 PROVE g[i] = G[<<i, g>>]
    <3>1. g[i] = G[<<i, f>>]
      OBVIOUS
    <3>2. \A j \in S : m[j] < m[i] => g[j] = f[j]
      BY <2>2
    <3> QED
      BY <2>1, <3>1, <3>2
  <2>3. n + 1 \in Nat /\ g \in Upto[n + 1]
    <3> HIDE DEF g
    <3> QED
      BY <2>1, <2>2
  <2> QED
    BY <2>3
<1>3. \A n \in Nat : Upto[n] # {}
  <2> DEFINE Q == {n \in Nat : Upto[n] # {}}
             id == [n \in Nat |-> n]
  <2>1. ASSUME NEW n \in Nat, \A k \in Nat : id[k] < id[n] => k \in Q PROVE n \in Q
    <3>1. CASE n = 0
      <4>1. [i \in S |-> v] \in Upto[0]
        OBVIOUS
      <4> QED
        BY <4>1, <3>1
    <3>2. CASE n # 0
      <4>1. n - 1 \in Nat /\ id[n - 1] < id[n]
        <5> HIDE DEF Upto, Q
        <5>0. n \in Nat
          OBVIOUS
        <5>1. n - 1 \in Nat /\ n - 1 < n
          BY ONLY <3>2, <5>0
        <5> QED
          BY <5>1
      <4>2. Upto[n - 1] # {} /\ n - 1 + 1 = n
        <5>1. n - 1 \in Q
          BY ONLY <4>1, <2>1
        <5> HIDE DEF Upto
        <5> QED
          BY <5>1
      <4>3. Upto[n - 1 + 1] # {}
        <5> HIDE DEF Upto
        <5> QED
          BY <4>1, <4>2, <1>2
      <4> QED
        BY <4>2, <4>3
    <3> QED
      BY <3>1, <3>2
  <2>2. Nat \subseteq Q
    <3>1. id \in [Nat -> Nat]
      OBVIOUS
    <3> HIDE DEF Q, id
    <3> QED
      BY <2>1, <3>1, Induction
  <2> QED
    BY <2>2
<1> DEFINE At == [i \in S |-> CHOOSE f \in Upto[m[i] + 1] : TRUE]
           h == [i \in S |-> At[i][i]]
<1>4. ASSUME NEW i \in S PROVE At[i] \in Upto[m[i] + 1] /\ At[i] \in [S -> V]
  <2>1. m[i] + 1 \in Nat
    OBVIOUS
  <2>2. Upto[m[i] + 1] # {}
    BY <2>1, <1>3
  <2>3. At[i] \in Upto[m[i] + 1]
    <3> HIDE DEF Upto
    <3> QED
      BY <2>2
  <2> QED
    BY <2>1, <2>3
<1>5. h \in [S -> V]
  BY <1>4
<1>6. ASSUME NEW i \in S PROVE h[i] = G[<<i, h>>]
  <2> DEFINE f == At[i]
  <2>1. f \in [S -> V] /\ f \in Upto[m[i] + 1] /\ m[i] + 1 \in Nat /\ m[i] < m[i] + 1
    <3>1. m[i] \in Nat
      OBVIOUS
    <3> HIDE DEF Upto, At
    <3> QED
      BY <1>4, <3>1
  <2>2. ASSUME NEW j \in S, m[j] < m[i] PROVE f[j] = h[j]
    <3>1. At[j] \in [S -> V] /\ At[j] \in Upto[m[j] + 1]
      BY <1>4
    <3>2. m[j] \in Nat /\ m[i] \in Nat
      OBVIOUS
    <3>3. m[j] + 1 \in Nat /\ m[j] < m[i] + 1 /\ m[j] < m[j] + 1
      BY <2>2, <3>2
    <3>4. f[j] = At[j][j]
      <4> HIDE DEF Upto, At
      <4> QED
        BY <1>1, <2>1, <3>1, <3>3
    <3> QED
      BY <3>4
  <2>3. f[i] = G[<<i, f>>]
    <3> HIDE DEF At, f
    <3> QED
      BY <2>1
  <2>4. G[<<i, f>>] = G[<<i, h>>]
    <3> HIDE DEF f, h
    <3> QED
      BY <1>5, <2>1, <2>2
  <2> QED
    BY <2>3, <2>4
<1>7. h = [i \in S |-> G[<<i, h>>]]
  <2> HIDE DEF h
  <2> QED
    BY <1>5, <1>6
<1> QED
  BY <1>5, <1>7

-----------------------------------------------------------------------------
(* Characters and positions.                                               *)

LEMMA Characters ==
  /\ Nul \in Byte /\ Nul \notin Marks /\ Nul \notin Digit /\ Digit \subseteq Byte
  /\ \A c \in Marks : c \in Byte /\ c \notin Digit
  /\ \A c \in Byte : Code[c] \in 0 .. 255
  /\ \A n \in 0 .. 255 : Char[n] \in Byte /\ Code[Char[n]] = n
  /\ \A c \in Digit : DigitValue(c) \in 0 .. 9
<1>1. \A n \in 0 .. 255 : Char[n] \in Byte
  BY DEF Byte
<1>2. \A m \in 0 .. 255 : \A n \in 0 .. 255 : Char[m] = Char[n] => m = n
  BY CharacterAssumption
<1>3. \A c \in Marks : \E n \in 33 .. 126 : Char[n] = c /\ n \notin 48 .. 57
  BY CharacterAssumption
<1>4. \A c \in Byte : Code[c] \in 0 .. 255 /\ Char[Code[c]] = c
  <2> SUFFICES ASSUME NEW c \in Byte PROVE Code[c] \in 0 .. 255 /\ Char[Code[c]] = c
    OBVIOUS
  <2>1. \E n \in 0 .. 255 : Char[n] = c
    BY DEF Byte
  <2>2. Code[c] = CHOOSE n \in 0 .. 255 : Char[n] = c
    BY DEF Code
  <2> QED
    BY <2>1, <2>2
<1>5. \A n \in 0 .. 255 : Code[Char[n]] = n
  BY <1>1, <1>2, <1>4
<1>6. Nul = Char[0] /\ \A c \in Digit : \E n \in 48 .. 57 : c = Char[n]
  BY DEF Nul, Digit
<1>7. \A n \in 33 .. 126 : n \in 0 .. 255 /\ n # 0
  OBVIOUS
<1>8. \A n \in 48 .. 57 : n \in 0 .. 255 /\ n # 0 /\ n - 48 \in 0 .. 9
  OBVIOUS
<1>9. 0 \in 0 .. 255
  OBVIOUS
<1>10. Nul \in Byte /\ Nul \notin Marks /\ Nul \notin Digit /\ Digit \subseteq Byte
  <2>1. Nul \in Byte
    BY ONLY <1>1, <1>6, <1>9
  <2>2. ASSUME Nul \in Marks PROVE FALSE
    <3>1. PICK n \in 33 .. 126 : Char[n] = Nul
      BY ONLY <1>3, <2>2
    <3>2. n \in 0 .. 255 /\ n # 0 /\ Char[n] = Char[0]
      BY ONLY <3>1, <1>6, <1>7
    <3> QED
      BY ONLY <3>2, <1>2, <1>9
  <2>3. ASSUME Nul \in Digit PROVE FALSE
    <3>1. PICK n \in 48 .. 57 : Char[n] = Nul
      BY ONLY <1>6, <2>3
    <3>2. n \in 0 .. 255 /\ n # 0 /\ Char[n] = Char[0]
      BY ONLY <3>1, <1>6, <1>8
    <3> QED
      BY ONLY <3>2, <1>2, <1>9
  <2>4. ASSUME NEW c \in Digit PROVE c \in Byte
    BY ONLY <2>4, <1>1, <1>6, <1>8
  <2> QED
    BY <2>1, <2>2, <2>3, <2>4
<1>11. ASSUME NEW c \in Marks PROVE c \in Byte /\ c \notin Digit
  <2>1. PICK n \in 33 .. 126 : Char[n] = c /\ n \notin 48 .. 57
    BY <1>3
  <2>2. n \in 0 .. 255 /\ c \in Byte
    BY ONLY <2>1, <1>1, <1>7
  <2>3. ASSUME c \in Digit PROVE FALSE
    <3>1. PICK k \in 48 .. 57 : Char[k] = c
      BY ONLY <1>6, <2>3
    <3>2. k \in 0 .. 255 /\ Char[k] = Char[n]
      BY ONLY <3>1, <2>1, <1>8
    <3>3. k = n
      BY ONLY <3>2, <2>2, <1>2
    <3> QED
      BY ONLY <3>3, <2>1
  <2> QED
    BY <2>2, <2>3
<1>12. \A c \in Digit : DigitValue(c) \in 0 .. 9
  BY ONLY <1>5, <1>6, <1>8 DEF DigitValue
<1> QED
  BY <1>1, <1>4, <1>5, <1>10, <1>11, <1>12

(* The text in hand.                                                       *)
Document == text \in Seq(Byte)

LEMMA Positions ==
  ASSUME Document
  PROVE  /\ End \in Nat /\ End >= 1 /\ Len(text) = End - 1 /\ Len(text) \in Nat
         /\ \A i \in 1 .. End : i < End => i + 1 \in 1 .. End /\ text[i] \in Byte /\ CharAt(i) = text[i]
         /\ \A i \in Nat : CharAt(i) # Nul => i < End
         /\ \A i \in 1 .. End : After(i) \in i .. End /\ (i < End => After(i) = i + 1)
<1>1. Len(text) \in Nat
  BY DEF Document
<1>2. \A i \in 1 .. Len(text) : text[i] \in Byte
  BY DEF Document
<1>3. End = Len(text) + 1
  BY DEF End
<1> QED
  BY <1>1, <1>2, <1>3 DEF CharAt, After

(* The first place of a set of places between i and the end.               *)
First(at) == CHOOSE j \in at : \A k \in at : j <= k

LEMMA FirstIsLeast ==
  ASSUME NEW i \in Nat, NEW e \in Nat, NEW at, at \subseteq i .. e, at # {}
  PROVE  /\ First(at) \in at /\ First(at) \in i .. e
         /\ \A n \in at : First(at) <= n
<1>1. PICK n \in at : TRUE
  OBVIOUS
<1>2. at \subseteq Nat
  OBVIOUS
<1>3. \E j \in at : \A k \in at : j <= k
  BY <1>1, <1>2, LeastElement
<1> QED
  BY <1>3 DEF First

Space == {" ", "\t", "\r", "\n"}

LEMMA SpacesMove ==
  ASSUME Document, NEW i \in 1 .. End
  PROVE  skipSpaces(i) \in i .. End
<1> DEFINE at == {j \in i .. Len(text) : text[j] \notin Space}
<1>1. skipSpaces(i) = IF at = {} THEN End ELSE First(at)
  BY DEF skipSpaces, FirstFrom, First, Space
<1>2. End \in Nat /\ i \in Nat /\ Len(text) = End - 1
  BY Positions
<1>3. at \subseteq i .. End
  BY <1>2
<1>4. at # {} => First(at) \in i .. End
  <2> HIDE DEF at
  <2> QED
    BY <1>2, <1>3, FirstIsLeast
<1> HIDE DEF at
<1> QED
  BY <1>1, <1>2, <1>4

(* The characters a number may be written with.                            *)
NumberCharacter == Digit \cup {".", "e", "E", "+", "-"}

LEMMA NumberMoves ==
  ASSUME Document, NEW i \in 1 .. End
  PROVE  /\ readNumber(i) \in i .. End
         /\ \A k \in i .. readNumber(i) - 1 : text[k] \in NumberCharacter
         /\ i < End /\ text[i] \in NumberCharacter => readNumber(i) > i
<1> DEFINE at == {j \in i .. Len(text) : text[j] \notin NumberCharacter}
<1>1. readNumber(i) = IF at = {} THEN End ELSE First(at)
  BY DEF readNumber, FirstFrom, First, NumberCharacter
<1>2. End \in Nat /\ i \in Nat /\ Len(text) = End - 1
  BY Positions
<1>3. at \subseteq i .. End
  BY <1>2
<1>4. at # {} => First(at) \in at /\ First(at) \in i .. End /\ \A n \in at : First(at) <= n
  <2> HIDE DEF at
  <2> QED
    BY <1>2, <1>3, FirstIsLeast
<1>5. readNumber(i) \in i .. End
  <2> HIDE DEF at
  <2> QED
    BY <1>1, <1>2, <1>4
<1>6. ASSUME NEW k \in i .. readNumber(i) - 1 PROVE text[k] \in NumberCharacter
  <2>1. k \in i .. Len(text) /\ ~(readNumber(i) <= k)
    BY <1>2, <1>5
  <2>2. k \notin at
    <3> HIDE DEF at
    <3> QED
      BY <2>1, <1>1, <1>4
  <2> QED
    BY <2>1, <2>2
<1>7. ASSUME i < End, text[i] \in NumberCharacter PROVE readNumber(i) > i
  <2>1. i \notin at
    BY <1>7
  <2>2. readNumber(i) # i
    <3> HIDE DEF at
    <3> QED
      BY <2>1, <1>1, <1>2, <1>4, <1>7
  <2> QED
    BY <1>2, <1>5, <2>2
<1> QED
  BY <1>5, <1>6, <1>7

(* The end of a comment whose second character is at i; 0 if it has none.  *)
LEMMA CommentMoves ==
  ASSUME Document, NEW i \in 1 .. End
  PROVE  readComment(i) \in {0} \cup i .. End
<1>0. End \in Nat /\ Len(text) = End - 1
  BY Positions
<1>1. ASSUME NEW k \in 1 .. End PROVE readCppStyleComment(k) \in k .. End
  <2> DEFINE at == {j \in k .. Len(text) : text[j] \in {"\r", "\n"}}
             first == IF at = {} THEN End ELSE First(at)
  <2>1. readCppStyleComment(k) = After(first)
    BY DEF readCppStyleComment, FirstFrom, First
  <2>2. at \subseteq k .. End /\ k \in Nat
    BY <1>0
  <2>3. at # {} => First(at) \in k .. End
    <3> HIDE DEF at
    <3> QED
      BY <1>0, <2>2, FirstIsLeast
  <2>4. first \in k .. End
    <3> HIDE DEF at
    <3> QED
      BY <1>0, <2>3
  <2>5. After(first) \in first .. End
    <3> HIDE DEF first
    <3>1. first \in 1 .. End
      BY <2>4
    <3> QED
      BY <3>1, Positions
  <2> HIDE DEF first
  <2> QED
    BY <1>0, <2>1, <2>4, <2>5
<1>2. ASSUME NEW k \in 1 .. End PROVE readCStyleComment(k) \in {0} \cup k .. End
  <2>1. readCStyleComment(k) = IF CommentEnds(k) = {} THEN 0 ELSE 2 + First(CommentEnds(k))
    BY DEF readCStyleComment, First
  <2>2. CommentEnds(k) \subseteq k .. End - 2 /\ k \in Nat
    BY <1>0 DEF CommentEnds
  <2>3. ASSUME CommentEnds(k) # {} PROVE First(CommentEnds(k)) \in k .. End - 2
    <3>1. PICK j \in CommentEnds(k) : j \in k .. End - 2
      BY <2>2, <2>3
    <3>2. End - 2 \in Nat
      BY <1>0, <2>2, <3>1
    <3> QED
      BY <2>2, <2>3, <3>2, FirstIsLeast
  <2>4. CASE CommentEnds(k) = {}
    BY <2>1, <2>4
  <2>5. CASE CommentEnds(k) # {}
    <3>1. First(CommentEnds(k)) \in k .. End - 2
      BY <2>3, <2>5
    <3>2. readCStyleComment(k) = 2 + First(CommentEnds(k))
      BY <2>1, <2>5
    <3> QED
      BY <1>0, <3>1, <3>2
  <2> QED
    BY <2>4, <2>5
<1>3. ASSUME CharAt(i) \in {"*", "/"} PROVE i + 1 \in 1 .. End
  <2>1. CharAt(i) # Nul
    <3>1. "*" # Nul /\ "/" # Nul
      BY Characters DEF Marks
    <3> QED
      BY <1>3, <3>1
  <2>2. i < End
    BY <2>1, Positions
  <2> QED
    BY <1>0, <2>2
<1>4. CASE CharAt(i) = "*"
  <2>1. readComment(i) = readCStyleComment(i + 1)
    BY <1>4, Zenon DEF readComment
  <2>2. i + 1 \in 1 .. End
    BY <1>3, <1>4
  <2>3. readCStyleComment(i + 1) \in {0} \cup i + 1 .. End
    BY <1>2, <2>2
  <2> QED
    BY <1>0, <2>1, <2>3
<1>5. CASE CharAt(i) = "/"
  <2>0. CharAt(i) # "*"
    BY <1>5
  <2>1. readComment(i) = readCppStyleComment(i + 1)
    BY <1>5, <2>0, Zenon DEF readComment
  <2>2. i + 1 \in 1 .. End
    BY <1>3, <1>5
  <2>3. readCppStyleComment(i + 1) \in i + 1 .. End
    BY <1>1, <2>2
  <2> QED
    BY <1>0, <2>1, <2>3
<1>6. CASE CharAt(i) # "*" /\ CharAt(i) # "/"
  <2>1. readComment(i) = 0
    BY <1>6, Zenon DEF readComment
  <2> QED
    BY <2>1
<1> QED
  BY <1>4, <1>5, <1>6

-----------------------------------------------------------------------------
(* Tokens.                                                                 *)

(* readString as a step of its recursion, which only looks further on.     *)
StringEnd(f, i) ==
  CASE i >= End                  -> 0
    [] i < End /\ text[i] = "\\" -> f[After(i + 1)]
    [] i < End /\ text[i] = "\"" -> i + 1
    [] OTHER                     -> f[i + 1]

LEMMA StringMoves ==
  ASSUME Document
  PROVE  \A i \in 1 .. End : readString[i] \in {0} \cup i + 1 .. End
<1> DEFINE S == 1 .. End
           V == Nat
           m == [i \in S |-> End - i]
           G == [p \in S \X [S -> V] |-> StringEnd(p[2], p[1])]
<1>0. /\ \A i \in S : ~(i < End) <=> i >= End
      /\ End \in Nat
      /\ \A i \in S : i < End => i + 1 \in S /\ After(i + 1) \in i + 1 .. End
  BY Positions
<1>1. m \in [S -> Nat]
  BY <1>0
<1>2. ASSUME NEW i \in S, NEW f, i >= End PROVE StringEnd(f, i) = 0
  <2>1. ~(i < End)
    BY <1>0, <1>2
  <2> QED
    BY <1>2, <2>1, Zenon DEF StringEnd
<1>3. ASSUME NEW i \in S, i < End, text[i] = "\\", NEW f PROVE StringEnd(f, i) = f[After(i + 1)]
  <2>1. ~(i >= End) /\ text[i] # "\""
    BY <1>0, <1>3
  <2> QED
    BY <1>3, <2>1, Zenon DEF StringEnd
<1>4. ASSUME NEW i \in S, i < End, text[i] = "\"", NEW f PROVE StringEnd(f, i) = i + 1
  <2>1. ~(i >= End) /\ text[i] # "\\"
    BY <1>0, <1>4
  <2> QED
    BY <1>4, <2>1, Zenon DEF StringEnd
<1>5. ASSUME NEW i \in S, i < End, text[i] # "\\", text[i] # "\"", NEW f
      PROVE  StringEnd(f, i) = f[i + 1]
  <2>1. ~(i >= End)
    BY <1>0, <1>5
  <2> QED
    BY <1>5, <2>1, Zenon DEF StringEnd
<1>6. ASSUME NEW i \in S, i < End
      PROVE  /\ i + 1 \in S /\ m[i + 1] < m[i]
             /\ After(i + 1) \in S /\ m[After(i + 1)] < m[i]
  BY <1>0, <1>6
<1>7. ASSUME NEW i \in S, NEW f, NEW g, \A j \in S : m[j] < m[i] => f[j] = g[j]
      PROVE  StringEnd(f, i) = StringEnd(g, i)
  <2>1. CASE i >= End
    BY <2>1, <1>2
  <2>2. CASE i < End
    <3>1. f[i + 1] = g[i + 1] /\ f[After(i + 1)] = g[After(i + 1)]
      BY ONLY <1>6, <1>7, <2>2
    <3> QED
      BY ONLY <1>3, <1>4, <1>5, <2>2, <3>1
  <2> QED
    BY <1>0, <2>1, <2>2
<1>8. ASSUME NEW i \in S, NEW f, NEW T, 0 \in T, i + 1 \in T,
             \A j \in S : m[j] < m[i] => f[j] \in T
      PROVE  StringEnd(f, i) \in T
  <2>1. CASE i >= End
    BY <2>1, <1>2, <1>8
  <2>2. CASE i < End
    <3>1. f[i + 1] \in T /\ f[After(i + 1)] \in T
      BY ONLY <1>6, <1>8, <2>2
    <3> QED
      BY ONLY <1>3, <1>4, <1>5, <1>8, <2>2, <3>1
  <2> QED
    BY <1>0, <2>1, <2>2
<1>9. G \in [S \X [S -> V] -> V]
  <2>1. ASSUME NEW i \in S, NEW f \in [S -> V] PROVE StringEnd(f, i) \in V
    <3>1. 0 \in V /\ i + 1 \in V /\ \A j \in S : f[j] \in V
      OBVIOUS
    <3> QED
      BY ONLY <1>8, <3>1
  <2> QED
    BY <2>1
<1>10. \E f \in [S -> V] : f = [i \in S |-> G[<<i, f>>]]
  <2>1. ASSUME NEW i \in S, NEW f \in [S -> V], NEW g \in [S -> V],
               \A j \in S : m[j] < m[i] => f[j] = g[j]
        PROVE  G[<<i, f>>] = G[<<i, g>>]
    <3>1. StringEnd(f, i) = StringEnd(g, i)
      BY ONLY <1>7, <2>1
    <3> QED
      BY <3>1
  <2>2. V # {}
    OBVIOUS
  <2> HIDE DEF m, G, S, V
  <2>3. AsksBelow(S, V, m, G)
    BY ONLY <1>1, <1>9, <2>1, <2>2 DEF AsksBelow
  <2> QED
    BY ONLY <2>3, Recursion
<1>11. \E f : f = [i \in S |-> StringEnd(f, i)]
  BY <1>10
<1>12. readString = [i \in S |-> StringEnd(readString, i)]
  <2>1. readString = CHOOSE f : f = [i \in S |-> StringEnd(f, i)]
    BY DEF readString, StringEnd
  <2> QED
    BY ONLY <1>11, <2>1
<1> DEFINE P == {i \in S : readString[i] \in {0} \cup i + 1 .. End}
<1>13. ASSUME NEW i \in S, \A j \in S : m[j] < m[i] => j \in P PROVE i \in P
  <2> DEFINE T == {0} \cup i + 1 .. End
  <2>1. CASE i >= End
    BY <1>2, <1>12, <2>1
  <2>2. CASE i < End
    <3>1. i + 1 \in T /\ 0 \in T
      BY <1>0, <2>2
    <3>2. ASSUME NEW j \in S, m[j] < m[i] PROVE readString[j] \in T
      <4>1. readString[j] \in {0} \cup j + 1 .. End
        BY ONLY <1>13, <3>2
      <4>2. j > i
        BY <1>0, <3>2
      <4> QED
        BY <1>0, <4>1, <4>2
    <3>3. StringEnd(readString, i) \in T
      <4> HIDE DEF T, m
      <4> QED
        BY <1>8, <3>1, <3>2
    <3> QED
      BY <1>12, <3>3
  <2> QED
    BY <1>0, <2>1, <2>2
<1>14. S \subseteq P
  <2> HIDE DEF S, P, m
  <2> QED
    BY <1>1, <1>13, Induction
<1> QED
  BY <1>14

LEMMA MatchMoves ==
  ASSUME Document, NEW i \in 1 .. End, i < End, NEW word, Len(word) \in Nat \ {0}
  PROVE  match(i, word) \in {0} \cup i + 1 .. End
<1>1. End \in Nat /\ Len(text) = End - 1
  BY Positions
<1>2. Len(SubSeq(text, i, Len(text))) = End - i
  <2>1. i \in 1 .. Len(text) + 1 /\ Len(text) \in i - 1 .. Len(text)
    BY <1>1
  <2> QED
    BY <1>1, <2>1, SubSeqProperties DEF Document
<1>3. IsPrefix(word, SubSeq(text, i, Len(text))) => Len(word) <= End - i
  BY <1>2 DEF IsPrefix
<1>4. CASE IsPrefix(word, SubSeq(text, i, Len(text)))
  <2>1. match(i, word) = i + Len(word)
    BY <1>4, Zenon DEF match
  <2>2. Len(word) <= End - i
    BY <1>3, <1>4
  <2> QED
    BY <1>1, <2>1, <2>2
<1>5. CASE ~IsPrefix(word, SubSeq(text, i, Len(text)))
  <2>1. match(i, word) = 0
    BY <1>5, Zenon DEF match
  <2> QED
    BY <2>1
<1> QED
  BY <1>4, <1>5

LEMMA ErrorMoves ==
  ASSUME Document, NEW i \in 1 .. End, i < End
  PROVE  ErrorEnd(i) \in i + 1 .. End
<1>1. End \in Nat /\ i \in Nat /\ i + 1 \in 1 .. End /\ After(i) = i + 1 /\ After(i + 1) \in i + 1 .. End
  BY Positions
<1>2. CASE CharAt(i) = "\""
  <2>1. CharAt(i) # "/"
    BY <1>2
  <2>2. ErrorEnd(i) = End
    BY <1>2, <2>1, Zenon DEF ErrorEnd
  <2> QED
    BY <1>1, <2>2
<1>3. CASE CharAt(i) = "/"
  <2>1. CharAt(i) # "\""
    BY <1>3
  <2>2. ErrorEnd(i) \in {End, After(i + 1)}
    <3>1. ErrorEnd(i) = IF CharAt(i + 1) = "*" THEN End ELSE After(i + 1)
      BY <1>3, <2>1, Zenon DEF ErrorEnd
    <3> QED
      BY <3>1
  <2> QED
    BY <1>1, <2>2
<1>4. CASE CharAt(i) # "\"" /\ CharAt(i) # "/"
  <2>1. ErrorEnd(i) = After(i)
    BY <1>4, Zenon DEF ErrorEnd
  <2> QED
    BY <1>1, <2>1
<1> QED
  BY <1>2, <1>3, <1>4

OrError(i, type, end) ==
  IF end = 0 THEN Token("error", i, ErrorEnd(i)) ELSE Token(type, i, end)

Punctuation == {"{", "}", "[", "]", ",", ":"}

(* The token that starts at i, by the character there.                     *)
LEMMA TokenIs ==
  ASSUME NEW from, NEW i, i = skipSpaces(from), NEW c, c = CharAt(i)
  PROVE  /\ c \in Punctuation => readToken(from) = Token(c, i, i + 1)
         /\ c = "\"" => readToken(from) = OrError(i, "string", readString[i + 1])
         /\ c = "/" => readToken(from) = OrError(i, "comment", readComment(i + 1))
         /\ c \in Digit \cup {"-"} => readToken(from) = Token("number", i, readNumber(i))
         /\ c = "t" => readToken(from) = OrError(i, "true", match(i, <<"t", "r", "u", "e">>))
         /\ c = "f" => readToken(from) = OrError(i, "false", match(i, <<"f", "a", "l", "s", "e">>))
         /\ c = "n" => readToken(from) = OrError(i, "null", match(i, <<"n", "u", "l", "l">>))
         /\ c = Nul => readToken(from) = Token("end", i, After(i))
         /\ c \notin Punctuation \cup Digit \cup {"\"", "/", "-", "t", "f", "n", Nul} =>
              readToken(from) = Token("error", i, i + 1)
<1>0. Nul \notin Marks /\ Nul \notin Digit /\ \A d \in Marks : d \notin Digit
  BY Characters
<1>1. ASSUME c \in Punctuation
      PROVE  readToken(from) = Token(c, i, i + 1)
  <2>1. c # "\"" /\ c # "/" /\ c \notin Digit \cup {"-"} /\ c # "t" /\ c # "f" /\ c # "n" /\ c # Nul
    BY <1>0, <1>1 DEF Marks, Punctuation
  <2> QED
    BY <1>1, <2>1, Zenon DEF readToken, OrError, Punctuation
<1>2. ASSUME c = "\""
      PROVE  readToken(from) = OrError(i, "string", readString[i + 1])
  <2>1. c \notin Punctuation /\ c # "/" /\ c \notin Digit \cup {"-"} /\ c # "t" /\ c # "f" /\ c # "n" /\ c # Nul
    BY <1>0, <1>2 DEF Marks, Punctuation
  <2> QED
    BY <1>2, <2>1, Zenon DEF readToken, OrError, Punctuation
<1>3. ASSUME c = "/"
      PROVE  readToken(from) = OrError(i, "comment", readComment(i + 1))
  <2>1. c \notin Punctuation /\ c # "\"" /\ c \notin Digit \cup {"-"} /\ c # "t" /\ c # "f" /\ c # "n" /\ c # Nul
    BY <1>0, <1>3 DEF Marks, Punctuation
  <2> QED
    BY <1>3, <2>1, Zenon DEF readToken, OrError, Punctuation
<1>4. ASSUME c \in Digit \cup {"-"}
      PROVE  readToken(from) = Token("number", i, readNumber(i))
  <2>1. c \notin Punctuation /\ c # "\"" /\ c # "/" /\ c # "t" /\ c # "f" /\ c # "n" /\ c # Nul
    BY <1>0, <1>4 DEF Marks, Punctuation
  <2> QED
    BY <1>4, <2>1, Zenon DEF readToken, OrError, Punctuation
<1>5. ASSUME c = "t"
      PROVE  readToken(from) = OrError(i, "true", match(i, <<"t", "r", "u", "e">>))
  <2>1. c \notin Punctuation /\ c # "\"" /\ c # "/" /\ c \notin Digit \cup {"-"} /\ c # "f" /\ c # "n" /\ c # Nul
    BY <1>0, <1>5 DEF Marks, Punctuation
  <2> QED
    BY <1>5, <2>1, Zenon DEF readToken, OrError, Punctuation
<1>6. ASSUME c = "f"
      PROVE  readToken(from) = OrError(i, "false", match(i, <<"f", "a", "l", "s", "e">>))
  <2>1. c \notin Punctuation /\ c # "\"" /\ c # "/" /\ c \notin Digit \cup {"-"} /\ c # "t" /\ c # "n" /\ c # Nul
    BY <1>0, <1>6 DEF Marks, Punctuation
  <2> QED
    BY <1>6, <2>1, Zenon DEF readToken, OrError, Punctuation
<1>7. ASSUME c = "n"
      PROVE  readToken(from) = OrError(i, "null", match(i, <<"n", "u", "l", "l">>))
  <2>1. c \notin Punctuation /\ c # "\"" /\ c # "/" /\ c \notin Digit \cup {"-"} /\ c # "t" /\ c # "f" /\ c # Nul
    BY <1>0, <1>7 DEF Marks, Punctuation
  <2> QED
    BY <1>7, <2>1, Zenon DEF readToken, OrError, Punctuation
<1>8. ASSUME c = Nul
      PROVE  readToken(from) = Token("end", i, After(i))
  <2>1. c \notin Punctuation /\ c # "\"" /\ c # "/" /\ c \notin Digit \cup {"-"} /\ c # "t" /\ c # "f" /\ c # "n"
    BY <1>0, <1>8 DEF Marks, Punctuation
  <2> QED
    BY <1>8, <2>1, Zenon DEF readToken, OrError, Punctuation
<1>9. ASSUME c \notin Punctuation \cup Digit \cup {"\"", "/", "-", "t", "f", "n", Nul}
      PROVE  readToken(from) = Token("error", i, i + 1)
  <2>1. c \notin Punctuation /\ c # "\"" /\ c # "/" /\ c \notin Digit \cup {"-"} /\ c # "t" /\ c # "f" /\ c # "n" /\ c # Nul
    BY <1>0, <1>9 DEF Marks, Punctuation
  <2> QED
    BY <1>9, <2>1, Zenon DEF readToken, OrError, Punctuation
<1> QED
  BY <1>1, <1>2, <1>3, <1>4, <1>5, <1>6, <1>7, <1>8, <1>9

(* A token takes characters, unless the text is at its end; what is taken  *)
(* for a number begins like one.                                           *)
Moves(t, from) ==
  /\ t.start \in from .. End /\ t.end \in t.start .. End
  /\ t.type # "end" => t.start < End /\ t.end > t.start
  /\ t.type = "number" => t.end = readNumber(t.start) /\ text[t.start] \in Digit \cup {"-"}

LEMMA TokenMoves ==
  ASSUME Document, NEW from \in 1 .. End
  PROVE  Moves(readToken(from), from)
<1> DEFINE i == skipSpaces(from)
           c == CharAt(i)
<1>0. i \in from .. End /\ i \in 1 .. End
  BY SpacesMove, Positions
<1>1. c # Nul => i < End /\ c = text[i]
  BY <1>0, Positions
<1>2. End \in Nat /\ i \in Nat /\ from \in Nat
  BY <1>0, Positions
<1> HIDE DEF i, c
<1>3. ASSUME NEW type, type # "number", i < End, NEW end \in i + 1 .. End
      PROVE  Moves(Token(type, i, end), from)
  BY <1>0, <1>2, <1>3 DEF Moves, Token
<1>4. ASSUME NEW type, type # "number", i < End, NEW end \in {0} \cup i + 1 .. End
      PROVE  Moves(OrError(i, type, end), from)
  <2>1. CASE end = 0
    <3>1. ErrorEnd(i) \in i + 1 .. End
      BY <1>0, <1>4, ErrorMoves
    <3>2. OrError(i, type, end) = Token("error", i, ErrorEnd(i))
      BY <2>1, Zenon DEF OrError
    <3> QED
      BY <1>3, <1>4, <3>1, <3>2
  <2>2. CASE end # 0
    <3>1. end \in i + 1 .. End
      BY <1>4, <2>2
    <3>2. OrError(i, type, end) = Token(type, i, end)
      BY <2>2, Zenon DEF OrError
    <3> QED
      BY <1>3, <1>4, <3>1, <3>2
  <2> QED
    BY <2>1, <2>2
<1>5. i < End => i + 1 \in 1 .. End /\ i + 1 \in i + 1 .. End
  BY <1>0, <1>2
<1>6. i = skipSpaces(from) /\ c = CharAt(i)
  BY DEF i, c
<1>7. Nul \notin Marks /\ Nul \notin Digit /\ \A d \in Marks : d \notin Digit
  BY Characters
<1>8. CASE c \in Punctuation
  <2>1. readToken(from) = Token(c, i, i + 1) /\ c # Nul /\ c # "number"
    BY <1>6, <1>7, <1>8, TokenIs DEF Punctuation, Marks
  <2> QED
    BY <1>1, <1>3, <1>5, <2>1
<1>9. CASE c = "\""
  <2>1. readToken(from) = OrError(i, "string", readString[i + 1]) /\ c # Nul
    BY <1>6, <1>7, <1>9, TokenIs DEF Marks
  <2>2. readString[i + 1] \in {0} \cup i + 1 .. End
    BY <1>0, <1>1, <1>2, <1>5, <2>1, StringMoves
  <2> QED
    BY <1>1, <1>4, <2>1, <2>2
<1>10. CASE c = "/"
  <2>1. readToken(from) = OrError(i, "comment", readComment(i + 1)) /\ c # Nul
    BY <1>6, <1>7, <1>10, TokenIs DEF Marks
  <2>2. readComment(i + 1) \in {0} \cup i + 1 .. End
    BY <1>1, <1>5, <2>1, CommentMoves
  <2> QED
    BY <1>1, <1>4, <2>1, <2>2
<1>11. CASE c \in Digit \cup {"-"}
  <2>1. readToken(from) = Token("number", i, readNumber(i)) /\ c # Nul
    BY <1>6, <1>7, <1>11, TokenIs DEF Marks
  <2>2. i < End /\ text[i] \in Digit \cup {"-"}
    BY <1>1, <1>11, <2>1
  <2>3. readNumber(i) \in i .. End /\ readNumber(i) > i
    BY <1>0, <2>2, NumberMoves DEF NumberCharacter
  <2> QED
    BY <1>0, <1>2, <2>1, <2>2, <2>3 DEF Moves, Token
<1>12. CASE c \in {"t", "f", "n"}
  <2>1. PICK type \in {"true", "false", "null"},
             word \in {<<"t", "r", "u", "e">>, <<"f", "a", "l", "s", "e">>, <<"n", "u", "l", "l">>} :
               readToken(from) = OrError(i, type, match(i, word))
    BY <1>6, <1>12, TokenIs
  <2>2. c # Nul
    BY <1>7, <1>12 DEF Marks
  <2>3. Len(word) \in Nat \ {0}
    OBVIOUS
  <2>4. match(i, word) \in {0} \cup i + 1 .. End
    BY <1>0, <1>1, <2>2, <2>3, MatchMoves
  <2>5. type # "number"
    OBVIOUS
  <2> QED
    BY <1>1, <1>4, <2>1, <2>2, <2>4, <2>5
<1>13. CASE c = Nul
  <2>1. readToken(from) = Token("end", i, After(i))
    BY <1>6, <1>13, TokenIs
  <2>2. After(i) \in i .. End
    BY <1>0, Positions
  <2> QED
    BY <1>0, <1>2, <2>1, <2>2 DEF Moves, Token
<1>14. CASE c \notin Punctuation \cup Digit \cup {"\"", "/", "-", "t", "f", "n", Nul}
  <2>1. readToken(from) = Token("error", i, i + 1) /\ c # Nul
    BY <1>6, <1>14, TokenIs
  <2> QED
    BY <1>1, <1>3, <1>5, <2>1
<1> QED
  BY <1>8, <1>9, <1>10, <1>11, <1>12, <1>13, <1>14

(* skipCommentTokens as a step of its recursion.                           *)
BehindComments(f, from) ==
  LET t == readToken(from) IN IF t.type = "comment" THEN f[t.end] ELSE t

LEMMA CommentsSkipped ==
  ASSUME Document
  PROVE  \A from \in 1 .. End :
           /\ Moves(skipCommentTokens[from], from)
           /\ skipCommentTokens[from].type # "comment"
           /\ readToken(from).type # "end" => skipCommentTokens[from].end > from
<1> DEFINE S == 1 .. End
           V == {readToken(from) : from \in S}
           m == [i \in S |-> End - i]
           G == [p \in S \X [S -> V] |-> BehindComments(p[2], p[1])]
<1>0. End \in Nat /\ End >= 1
  BY Positions
<1>1. m \in [S -> Nat]
  BY <1>0
<1>2. V # {}
  BY <1>0
<1>3. ASSUME NEW i \in S PROVE Moves(readToken(i), i)
  BY <1>3, TokenMoves
<1>4. ASSUME NEW i \in S, readToken(i).type = "comment"
      PROVE  readToken(i).end \in i + 1 .. End /\ readToken(i).end \in S
               /\ m[readToken(i).end] < m[i]
  BY <1>0, <1>3, <1>4 DEF Moves
<1>5. ASSUME NEW i \in S, NEW f \in [S -> V] PROVE BehindComments(f, i) \in V
  <2>1. CASE readToken(i).type = "comment"
    BY <1>4, <2>1 DEF BehindComments
  <2>2. CASE readToken(i).type # "comment"
    BY <2>2 DEF BehindComments
  <2> QED
    BY <2>1, <2>2
<1>6. G \in [S \X [S -> V] -> V]
  BY <1>5
<1>7. ASSUME NEW i \in S, NEW f, NEW g, \A j \in S : m[j] < m[i] => f[j] = g[j]
      PROVE  BehindComments(f, i) = BehindComments(g, i)
  <2>1. CASE readToken(i).type = "comment"
    <3>1. f[readToken(i).end] = g[readToken(i).end]
      BY ONLY <1>4, <1>7, <2>1
    <3> QED
      BY ONLY <3>1 DEF BehindComments
  <2>2. CASE readToken(i).type # "comment"
    BY <2>2 DEF BehindComments
  <2> QED
    BY <2>1, <2>2
<1>8. AsksBelow(S, V, m, G)
  <2>1. ASSUME NEW i \in S, NEW f \in [S -> V], NEW g \in [S -> V],
               \A j \in S : m[j] < m[i] => f[j] = g[j]
        PROVE  G[<<i, f>>] = G[<<i, g>>]
    <3>1. BehindComments(f, i) = BehindComments(g, i)
      BY ONLY <1>7, <2>1
    <3> QED
      BY <3>1
  <2> HIDE DEF m, G, S, V
  <2> QED
    BY ONLY <1>1, <1>2, <1>6, <2>1 DEF AsksBelow
<1>9. \E f : f = [i \in S |-> BehindComments(f, i)]
  <2>1. \E f \in [S -> V] : f = [i \in S |-> G[<<i, f>>]]
    <3> HIDE DEF m, G, S, V
    <3> QED
      BY ONLY <1>8, Recursion
  <2> QED
    BY <2>1
<1>10. skipCommentTokens = [i \in S |-> BehindComments(skipCommentTokens, i)]
  <2>1. skipCommentTokens = CHOOSE f : f = [i \in S |-> BehindComments(f, i)]
    BY DEF skipCommentTokens, BehindComments
  <2> QED
    BY ONLY <1>9, <2>1
<1> DEFINE P == {i \in S : /\ Moves(skipCommentTokens[i], i)
                           /\ skipCommentTokens[i].type # "comment"
                           /\ readToken(i).type # "end" => skipCommentTokens[i].end > i}
<1>11. ASSUME NEW i \in S, \A j \in S : m[j] < m[i] => j \in P PROVE i \in P
  <2>1. CASE readToken(i).type = "comment"
    <3> DEFINE j == readToken(i).end
               t == skipCommentTokens[j]
    <3>1. skipCommentTokens[i] = t
      BY <1>10, <2>1 DEF BehindComments
    <3>2. j \in i + 1 .. End /\ j \in S /\ m[j] < m[i]
      BY <1>4, <2>1
    <3>3. j \in P
      BY ONLY <1>11, <3>2
    <3>4. Moves(t, j) /\ t.type # "comment"
      BY <3>3
    <3>5. Moves(t, i) /\ t.end > i
      <4> HIDE DEF j, t
      <4> QED
        BY <1>0, <3>2, <3>4 DEF Moves
    <3> QED
      BY <3>1, <3>4, <3>5
  <2>2. CASE readToken(i).type # "comment"
    <3>1. skipCommentTokens[i] = readToken(i)
      BY <1>10, <2>2 DEF BehindComments
    <3>2. Moves(readToken(i), i)
      BY <1>3
    <3>3. readToken(i).type # "end" => readToken(i).end > i
      BY <1>0, <3>2 DEF Moves
    <3> QED
      BY <2>2, <3>1, <3>2, <3>3
  <2> QED
    BY <2>1, <2>2
<1>12. S \subseteq P
  <2> HIDE DEF S, P, m
  <2> QED
    BY <1>1, <1>11, Induction
<1> QED
  BY <1>12

-----------------------------------------------------------------------------
(* Numbers.                                                                *)

LEMMA Products ==
  ASSUME NEW a \in Nat, NEW b \in Nat
  PROVE  a * b \in Nat
OBVIOUS

LEMMA Quotients ==
  ASSUME NEW a \in Nat, NEW b \in Nat \ {0}
  PROVE  a \div b \in Nat
OBVIOUS

LEMMA Remainders ==
  ASSUME NEW a \in Nat, NEW b \in Nat \ {0}
  PROVE  a % b \in 0 .. b - 1 /\ (a < b => a % b = a)
OBVIOUS

LEMMA TenToIsPositive == \A n \in Nat : TenTo[n] \in Nat \ {0}
<1> DEFINE S == Nat
           V == Nat \ {0}
           m == [n \in S |-> n]
           G == [p \in S \X [S -> V] |-> IF p[1] = 0 THEN 1 ELSE 10 * p[2][p[1] - 1]]
<1>1. m \in [S -> Nat] /\ V # {}
  OBVIOUS
<1>2. ASSUME NEW n \in S, n # 0 PROVE n - 1 \in S /\ m[n - 1] < m[n]
  BY <1>2
<1>3. G \in [S \X [S -> V] -> V]
  <2> SUFFICES ASSUME NEW n \in S, NEW f \in [S -> V]
               PROVE  (IF n = 0 THEN 1 ELSE 10 * f[n - 1]) \in V
    OBVIOUS
  <2>1. n # 0 => f[n - 1] \in V
    BY <1>2
  <2>2. \A k \in V : 10 * k \in V
    OBVIOUS
  <2> QED
    BY <2>1, <2>2
<1>4. AsksBelow(S, V, m, G)
  <2>1. ASSUME NEW n \in S, NEW f \in [S -> V], NEW g \in [S -> V],
               \A j \in S : m[j] < m[n] => f[j] = g[j]
        PROVE  G[<<n, f>>] = G[<<n, g>>]
    <3>1. n # 0 => f[n - 1] = g[n - 1]
      BY ONLY <1>2, <2>1
    <3> QED
      BY <3>1
  <2> HIDE DEF m, G, S, V
  <2> QED
    BY ONLY <1>1, <1>3, <2>1 DEF AsksBelow
<1>5. \E f : f = [n \in S |-> IF n = 0 THEN 1 ELSE 10 * f[n - 1]]
  <2>1. \E f \in [S -> V] : f = [n \in S |-> G[<<n, f>>]]
    <3> HIDE DEF m, G, S, V
    <3> QED
      BY ONLY <1>4, Recursion
  <2> QED
    BY <2>1
<1>6. TenTo = [n \in S |-> IF n = 0 THEN 1 ELSE 10 * TenTo[n - 1]]
  <2>1. TenTo = CHOOSE f : f = [n \in S |-> IF n = 0 THEN 1 ELSE 10 * f[n - 1]]
    BY DEF TenTo
  <2> QED
    BY ONLY <1>5, <2>1
<1> DEFINE P == {n \in S : TenTo[n] \in V}
<1>7. ASSUME NEW n \in S, \A j \in S : m[j] < m[n] => j \in P PROVE n \in P
  <2>1. CASE n = 0
    BY <1>6, <2>1
  <2>2. CASE n # 0
    <3>1. n - 1 \in P
      BY ONLY <1>2, <1>7, <2>2
    <3>2. TenTo[n] = 10 * TenTo[n - 1]
      BY <1>6, <2>2
    <3> QED
      BY <3>1, <3>2
  <2> QED
    BY <2>1, <2>2
<1>8. S \subseteq P
  <2> HIDE DEF S, P, m
  <2> QED
    BY <1>1, <1>7, Induction
<1> QED
  BY <1>8

(* The numbers of the digits from i to each k up to j.                     *)
Values(f, i, j) ==
  f = [k \in i - 1 .. j |-> IF k < i THEN 0 ELSE 10 * f[k - 1] + DigitValue(text[k])]

Digits(i, j) == \A k \in i .. j : text[k] \in Digit

LEMMA ValuesExist ==
  ASSUME NEW i \in Nat \ {0}, NEW j \in Int, Digits(i, j)
  PROVE  \E f \in [i - 1 .. j -> Nat] : Values(f, i, j)
<1> DEFINE S == i - 1 .. j
           V == Nat
           m == [k \in S |-> k]
           B(k, f) == IF k < i THEN 0 ELSE 10 * f[k - 1] + DigitValue(text[k])
           G == [p \in S \X [S -> V] |-> B(p[1], p[2])]
<1>1. m \in [S -> Nat] /\ V # {}
  OBVIOUS
<1>2. ASSUME NEW k \in S, ~(k < i) PROVE k - 1 \in S /\ m[k - 1] < m[k] /\ DigitValue(text[k]) \in Nat
  <2>1. k \in i .. j
    BY <1>2
  <2>2. DigitValue(text[k]) \in 0 .. 9
    BY <2>1, Characters DEF Digits
  <2> QED
    BY <2>1, <2>2
<1>3. G \in [S \X [S -> V] -> V]
  <2> SUFFICES ASSUME NEW k \in S, NEW f \in [S -> V] PROVE B(k, f) \in V
    OBVIOUS
  <2>1. ASSUME ~(k < i) PROVE f[k - 1] \in Nat /\ DigitValue(text[k]) \in Nat
    BY <1>2, <2>1
  <2> QED
    BY <2>1
<1>4. AsksBelow(S, V, m, G)
  <2>1. ASSUME NEW k \in S, NEW f \in [S -> V], NEW g \in [S -> V],
               \A h \in S : m[h] < m[k] => f[h] = g[h]
        PROVE  G[<<k, f>>] = G[<<k, g>>]
    <3>1. ~(k < i) => f[k - 1] = g[k - 1]
      BY ONLY <1>2, <2>1
    <3> QED
      BY <3>1
  <2> HIDE DEF m, G, S, V
  <2> QED
    BY ONLY <1>1, <1>3, <2>1 DEF AsksBelow
<1>5. PICK f \in [S -> V] : f = [k \in S |-> G[<<k, f>>]]
  <2> HIDE DEF m, G, S, V
  <2> QED
    BY ONLY <1>4, Recursion
<1>6. f = [k \in S |-> B(k, f)]
  BY <1>5
<1> QED
  BY <1>6 DEF Values

LEMMA ValuesAgree ==
  ASSUME NEW i \in Nat \ {0}, NEW j \in Int, NEW f, Values(f, i, j), NEW h \in Int, NEW g, Values(g, i, h)
  PROVE  \A k \in i - 1 .. j : k <= h => f[k] = g[k]
<1> DEFINE S == i - 1 .. j
           m == [k \in S |-> k]
           P == {k \in S : k <= h => f[k] = g[k]}
<1>1. m \in [S -> Nat]
  OBVIOUS
<1>2. ASSUME NEW k \in S, \A l \in S : m[l] < m[k] => l \in P PROVE k \in P
  <2> SUFFICES ASSUME k <= h PROVE f[k] = g[k]
    OBVIOUS
  <2>1. /\ f[k] = IF k < i THEN 0 ELSE 10 * f[k - 1] + DigitValue(text[k])
        /\ g[k] = IF k < i THEN 0 ELSE 10 * g[k - 1] + DigitValue(text[k])
    BY DEF Values
  <2>2. CASE k < i
    BY <2>1, <2>2
  <2>3. CASE ~(k < i)
    <3>1. k - 1 \in S /\ m[k - 1] < m[k] /\ k - 1 <= h
      BY <2>3
    <3>2. k - 1 \in P
      BY ONLY <1>2, <3>1
    <3>3. f[k - 1] = g[k - 1]
      BY <3>1, <3>2
    <3> QED
      BY <2>1, <2>3, <3>3
  <2> QED
    BY <2>2, <2>3
<1>3. S \subseteq P
  <2> HIDE DEF S, P, m
  <2> QED
    BY <1>1, <1>2, Induction
<1> QED
  BY <1>3

LEMMA NumberIs ==
  ASSUME NEW i \in Nat \ {0}, NEW j \in Int, j >= i - 1, Digits(i, j)
  PROVE  /\ NumberAt(i, j) \in Nat
         /\ j = i - 1 => NumberAt(i, j) = 0
         /\ j >= i => NumberAt(i, j) = 10 * NumberAt(i, j - 1) + DigitValue(text[j])
<1>1. ASSUME NEW k \in Int, k >= i - 1, k <= j
      PROVE  \E f \in [i - 1 .. k -> Nat] : Values(f, i, k) /\ NumberAt(i, k) = f[k]
  <2> DEFINE f == CHOOSE f : Values(f, i, k)
  <2>1. NumberAt(i, k) = f[k]
    BY DEF NumberAt, Values
  <2>2. Digits(i, k)
    BY <1>1 DEF Digits
  <2>3. PICK g \in [i - 1 .. k -> Nat] : Values(g, i, k)
    BY <2>2, ValuesExist
  <2>4. Values(f, i, k)
    BY <2>3
  <2>5. f[k] = g[k]
    <3> HIDE DEF f
    <3>1. k \in i - 1 .. k
      BY <1>1
    <3> QED
      BY <2>3, <2>4, <3>1, <1>1, ValuesAgree
  <2> QED
    BY <2>1, <2>3, <2>5
<1>2. PICK f \in [i - 1 .. j -> Nat] : Values(f, i, j) /\ NumberAt(i, j) = f[j]
  BY <1>1
<1>3. NumberAt(i, j) \in Nat
  BY <1>2
<1>4. ASSUME j >= i PROVE NumberAt(i, j) = 10 * NumberAt(i, j - 1) + DigitValue(text[j])
  <2>1. PICK g \in [i - 1 .. j - 1 -> Nat] : Values(g, i, j - 1) /\ NumberAt(i, j - 1) = g[j - 1]
    <3>1. j - 1 \in Int /\ j - 1 >= i - 1 /\ j - 1 <= j
      BY <1>4
    <3> QED
      BY ONLY <1>1, <3>1
  <2>2. f[j - 1] = g[j - 1]
    BY <1>2, <1>4, <2>1, ValuesAgree
  <2>3. f[j] = 10 * f[j - 1] + DigitValue(text[j])
    BY <1>2, <1>4 DEF Values
  <2> QED
    BY <1>2, <2>1, <2>2, <2>3
<1>5. ASSUME j = i - 1 PROVE NumberAt(i, j) = 0
  BY <1>2, <1>5 DEF Values
<1> QED
  BY <1>3, <1>4, <1>5

(* The widths of the words.                                                *)
LEMMA Widths ==
  /\ HalfWord \in Nat /\ HalfWord >= 1
  /\ HalfLong \in Nat /\ HalfLong > 2 * HalfWord /\ HalfLong >= 10
  /\ Unit \in Nat /\ Unit >= 1
BY JsonAssumption

(* The nearest integer to a quotient.                                      *)
LEMMA NearestIs ==
  ASSUME NEW n \in Nat, NEW d \in Nat \ {0}
  PROVE  Nearest(n, d) \in Nat
<1>1. n \div d \in Nat
  BY Quotients
<1> QED
  BY <1>1 DEF Nearest

(* A double may be an infinity.                                            *)
LEMMA OrInfinityIs ==
  ASSUME NEW r \in Int
  PROVE  OrInfinity(r) \in Int
<1>1. MaxReal \in Nat /\ Unit \in Nat
  BY JsonAssumption
<1>2. Infinity \in Nat
  <2>1. MaxReal + 1 \in Nat
    BY <1>1
  <2> QED
    BY <1>1, <2>1, Products DEF Infinity
<1> QED
  BY <1>2 DEF OrInfinity

(* The numbers a double is rounded to at the ends of the long words.       *)
LEMMA RoundedIs ==
  ASSUME NEW r \in Int
  PROVE  /\ Rounded(r) \in Int
         /\ r = Unit * maxLargestInt \/ r = Unit * maxLargestUInt => Rounded(r) = r + Unit
         /\ r # Unit * maxLargestInt /\ r # Unit * maxLargestUInt /\ r >= 0 => Rounded(r) = r
         /\ -r = Unit * maxLargestInt \/ -r = Unit * maxLargestUInt => Rounded(r) = r - Unit
         /\ -r # Unit * maxLargestInt /\ -r # Unit * maxLargestUInt /\ r <= 0 => Rounded(r) = r
<1> DEFINE a == Unit * maxLargestInt
           b == Unit * maxLargestUInt
<1>1. a \in Nat /\ a > 0 /\ b \in Nat /\ b > 0
  <2>1. maxLargestInt \in Nat \ {0} /\ maxLargestUInt \in Nat \ {0} /\ Unit \in Nat \ {0}
    BY Widths DEF maxLargestInt, maxLargestUInt
  <2>2. \A m \in Nat \ {0} : \A n \in Nat \ {0} : m * n \in Nat /\ m * n > 0
    OBVIOUS
  <2> QED
    BY <2>1, <2>2
<1> HIDE DEF a, b
<1>2. ASSUME r = a \/ r = b PROVE Rounded(r) = r + Unit
  <2>1. r \in {a, b} /\ -r \notin {a, b}
    BY <1>1, <1>2
  <2> QED
    BY <2>1, Zenon DEF Rounded, a, b
<1>3. ASSUME -r = a \/ -r = b PROVE Rounded(r) = r - Unit
  <2>1. -r \in {a, b} /\ r \notin {a, b}
    BY <1>1, <1>3
  <2> QED
    BY <2>1, Zenon DEF Rounded, a, b
<1>4. ASSUME r # a, r # b, -r # a, -r # b PROVE Rounded(r) = r
  <2>1. -r \notin {a, b} /\ r \notin {a, b}
    BY <1>4
  <2> QED
    BY <2>1, Zenon DEF Rounded, a, b
<1>5. r >= 0 => -r # a /\ -r # b
  BY <1>1
<1>6. r <= 0 => r # a /\ r # b
  BY <1>1
<1>7. Rounded(r) \in Int
  BY <1>2, <1>3, <1>4, Widths
<1> QED
  BY <1>2, <1>3, <1>4, <1>5, <1>6, <1>7 DEF a, b

(* The places of a token.                                                  *)
Within(t) == t.start \in 1 .. End /\ t.end \in t.start + 1 .. End

LEMMA RealDecoded ==
  ASSUME Document, NEW t, Within(t), NEW v \in decodeDouble(t)
  PROVE  v.type = "real" /\ v.real \in Int
<1> DEFINE first == IF text[t.start] = "-" THEN t.start + 1 ELSE t.start
           stop(i) == Min({j \in i .. t.end : j = t.end \/ text[j] \notin Digit})
           point == stop(first)
           hasPoint == point < t.end /\ text[point] = "."
           mantissa == IF hasPoint THEN stop(point + 1) ELSE point
           places == IF hasPoint THEN mantissa - point - 1 ELSE 0
           sign == IF mantissa < t.end - 1 /\ text[mantissa] \in {"e", "E"}
                     /\ text[mantissa + 1] \in {"+", "-"} THEN mantissa + 1 ELSE mantissa
           hasExponent == mantissa < t.end /\ text[mantissa] \in {"e", "E"}
           exponent == IF hasExponent THEN NumberAt(sign + 1, stop(sign + 1) - 1) ELSE 0
           digits == NumberAt(first, point - 1) * TenTo[places]
                       + (IF hasPoint THEN NumberAt(point + 1, mantissa - 1) ELSE 0)
           size == IF hasExponent /\ text[sign] = "-"
                     THEN Nearest(digits * Unit, TenTo[places + exponent])
                     ELSE Nearest(digits * Unit * TenTo[exponent], TenTo[places])
<1>1. v = RealValue(IF first = t.start THEN size ELSE -size)
  BY DEF decodeDouble
<1>2. End \in Nat /\ t.start \in Nat \ {0} /\ t.end \in Nat /\ t.end > t.start
  BY Positions DEF Within
<1>3. ASSUME NEW i \in Nat \ {0}, i <= t.end
      PROVE  stop(i) \in i .. t.end /\ Digits(i, stop(i) - 1)
  <2> DEFINE at == {j \in i .. t.end : j = t.end \/ text[j] \notin Digit}
  <2>1. stop(i) = First(at)
    BY DEF Min, First
  <2>2. at \subseteq i .. t.end /\ t.end \in at
    BY <1>2, <1>3
  <2>3. First(at) \in i .. t.end /\ \A n \in at : First(at) <= n
    <3> HIDE DEF at
    <3> QED
      BY <1>2, <2>2, FirstIsLeast
  <2> HIDE DEF stop
  <2>4. ASSUME NEW k \in i .. stop(i) - 1 PROVE text[k] \in Digit
    <3>1. k \in i .. t.end /\ ~(First(at) <= k)
      BY <1>2, <2>1, <2>3
    <3>2. k \notin at
      <4> HIDE DEF at
      <4> QED
        BY <2>3, <3>1
    <3> QED
      BY <3>1, <3>2
  <2> QED
    BY <2>1, <2>3, <2>4 DEF Digits
<1> HIDE DEF stop
<1>4. ASSUME NEW i \in Nat \ {0}, i <= t.end PROVE NumberAt(i, stop(i) - 1) \in Nat
  <2>1. stop(i) \in i .. t.end /\ Digits(i, stop(i) - 1)
    BY <1>3, <1>4
  <2>2. stop(i) - 1 \in Int /\ stop(i) - 1 >= i - 1
    BY <2>1
  <2> QED
    BY <2>1, <2>2, NumberIs
<1>5. first \in Nat \ {0} /\ first <= t.end
  BY <1>2
<1> HIDE DEF first
<1>6. point \in first .. t.end /\ NumberAt(first, point - 1) \in Nat
  BY <1>3, <1>4, <1>5
<1> HIDE DEF point
<1>7. point \in Nat \ {0}
  BY <1>5, <1>6
<1>8. /\ mantissa \in point .. t.end
      /\ places \in Nat
      /\ (IF hasPoint THEN NumberAt(point + 1, mantissa - 1) ELSE 0) \in Nat
  <2>1. CASE hasPoint
    <3>1. point + 1 \in Nat \ {0} /\ point + 1 <= t.end
      BY <1>2, <1>6, <1>7, <2>1
    <3>2. stop(point + 1) \in point + 1 .. t.end /\ NumberAt(point + 1, stop(point + 1) - 1) \in Nat
      BY <1>3, <1>4, <3>1
    <3>3. mantissa = stop(point + 1) /\ places = mantissa - point - 1
      BY <2>1
    <3> QED
      BY <1>2, <1>7, <2>1, <3>2, <3>3
  <2>2. CASE ~hasPoint
    <3>1. mantissa = point /\ places = 0
      BY <2>2
    <3> QED
      BY <1>2, <1>6, <1>7, <2>2, <3>1
  <2> QED
    BY <2>1, <2>2
<1> HIDE DEF mantissa, places, hasPoint
<1>9. exponent \in Nat
  <2>1. CASE hasExponent
    <3>1. sign + 1 \in Nat \ {0} /\ sign + 1 <= t.end
      BY <1>2, <1>7, <1>8, <2>1
    <3> HIDE DEF sign
    <3>2. NumberAt(sign + 1, stop(sign + 1) - 1) \in Nat
      BY <1>4, <3>1
    <3> QED
      BY <2>1, <3>2
  <2>2. CASE ~hasExponent
    BY <2>2
  <2> QED
    BY <2>1, <2>2
<1> HIDE DEF exponent, sign, hasExponent
<1>10. /\ TenTo[places] \in Nat \ {0} /\ TenTo[exponent] \in Nat \ {0}
       /\ TenTo[places + exponent] \in Nat \ {0}
  <2>1. places + exponent \in Nat
    BY <1>8, <1>9
  <2> QED
    BY <1>8, <1>9, <2>1, TenToIsPositive
<1>11. digits \in Nat
  <2>1. NumberAt(first, point - 1) * TenTo[places] \in Nat
    BY <1>6, <1>10, Products
  <2> QED
    BY <1>8, <2>1
<1> HIDE DEF digits
<1>12. size \in Nat
  <2>1. digits * Unit \in Nat
    BY <1>11, Products, Widths
  <2>2. digits * Unit * TenTo[exponent] \in Nat
    BY <1>10, <2>1, Products
  <2>3. Nearest(digits * Unit, TenTo[places + exponent]) \in Nat
    BY <1>10, <2>1, NearestIs
  <2>4. Nearest(digits * Unit * TenTo[exponent], TenTo[places]) \in Nat
    BY <1>10, <2>2, NearestIs
  <2> QED
    BY <2>3, <2>4
<1> HIDE DEF size
<1>13. (IF first = t.start THEN size ELSE -size) \in Int
  BY <1>12
<1> QED
  BY <1>1, <1>13, RoundedIs, OrInfinityIs DEF RealValue

(* The last digit is taken only if the number still fits.                  *)
LEMMA LastDigitFits ==
  ASSUME NEW max \in Nat, NEW p \in Nat, NEW d \in 0 .. 9, ~Overflows(p, d, TRUE, max)
  PROVE  10 * p + d <= max
<1>1. max = 10 * (max \div 10) + (max % 10) /\ max \div 10 \in Nat /\ max % 10 \in 0 .. 9
  OBVIOUS
<1>2. p < max \div 10 \/ (p = max \div 10 /\ d <= max % 10)
  BY <1>1 DEF Overflows
<1> QED
  BY <1>1, <1>2

LEMMA NumberDecoded ==
  ASSUME Document, NEW t, Within(t), t.end = readNumber(t.start), text[t.start] \in Digit \cup {"-"},
         NEW v \in decodeNumber(t)
  PROVE  Fits(v) /\ v.type # "object"
<1> DEFINE negative == text[t.start] = "-"
           first == IF negative THEN t.start + 1 ELSE t.start
           isDouble_ == \E i \in t.start .. t.end - 1 :
                          text[i] \in {".", "e", "E", "+"} \/ (text[i] = "-" /\ i # t.start)
           max == IF negative THEN HalfLong ELSE maxLargestUInt
           n == NumberAt(first, t.end - 1)
           value == n % (2 * HalfLong)
           over == \E i \in first .. t.end - 1 :
                     Overflows(NumberAt(first, i - 1), DigitValue(text[i]), i = t.end - 1, max)
<1>1. v \in IF isDouble_ \/ over
              THEN decodeDouble(t)
              ELSE {IF negative THEN IntValue(-value)
                    ELSE IF value <= maxInt THEN IntValue(value) ELSE UIntValue(value)}
  BY DEF decodeNumber
<1>2. End \in Nat /\ t.start \in Nat \ {0} /\ t.end \in Nat /\ t.end > t.start
  BY Positions DEF Within
<1>3. first \in Nat \ {0} /\ first <= t.end /\ first >= t.start
  BY <1>2
<1>4. max \in Nat /\ (negative => max = HalfLong) /\ max < 2 * HalfLong /\ (~negative => max = maxLargestUInt)
  BY Widths DEF maxLargestUInt
<1>5. CASE isDouble_ \/ over
  <2>1. v \in decodeDouble(t)
    BY <1>1, <1>5
  <2> QED
    BY <2>1, RealDecoded DEF Fits, ValueType
<1>6. CASE ~isDouble_ /\ ~over
  <2>1. ASSUME NEW k \in first .. t.end - 1 PROVE text[k] \in Digit
    <3>1. k \in t.start .. t.end - 1
      BY <1>2, <1>3
    <3>2. text[k] \in NumberCharacter
      BY <3>1, NumberMoves DEF Within
    <3>3. text[k] \notin {".", "e", "E", "+"} /\ ~(text[k] = "-" /\ k # t.start)
      BY <1>6, <3>1
    <3>4. k = t.start => text[k] # "-"
      BY <1>2
    <3> QED
      BY <3>2, <3>3, <3>4 DEF NumberCharacter
  <2>2. Digits(first, t.end - 1)
    BY <2>1 DEF Digits
  <2> HIDE DEF first, negative, max, isDouble_
  <2>3. n \in Nat /\ n <= max
    <3>1. CASE first = t.end
      <4>1. t.end - 1 \in Int /\ t.end - 1 >= first - 1 /\ t.end - 1 = first - 1
        BY <1>2, <3>1
      <4> QED
        BY <1>3, <1>4, <2>2, <4>1, NumberIs
    <3>2. CASE first # t.end
      <4> DEFINE last == t.end - 1
      <4>1. last \in first .. t.end - 1 /\ last \in Int /\ last >= first /\ last >= first - 1
        BY <1>2, <1>3, <3>2
      <4>2. ~Overflows(NumberAt(first, last - 1), DigitValue(text[last]), last = t.end - 1, max)
        BY <1>6, <4>1
      <4>3. n \in Nat /\ n = 10 * NumberAt(first, last - 1) + DigitValue(text[last])
        <5> HIDE DEF last
        <5>1. last = t.end - 1
          BY DEF last
        <5> QED
          BY <1>3, <2>2, <4>1, <5>1, NumberIs
      <4>4. NumberAt(first, last - 1) \in Nat
        <5>1. last - 1 \in Int /\ last - 1 >= first - 1
          BY <1>2, <1>3, <4>1
        <5>2. Digits(first, last - 1)
          <6>1. \A k \in first .. last - 1 : k \in first .. t.end - 1
            BY <1>2, <1>3
          <6> QED
            BY <2>1, <6>1 DEF Digits
        <5> HIDE DEF last
        <5> QED
          BY <1>3, <5>1, <5>2, NumberIs
      <4>5. DigitValue(text[last]) \in 0 .. 9
        BY <2>1, <4>1, Characters
      <4>6. ~Overflows(NumberAt(first, last - 1), DigitValue(text[last]), TRUE, max)
        BY <4>2
      <4> HIDE DEF last
      <4> QED
        BY <1>4, <4>3, <4>4, <4>5, <4>6, LastDigitFits
    <3> QED
      BY <3>1, <3>2
  <2> HIDE DEF n
  <2>4. value = n
    <3>1. n < 2 * HalfLong /\ 2 * HalfLong \in Nat \ {0}
      BY <1>4, <2>3, Widths
    <3> QED
      BY <2>3, <3>1, Remainders
  <2>5. v = IF negative THEN IntValue(-n) ELSE IF n <= maxInt THEN IntValue(n) ELSE UIntValue(n)
    <3> HIDE DEF value
    <3> QED
      BY <1>1, <1>6, <2>4
  <2>6. CASE negative
    <3>1. v = IntValue(-n)
      BY <2>5, <2>6
    <3>2. -n \in minLargestInt .. maxLargestInt
      BY <1>4, <2>3, <2>6, Widths DEF minLargestInt, maxLargestInt
    <3> QED
      BY <3>1, <3>2 DEF Fits, ValueType, IntValue
  <2>7. CASE ~negative /\ n <= maxInt
    <3>1. v = IntValue(n)
      BY <2>5, <2>7
    <3>2. n \in minLargestInt .. maxLargestInt
      BY <2>3, <2>7, Widths DEF minLargestInt, maxLargestInt, maxInt
    <3> QED
      BY <3>1, <3>2 DEF Fits, ValueType, IntValue
  <2>8. CASE ~negative /\ ~(n <= maxInt)
    <3>1. v = UIntValue(n)
      BY <2>5, <2>8
    <3>2. n \in 0 .. maxLargestUInt
      BY <1>4, <2>3, <2>8, Widths
    <3> QED
      BY <3>1, <3>2 DEF Fits, ValueType, UIntValue
  <2> QED
    BY <2>6, <2>7, <2>8
<1> QED
  BY <1>5, <1>6

-----------------------------------------------------------------------------
(* Strings.                                                                *)

LEMMA EscapeIs ==
  ASSUME NEW c \in Byte
  PROVE  Escape(c) \in Byte
<1>1. Char[8] \in Byte /\ Char[12] \in Byte /\ Char[10] \in Byte /\ Char[13] \in Byte /\ Char[9] \in Byte
  <2>1. 8 \in 0 .. 255 /\ 12 \in 0 .. 255 /\ 10 \in 0 .. 255 /\ 13 \in 0 .. 255 /\ 9 \in 0 .. 255
    OBVIOUS
  <2> QED
    BY <2>1, Characters
<1>2. CASE c = "b"
  <2>1. Escape(c) = Char[8]
    BY <1>2, Zenon DEF Escape
  <2> QED
    BY <1>1, <2>1
<1>3. CASE c = "f"
  <2>1. Escape(c) = Char[12]
    BY <1>3, Zenon DEF Escape
  <2> QED
    BY <1>1, <2>1
<1>4. CASE c = "n"
  <2>1. Escape(c) = Char[10]
    BY <1>4, Zenon DEF Escape
  <2> QED
    BY <1>1, <2>1
<1>5. CASE c = "r"
  <2>1. Escape(c) = Char[13]
    BY <1>5, Zenon DEF Escape
  <2> QED
    BY <1>1, <2>1
<1>6. CASE c = "t"
  <2>1. Escape(c) = Char[9]
    BY <1>6, Zenon DEF Escape
  <2> QED
    BY <1>1, <2>1
<1>7. CASE c # "b" /\ c # "f" /\ c # "n" /\ c # "r" /\ c # "t"
  <2>1. Escape(c) = c
    BY <1>7, Zenon DEF Escape
  <2> QED
    BY <2>1
<1> QED
  BY <1>2, <1>3, <1>4, <1>5, <1>6, <1>7

LEMMA HexIs ==
  ASSUME NEW c \in HexDigit
  PROVE  HexValue(c) \in 0 .. 15
<1>1. CASE c \in Digit
  <2>1. HexValue(c) = DigitValue(c)
    BY <1>1 DEF HexValue
  <2>2. DigitValue(c) \in 0 .. 9
    BY <1>1, Characters
  <2> QED
    BY <2>1, <2>2
<1>2. CASE c \notin Digit
  <2>1. PICK n \in (65 .. 70) \cup (97 .. 102) : c = Char[n]
    BY <1>2 DEF HexDigit
  <2>2. n \in 0 .. 255
    OBVIOUS
  <2>3. Code[c] = n
    BY <2>1, <2>2, Characters
  <2>4. HexValue(c) = 10 + (n - (IF n >= 97 THEN 97 ELSE 65))
    BY <1>2, <2>3 DEF HexValue
  <2> QED
    BY <2>4
<1> QED
  BY <1>1, <1>2

LEMMA FourDigits ==
  ASSUME NEW a \in 0 .. 15, NEW b \in 0 .. 15, NEW c \in 0 .. 15, NEW d \in 0 .. 15
  PROVE  /\ 4096 * a + 256 * b + 16 * c + d \in Nat
         /\ 4096 * a + 256 * b + 16 * c + d <= 65535
BY SMT

LEMMA UnitIs ==
  ASSUME NEW i \in Nat, NEW end \in Nat, NEW n \in decodeUnicodeEscapeSequence(i, end)
  PROVE  n \in Nat /\ n <= 65535 /\ i + 4 <= end
<1>1. /\ end - i >= 4 /\ \A j \in i .. i + 3 : text[j] \in HexDigit
      /\ n = 4096 * HexValue(text[i]) + 256 * HexValue(text[i + 1])
               + 16 * HexValue(text[i + 2]) + HexValue(text[i + 3])
  BY SMT DEF decodeUnicodeEscapeSequence
<1>2. \A j \in i .. i + 3 : HexValue(text[j]) \in 0 .. 15
  BY <1>1, HexIs, SMT
<1>3. /\ HexValue(text[i]) \in 0 .. 15 /\ HexValue(text[i + 1]) \in 0 .. 15
      /\ HexValue(text[i + 2]) \in 0 .. 15 /\ HexValue(text[i + 3]) \in 0 .. 15
  BY <1>2, SMT
<1>4. n \in Nat /\ n <= 65535
  <2> DEFINE a == HexValue(text[i])
             b == HexValue(text[i + 1])
             c == HexValue(text[i + 2])
             d == HexValue(text[i + 3])
  <2>1. a \in 0 .. 15 /\ b \in 0 .. 15 /\ c \in 0 .. 15 /\ d \in 0 .. 15
    BY ONLY <1>3, SMT
  <2>2. n = 4096 * a + 256 * b + 16 * c + d
    BY <1>1, SMT
  <2> HIDE DEF a, b, c, d
  <2> QED
    BY ONLY <2>1, <2>2, FourDigits, SMT
<1>5. i + 4 <= end
  BY <1>1, SMT
<1> QED
  BY <1>4, <1>5, SMT

LEMMA CodePointIs ==
  ASSUME NEW i \in Nat, NEW end \in Nat, NEW p \in decodeUnicodeCodePoint(i, end)
  PROVE  p[1] \in Nat /\ p[1] <= 1114111 /\ p[2] \in Nat /\ p[2] >= 4 /\ i + p[2] <= end
<1>1. PICK unit \in decodeUnicodeEscapeSequence(i, end) :
        p \in IF unit \notin 55296 .. 56319 THEN {<<unit, 4>>}
              ELSE IF end - i < 10 \/ text[i + 4] # "\\" \/ text[i + 5] # "u" THEN {}
              ELSE {<<65536 + 1024 * (unit % 1024) + (low % 1024), 10>> :
                      low \in decodeUnicodeEscapeSequence(i + 6, end)}
  BY SMT DEF decodeUnicodeCodePoint
<1>2. unit \in Nat /\ unit <= 65535 /\ i + 4 <= end
  BY UnitIs, SMT
<1>3. CASE unit \notin 55296 .. 56319
  BY <1>1, <1>2, <1>3, SMT
<1>4. CASE unit \in 55296 .. 56319
  <2>1. PICK low \in decodeUnicodeEscapeSequence(i + 6, end) :
          p = <<65536 + 1024 * (unit % 1024) + (low % 1024), 10>>
    BY <1>1, <1>4, SMT
  <2>2. low \in Nat /\ low <= 65535 /\ i + 6 + 4 <= end
    BY <2>1, UnitIs, SMT
  <2>3. /\ unit % 1024 \in Nat /\ unit % 1024 <= 1023
        /\ low % 1024 \in Nat /\ low % 1024 <= 1023
    BY <1>2, <2>2, SMT
  <2> QED
    BY <2>1, <2>2, <2>3, SMT
<1> QED
  BY <1>3, <1>4, SMT

LEMMA UTF8Is ==
  ASSUME NEW cp \in Nat, cp <= 1114111
  PROVE  codePointToUTF8(cp) \in Seq(Byte)
<1>1. \A n \in 0 .. 255 : Char[n] \in Byte
  BY SMT DEF Byte
<1>2. ASSUME NEW n \in Nat PROVE Continuation(n) \in Byte
  <2>1. 128 + (n % 64) \in 0 .. 255
    BY SMT
  <2> QED
    BY <1>1, <2>1, SMT DEF Continuation
<1>3. cp \in Nat /\ cp \div 64 \in Nat /\ cp \div 4096 \in Nat
  BY SMT
<1>4. Continuation(cp) \in Byte /\ Continuation(cp \div 64) \in Byte /\ Continuation(cp \div 4096) \in Byte
  BY ONLY <1>2, <1>3, SMT
<1>5. CASE cp <= 127
  <2>1. cp \in 0 .. 255
    BY <1>5, SMT
  <2>2. codePointToUTF8(cp) = <<Char[cp]>>
    BY <1>5, SMT DEF codePointToUTF8
  <2> QED
    BY ONLY <1>1, <2>1, <2>2, SMT
<1>6. CASE ~(cp <= 127) /\ cp <= 2047
  <2>1. 192 + (cp \div 64) \in 0 .. 255
    BY <1>6, SMT
  <2>2. codePointToUTF8(cp) = <<Char[192 + (cp \div 64)], Continuation(cp)>>
    BY <1>6, SMT DEF codePointToUTF8
  <2> QED
    BY ONLY <1>1, <1>4, <2>1, <2>2, SMT
<1>7. CASE ~(cp <= 2047) /\ cp <= 65535
  <2>1. 224 + (cp \div 4096) \in 0 .. 255
    BY <1>7, SMT
  <2>2. codePointToUTF8(cp) =
          <<Char[224 + (cp \div 4096)], Continuation(cp \div 64), Continuation(cp)>>
    BY <1>7, SMT DEF codePointToUTF8
  <2> QED
    BY ONLY <1>1, <1>4, <2>1, <2>2, SMT
<1>8. CASE ~(cp <= 65535)
  <2>1. 240 + (cp \div 262144) \in 0 .. 255
    BY <1>8, SMT
  <2>2. codePointToUTF8(cp) =
          <<Char[240 + (cp \div 262144)], Continuation(cp \div 4096),
            Continuation(cp \div 64), Continuation(cp)>>
    BY <1>8, SMT DEF codePointToUTF8
  <2> QED
    BY ONLY <1>1, <1>4, <2>1, <2>2, SMT
<1> QED
  BY <1>5, <1>6, <1>7, <1>8, SMT

(* decodeChars as a step of its recursion.                                 *)
StringRest(f, i, end) ==
  IF i >= end THEN {<<>>}
  ELSE IF text[i] # "\\" THEN Before(<<text[i]>>, f[i + 1])
  ELSE IF i + 1 >= end THEN {}
  ELSE IF text[i + 1] = "u"
    THEN UNION {Before(codePointToUTF8(p[1]), f[i + 2 + p[2]]) :
                  p \in decodeUnicodeCodePoint(i + 2, end)}
  ELSE IF text[i + 1] \in {"\"", "/", "\\", "b", "f", "n", "r", "t"}
    THEN Before(<<Escape(text[i + 1])>>, f[i + 2])
  ELSE {}

LEMMA BeforeIs ==
  ASSUME NEW c \in Seq(Byte), NEW strings \in SUBSET Seq(Byte)
  PROVE  Before(c, strings) \in SUBSET Seq(Byte)
<1>1. \A s \in strings : c \o s \in Seq(Byte)
  BY ConcatProperties
<1> QED
  BY <1>1 DEF Before

LEMMA CharsDecoded ==
  ASSUME Document, NEW start \in 1 .. End, NEW end \in Nat, end < End
  PROVE  decodeChars(start, end) \subseteq Seq(Byte)
<1> DEFINE S == start .. End
           T == Seq(Byte)
           V == SUBSET T
           m == [i \in S |-> End - i]
           G == [p \in S \X [S -> V] |-> StringRest(p[2], p[1], end)]
           Escaped(i) == text[i + 1] \in {"\"", "/", "\\", "b", "f", "n", "r", "t"}
           D(i) == decodeUnicodeCodePoint(i + 2, end)
<1>0. End \in Nat /\ start \in Nat /\ \A i \in S : i \in Nat /\ i \in 1 .. End
  BY Positions
<1>1. \A i \in S : (~(i >= end) <=> i < end) /\ (i + 1 < end <=> ~(i + 1 >= end)) /\ (i + 1 < end => i < end)
  BY <1>0
<1>2. ASSUME NEW i \in S, NEW f, i >= end PROVE StringRest(f, i, end) = {<<>>}
  BY <1>2, Zenon DEF StringRest
<1>3. ASSUME NEW i \in S, NEW f, i < end, text[i] # "\\"
      PROVE  StringRest(f, i, end) = Before(<<text[i]>>, f[i + 1])
  <2>1. ~(i >= end)
    BY <1>1, <1>3
  <2> QED
    BY ONLY <1>3, <2>1 DEF StringRest
<1>4. ASSUME NEW i \in S, NEW f, i + 1 < end, text[i] = "\\", text[i + 1] = "u"
      PROVE  StringRest(f, i, end) =
               UNION {Before(codePointToUTF8(p[1]), f[i + 2 + p[2]]) : p \in D(i)}
  <2>1. ~(i >= end) /\ ~(i + 1 >= end) /\ ~(text[i] # "\\")
    BY <1>1, <1>4
  <2> QED
    BY ONLY <1>4, <2>1 DEF StringRest
<1>5. ASSUME NEW i \in S, NEW f, i + 1 < end, text[i] = "\\", Escaped(i)
      PROVE  StringRest(f, i, end) = Before(<<Escape(text[i + 1])>>, f[i + 2])
  <2>1. ~(i >= end) /\ ~(i + 1 >= end) /\ ~(text[i] # "\\") /\ ~(text[i + 1] = "u")
    BY <1>1, <1>5
  <2> QED
    BY ONLY <1>5, <2>1 DEF StringRest
<1>6. ASSUME NEW i \in S, NEW f, i < end, text[i] = "\\",
             i + 1 < end => text[i + 1] # "u" /\ ~Escaped(i)
      PROVE  StringRest(f, i, end) = {}
  <2>1. ~(i >= end) /\ ~(text[i] # "\\") /\ (~(i + 1 < end) => i + 1 >= end)
    BY <1>1, <1>6
  <2> QED
    BY ONLY <1>6, <1>1, <2>1 DEF StringRest
<1>7. ASSUME NEW i \in S, i < end PROVE i + 1 \in S /\ m[i + 1] < m[i] /\ text[i] \in Byte
  <2>1. i + 1 \in S /\ m[i + 1] < m[i] /\ i < End
    BY <1>0, <1>7
  <2> QED
    BY <1>0, <2>1, Positions
<1>8. ASSUME NEW i \in S, i + 1 < end
      PROVE  i + 2 \in S /\ m[i + 2] < m[i] /\ Escape(text[i + 1]) \in Byte
  <2>1. i + 2 \in S /\ m[i + 2] < m[i] /\ i + 1 \in 1 .. End /\ i + 1 < End
    BY <1>0, <1>8
  <2>2. text[i + 1] \in Byte
    BY <2>1, Positions
  <2> QED
    BY <2>1, <2>2, EscapeIs
<1>9. ASSUME NEW i \in S, i + 1 < end, NEW p \in D(i)
      PROVE  /\ i + 2 + p[2] \in S /\ m[i + 2 + p[2]] < m[i]
             /\ codePointToUTF8(p[1]) \in T
  <2>1. i + 2 \in Nat /\ end \in Nat
    BY <1>0
  <2>2. p[1] \in Nat /\ p[1] <= 1114111 /\ p[2] \in Nat /\ p[2] >= 4 /\ i + 2 + p[2] <= end
    BY ONLY <2>1, CodePointIs, SMT
  <2>3. i + 2 + p[2] \in S /\ m[i + 2 + p[2]] < m[i]
    <3>1. i + 2 + p[2] <= end /\ p[2] \in Nat
      BY <2>2, SMT
    <3> QED
      BY <1>0, <3>1, SMT
  <2> QED
    BY <2>2, <2>3, UTF8Is, SMT
<1>10. m \in [S -> Nat]
  BY <1>0
<1> HIDE DEF m, D, Escaped
<1>11. ASSUME NEW i \in S
       PROVE  \/ i >= end
              \/ i < end /\ text[i] # "\\"
              \/ i + 1 < end /\ i < end /\ text[i] = "\\" /\ text[i + 1] = "u"
              \/ i + 1 < end /\ i < end /\ text[i] = "\\" /\ Escaped(i)
              \/ i < end /\ text[i] = "\\" /\ (i + 1 < end => text[i + 1] # "u" /\ ~Escaped(i))
  BY <1>1
<1>12. ASSUME NEW i \in S, NEW f, NEW g, \A j \in S : m[j] < m[i] => f[j] = g[j]
       PROVE  StringRest(f, i, end) = StringRest(g, i, end)
  <2>1. CASE i >= end
    BY ONLY <1>2, <2>1
  <2>2. CASE i < end /\ text[i] # "\\"
    <3>1. f[i + 1] = g[i + 1]
      BY ONLY <1>7, <1>12, <2>2
    <3> QED
      BY ONLY <1>3, <2>2, <3>1
  <2>3. CASE i + 1 < end /\ i < end /\ text[i] = "\\" /\ text[i + 1] = "u"
    <3>1. \A p \in D(i) : f[i + 2 + p[2]] = g[i + 2 + p[2]]
      BY ONLY <1>9, <1>12, <2>3
    <3>2. UNION {Before(codePointToUTF8(p[1]), f[i + 2 + p[2]]) : p \in D(i)}
            = UNION {Before(codePointToUTF8(p[1]), g[i + 2 + p[2]]) : p \in D(i)}
      BY ONLY <3>1
    <3> QED
      BY ONLY <1>4, <2>3, <3>2
  <2>4. CASE i + 1 < end /\ i < end /\ text[i] = "\\" /\ Escaped(i)
    <3>1. f[i + 2] = g[i + 2]
      BY ONLY <1>8, <1>12, <2>4
    <3> QED
      BY ONLY <1>5, <2>4, <3>1
  <2>5. CASE i < end /\ text[i] = "\\" /\ (i + 1 < end => text[i + 1] # "u" /\ ~Escaped(i))
    BY ONLY <1>6, <2>5
  <2> QED
    BY ONLY <1>11, <2>1, <2>2, <2>3, <2>4, <2>5
<1>13. ASSUME NEW i \in S, NEW f, \A j \in S : m[j] < m[i] => f[j] \in V
       PROVE  StringRest(f, i, end) \in V
  <2>1. CASE i >= end
    <3>1. <<>> \in T
      OBVIOUS
    <3> QED
      BY <1>2, <2>1, <3>1
  <2>2. CASE i < end /\ text[i] # "\\"
    <3>1. f[i + 1] \in V /\ text[i] \in Byte
      BY ONLY <1>7, <1>13, <2>2
    <3>2. <<text[i]>> \in T
      BY <3>1
    <3>3. StringRest(f, i, end) = Before(<<text[i]>>, f[i + 1])
      BY ONLY <1>3, <2>2
    <3> QED
      BY ONLY <3>1, <3>2, <3>3, BeforeIs
  <2>3. CASE i + 1 < end /\ i < end /\ text[i] = "\\" /\ text[i + 1] = "u"
    <3>1. ASSUME NEW p \in D(i) PROVE Before(codePointToUTF8(p[1]), f[i + 2 + p[2]]) \in V
      <4>1. f[i + 2 + p[2]] \in V /\ codePointToUTF8(p[1]) \in T
        BY ONLY <1>9, <1>13, <2>3
      <4> QED
        BY ONLY <4>1, BeforeIs
    <3>2. StringRest(f, i, end) = UNION {Before(codePointToUTF8(p[1]), f[i + 2 + p[2]]) : p \in D(i)}
      BY ONLY <1>4, <2>3
    <3> HIDE DEF T
    <3>3. \A p \in D(i) : Before(codePointToUTF8(p[1]), f[i + 2 + p[2]]) \subseteq T
      BY <3>1
    <3> QED
      BY <3>2, <3>3
  <2>4. CASE i + 1 < end /\ i < end /\ text[i] = "\\" /\ Escaped(i)
    <3>1. f[i + 2] \in V /\ Escape(text[i + 1]) \in Byte
      BY ONLY <1>8, <1>13, <2>4
    <3>2. <<Escape(text[i + 1])>> \in T
      BY <3>1
    <3>3. StringRest(f, i, end) = Before(<<Escape(text[i + 1])>>, f[i + 2])
      BY ONLY <1>5, <2>4
    <3> QED
      BY ONLY <3>1, <3>2, <3>3, BeforeIs
  <2>5. CASE i < end /\ text[i] = "\\" /\ (i + 1 < end => text[i + 1] # "u" /\ ~Escaped(i))
    BY <1>6, <2>5
  <2> QED
    BY ONLY <1>11, <2>1, <2>2, <2>3, <2>4, <2>5
<1>14. G \in [S \X [S -> V] -> V]
  <2>1. ASSUME NEW i \in S, NEW f \in [S -> V] PROVE StringRest(f, i, end) \in V
    <3>1. \A j \in S : f[j] \in V
      OBVIOUS
    <3> QED
      BY ONLY <1>13, <3>1
  <2> HIDE DEF S, V
  <2> QED
    BY <2>1
<1>15. AsksBelow(S, V, m, G)
  <2>1. ASSUME NEW i \in S, NEW f \in [S -> V], NEW g \in [S -> V],
               \A j \in S : m[j] < m[i] => f[j] = g[j]
        PROVE  G[<<i, f>>] = G[<<i, g>>]
    <3>1. StringRest(f, i, end) = StringRest(g, i, end)
      BY ONLY <1>12, <2>1
    <3> HIDE DEF S, V
    <3> QED
      BY <3>1
  <2>2. V # {}
    OBVIOUS
  <2> HIDE DEF G, S, V
  <2> QED
    BY ONLY <1>10, <1>14, <2>1, <2>2 DEF AsksBelow
<1>16. \E f : f = [i \in S |-> StringRest(f, i, end)]
  <2>1. PICK f \in [S -> V] : f = [i \in S |-> G[<<i, f>>]]
    <3> HIDE DEF G, S, V
    <3> QED
      BY ONLY <1>15, Recursion
  <2> HIDE DEF S, V
  <2>2. f = [i \in S |-> StringRest(f, i, end)]
    BY <2>1
  <2> QED
    BY <2>2
<1> DEFINE rest == CHOOSE f : f = [i \in S |-> StringRest(f, i, end)]
<1>17. decodeChars(start, end) = rest[start]
  BY DEF decodeChars, StringRest
<1>18. rest = [i \in S |-> StringRest(rest, i, end)]
  BY ONLY <1>16
<1> DEFINE P == {i \in S : rest[i] \in V}
<1> HIDE DEF rest
<1>19. ASSUME NEW i \in S, \A j \in S : m[j] < m[i] => j \in P PROVE i \in P
  <2>1. \A j \in S : m[j] < m[i] => rest[j] \in V
    BY ONLY <1>19
  <2>2. StringRest(rest, i, end) \in V
    BY ONLY <1>13, <2>1
  <2>3. rest[i] = StringRest(rest, i, end)
    BY ONLY <1>18
  <2> QED
    BY ONLY <2>2, <2>3
<1>20. S \subseteq P
  <2> HIDE DEF S, P
  <2> QED
    BY <1>10, <1>19, Induction
<1>21. start \in S
  BY <1>0
<1> QED
  BY <1>17, <1>20, <1>21

LEMMA StringDecoded ==
  ASSUME Document, NEW t, Within(t)
  PROVE  decodeString(t) \subseteq Seq(Byte)
<1>1. End \in Nat
  BY Positions
<1>2. t.start + 1 \in 1 .. End /\ t.end - 1 \in Nat /\ t.end - 1 < End
  BY ONLY <1>1, Within(t), SMT DEF Within
<1> QED
  BY <1>2, CharsDecoded DEF decodeString

(* What a scalar is read as fits its type and has no members.              *)
LEMMA ScalarFits ==
  ASSUME Document, NEW from \in 1 .. End, NEW t, Moves(t, from), NEW v \in Decoded(t)
  PROVE  Fits(v) /\ v.type # "object"
<1>1. ASSUME t.type # "end" PROVE Within(t)
  <2>1. End \in Nat
    BY Positions
  <2> QED
    BY ONLY <1>1, <2>1, Moves(t, from), from \in 1 .. End, SMT DEF Moves, Within
<1>2. CASE t.type = "number"
  <2>1. v \in decodeNumber(t)
    BY <1>2, Zenon DEF Decoded
  <2>2. Within(t) /\ t.end = readNumber(t.start) /\ text[t.start] \in Digit \cup {"-"}
    BY <1>1, <1>2 DEF Moves
  <2> QED
    BY ONLY Document, <2>1, <2>2, NumberDecoded
<1>3. CASE t.type = "string"
  <2>1. v \in {StringValue(s) : s \in decodeString(t)}
    BY <1>3, Zenon DEF Decoded
  <2>2. PICK s : v = [type |-> "string", str |-> CString(s)]
    BY <2>1 DEF StringValue
  <2>3. v.type = "string"
    BY ONLY <2>2
  <2> QED
    BY ONLY <2>3 DEF Fits, ValueType
<1>4. CASE t.type = "true"
  <2>1. v = BooleanValue(TRUE)
    BY <1>4, Zenon DEF Decoded
  <2> QED
    BY <2>1 DEF BooleanValue, Fits, ValueType
<1>5. CASE t.type = "false"
  <2>1. v = BooleanValue(FALSE)
    BY <1>5, Zenon DEF Decoded
  <2> QED
    BY <2>1 DEF BooleanValue, Fits, ValueType
<1>6. CASE t.type = "null"
  <2>1. v = NullValue
    BY <1>6, Zenon DEF Decoded
  <2> QED
    BY <2>1 DEF NullValue, Fits, ValueType
<1>7. CASE t.type \notin {"number", "string", "true", "false", "null"}
  <2>1. Decoded(t) = {}
    BY <1>7, Zenon DEF Decoded
  <2> QED
    BY <2>1
<1> QED
  BY <1>2, <1>3, <1>4, <1>5, <1>6, <1>7

-----------------------------------------------------------------------------
(* The values on the stack.  A tree fits when the values in it do: it      *)
(* belongs to a set of values that holds the members of each.              *)
Closed(V) ==
  /\ NullValue \in V
  /\ \A v \in V : Fits(v) /\ \A k \in DOMAIN Members(v) : Members(v)[k] \in V

Sound(n) == \E V : Closed(V) /\ n \in Seq(V)

LEMMA NoMembers ==
  ASSUME NEW v, v.type # "object"
  PROVE  DOMAIN Members(v) = {}
BY DEF Members, isObject

LEMMA NullIsClosed == Closed({NullValue})
<1>1. Fits(NullValue) /\ NullValue.type # "object"
  BY DEF NullValue, Fits, ValueType
<1> QED
  BY <1>1, NoMembers DEF Closed

LEMMA ValueAdded ==
  ASSUME NEW V, Closed(V), NEW v, Fits(v),
         \A k \in DOMAIN Members(v) : Members(v)[k] \in V
  PROVE  Closed(V \cup {v})
BY DEF Closed

LEMMA MemberIs ==
  ASSUME NEW V, Closed(V), NEW v \in V, NEW key
  PROVE  Member(v, key) \in V
<1>1. CASE CString(key) \in DOMAIN Members(v)
  <2>1. isObject(v)
    BY <1>1, NoMembers DEF isObject
  <2> QED
    BY <1>1, <2>1 DEF Member, Members, Closed
<1>2. CASE CString(key) \notin DOMAIN Members(v)
  BY <1>2 DEF Member, Closed
<1> QED
  BY <1>1, <1>2

(* A container with one more child, which is in its place.                 *)
LEMMA MemberAdded ==
  ASSUME NEW V, Closed(V), NEW v \in V, NEW x \in V, NEW name
  PROVE  LET w == WithMember(v, name, x)
         IN  /\ Closed(V \cup {w})
             /\ w.type = "object" /\ CString(name) \in DOMAIN w.members
<1> DEFINE w == WithMember(v, name, x)
           f == Members(v)
           g == With(f, CString(name), x)
<1>1. w = [type |-> "object", members |-> g]
  BY DEF WithMember, ObjectValue
<1>2. DOMAIN g = DOMAIN f \cup {CString(name)}
        /\ \A k \in DOMAIN g : g[k] = IF k = CString(name) THEN x ELSE f[k]
  BY DEF With
<1>3. \A k \in DOMAIN f : f[k] \in V
  BY DEF Closed
<1> HIDE DEF f, g
<1>4. w.type = "object" /\ w.members = g
  BY <1>1
<1> HIDE DEF w
<1>5. Members(w) = g /\ Fits(w)
  BY <1>4 DEF Members, isObject, Fits, ValueType
<1>6. \A k \in DOMAIN g : g[k] \in V
  BY <1>2, <1>3
<1>7. Closed(V \cup {w})
  BY <1>5, <1>6, ValueAdded
<1> QED
  BY <1>2, <1>4, <1>7 DEF w

LEMMA ElementAdded ==
  ASSUME NEW V, Closed(V), NEW v, NEW x, NEW index
  PROVE  LET w == WithElement(v, index, x)
         IN  /\ Closed(V \cup {w})
             /\ w.type = "array" /\ index \in DOMAIN w.elems
<1> DEFINE w == WithElement(v, index, x)
           g == With(Elements(v), index, x)
<1>1. w = [type |-> "array", elems |-> g]
  BY DEF WithElement, ArrayValue
<1>2. index \in DOMAIN g
  BY DEF With
<1> HIDE DEF g
<1>3. w.type = "array" /\ w.elems = g
  BY <1>1
<1> HIDE DEF w
<1>4. DOMAIN Members(w) = {} /\ Fits(w)
  BY <1>3, NoMembers DEF Fits, ValueType
<1>5. Closed(V \cup {w})
  BY <1>4, ValueAdded
<1> QED
  BY <1>2, <1>3, <1>5 DEF w

-----------------------------------------------------------------------------
(* Stacks.                                                                 *)

LEMMA TopReplaced ==
  ASSUME NEW V, NEW n \in Seq(V), NEW k, k = Len(n), k >= 1, NEW v
  PROVE  LET m == [n EXCEPT ![k] = v]
         IN  /\ m \in Seq(V \cup {v}) /\ Len(m) = k /\ m[k] = v
             /\ \A i \in 1 .. k - 1 : m[i] = n[i]
<1>1. n \in Seq(V \cup {v})
  BY SeqMonotonic
<1>2. k \in 1 .. Len(n) /\ k \in Nat
  BY LenProperties
<1> QED
  BY <1>1, <1>2, ExceptSeq

LEMMA Pushed ==
  ASSUME NEW V, NEW n \in Seq(V), NEW x \in V
  PROVE  LET m == n \o <<x>>
         IN  /\ m \in Seq(V) /\ Len(m) = Len(n) + 1 /\ m[Len(n) + 1] = x
             /\ \A i \in 1 .. Len(n) : m[i] = n[i]
<1>1. <<x>> \in Seq(V) /\ Len(<<x>>) = 1 /\ <<x>>[1] = x /\ Len(n) \in Nat
  BY LenProperties
<1> QED
  BY <1>1, ConcatProperties

LEMMA Appended ==
  ASSUME NEW V, NEW n \in Seq(V), NEW x \in V
  PROVE  LET m == Append(n, x)
         IN  /\ m \in Seq(V) /\ Len(m) = Len(n) + 1 /\ m[Len(n) + 1] = x
             /\ \A i \in 1 .. Len(n) : m[i] = n[i]
OBVIOUS

LEMMA Popped ==
  ASSUME NEW V, NEW n \in Seq(V), n # <<>>
  PROVE  /\ Front(n) \in Seq(V) /\ Len(Front(n)) = Len(n) - 1
         /\ \A i \in 1 .. Len(n) - 1 : Front(n)[i] = n[i]
<1>1. Len(n) \in Nat /\ Len(n) >= 1
  BY EmptySeq, LenProperties
<1>2. \A i \in 1 .. Len(n) - 1 : n[i] \in V
  BY <1>1, ElementOfSeq
<1> DEFINE k == Len(n) - 1
<1>3. k \in Int /\ k >= 0
  BY <1>1
<1>4. Front(n) = SubSeq(n, 1, k)
  BY DEF Front
<1> HIDE DEF k
<1>5. /\ SubSeq(n, 1, k) \in Seq(V) /\ Len(SubSeq(n, 1, k)) = k
      /\ \A i \in 1 .. k : SubSeq(n, 1, k)[i] = n[i]
  <2>1. \A i \in 1 .. k : n[i] \in V
    BY <1>2 DEF k
  <2> QED
    BY <1>3, <2>1, SubSeqProperties
<1> QED
  BY <1>4, <1>5 DEF k

LEMMA ReturnedTo ==
  ASSUME NEW V, NEW n \in Seq(V), NEW k, k = Len(n), k >= 2, NEW v
  PROVE  LET m == Append(SubSeq(n, 1, k - 2), v)
         IN  /\ m \in Seq(V \cup {v}) /\ Len(m) = k - 1 /\ m[k - 1] = v
             /\ \A i \in 1 .. k - 2 : m[i] = n[i]
<1> DEFINE s == SubSeq(n, 1, k - 2)
<1>1. k \in Nat /\ n \in Seq(V \cup {v})
  BY LenProperties, SeqMonotonic
<1>2. \A i \in 1 .. k - 2 : n[i] \in V \cup {v}
  BY <1>1, ElementOfSeq
<1>3. /\ s \in Seq(V \cup {v}) /\ Len(s) = k - 2
      /\ \A i \in 1 .. k - 2 : s[i] = n[i]
  BY <1>1, <1>2, SubSeqProperties
<1> HIDE DEF s
<1>4. LET m == Append(s, v)
      IN  /\ m \in Seq(V \cup {v}) /\ Len(m) = Len(s) + 1 /\ m[Len(s) + 1] = v
          /\ \A i \in 1 .. Len(s) : m[i] = s[i]
  BY ONLY <1>3, Appended
<1>5. Len(s) + 1 = k - 1
  BY <1>1, <1>3
<1> HIDE DEF s
<1> QED
  BY <1>3, <1>4, <1>5 DEF s

-----------------------------------------------------------------------------
(* The invariant of the reader with the sets of values that fit, for which *)
(* ReaderInv is too weak: it says nothing of what an object holds, which   *)
(* readObject reads again when a name comes twice.                         *)
Typed ==
  /\ Document
  /\ current \in 1 .. End
  /\ calls \in Seq(CallType)
  /\ pc \in Location
  /\ ok \in BOOLEAN
  /\ errors \in Nat

ReaderState == Typed /\ Sound(nodes) /\ StackInv /\ ErrorInv

(* The part of the bound that is not the characters.                       *)
Behind == 3 * Len(calls) + Rank[pc]

LEMMA RankIs ==
  /\ Rank["value"] = 4 /\ Rank["return"] = 3 /\ Rank["item"] = 2 /\ Rank["separator"] = 2
  /\ Rank["member"] = 2 /\ Rank["recover"] = 1 /\ Rank["done"] = 0
BY DEF Rank

(* What every step finds.                                                  *)
LEMMA StateIs ==
  ASSUME ReaderState
  PROVE  /\ End \in Nat /\ End >= 1
         /\ Len(nodes) \in Nat /\ Len(nodes) >= 1 /\ Len(calls) \in Nat
         /\ DOMAIN nodes = 1 .. Len(nodes) /\ DOMAIN calls = 1 .. Len(calls)
         /\ calls # <<>> => Len(calls) >= 1
         /\ calls = <<>> => Len(calls) = 0
         /\ Descended => Len(nodes) = Len(calls) + 1
         /\ ~Descended => Len(nodes) = Len(calls) /\ calls # <<>>
<1>1. End \in Nat /\ End >= 1
  BY Positions DEF ReaderState, Typed
<1>2. PICK V : nodes \in Seq(V)
  BY DEF ReaderState, Sound
<1>3. Len(nodes) \in Nat /\ DOMAIN nodes = 1 .. Len(nodes)
  BY <1>2, LenProperties
<1>4. Len(calls) \in Nat /\ DOMAIN calls = 1 .. Len(calls) /\ (calls # <<>> => Len(calls) >= 1)
        /\ (calls = <<>> => Len(calls) = 0)
  BY LenProperties, EmptySeq DEF ReaderState, Typed
<1>5. Len(nodes) = Len(calls) + (IF Descended THEN 1 ELSE 0)
        /\ (pc \in {"member", "separator", "item", "recover"} => calls # <<>>) /\ pc \in Location
  BY DEF ReaderState, StackInv, Typed
<1>6. Descended => Len(nodes) = Len(calls) + 1
  BY ONLY <1>5
<1>7. ~Descended => calls # <<>>
  BY ONLY <1>5 DEF Descended, Location
<1>8. ~Descended => Len(nodes) = Len(calls)
  BY ONLY <1>4, <1>5
<1>9. Len(nodes) >= 1
  <2>1. CASE Descended
    BY ONLY <1>4, <1>6, <2>1
  <2>2. CASE ~Descended
    <3>1. Len(nodes) = Len(calls) /\ Len(calls) >= 1
      BY ONLY <1>4, <1>7, <1>8, <2>2
    <3> QED
      BY ONLY <3>1
  <2> QED
    BY ONLY <2>1, <2>2
<1> QED
  BY ONLY <1>1, <1>3, <1>4, <1>6, <1>7, <1>8, <1>9

LEMMA TokensAre ==
  ASSUME ReaderState
  PROVE  /\ Moves(readToken(current), current)
         /\ Moves(skipCommentTokens[current], current)
         /\ skipCommentTokens[current].type # "comment"
         /\ readToken(current).type # "end" => skipCommentTokens[current].end > current
BY TokenMoves, CommentsSkipped DEF ReaderState, Typed

(* The bound on the steps that are left, with the characters apart.        *)
LEMMA Less ==
  ASSUME NEW e \in Nat, NEW c \in 1 .. e, NEW k \in Nat, NEW d \in c + k .. e, NEW r \in Int, NEW q \in Int,
         q < r + 4 * k
  PROVE  4 * (e - d) + q < 4 * (e - c) + r
OBVIOUS

LEMMA StepsLeftIs ==
  ASSUME ReaderState, text' = text, Len(calls') \in Nat, pc' \in Location
  PROVE  /\ Behind \in Int /\ Behind' \in Int /\ End \in Nat /\ current \in 1 .. End
         /\ StepsLeft = 4 * (End - current) + Behind
         /\ StepsLeft' = 4 * (End - current') + Behind'
<1>1. /\ Len(calls) \in Nat /\ pc \in Location
      /\ End \in Nat /\ current \in 1 .. End
  BY StateIs DEF ReaderState, Typed
<1>2. Rank[pc] \in Nat /\ Rank[pc'] \in Nat
  BY <1>1, RankIs DEF Location
<1>3. Behind \in Int /\ Behind' \in Int
  BY <1>1, <1>2 DEF Behind
<1>4. StepsLeft = 4 * (End - current) + Behind
  BY DEF StepsLeft, Behind
<1>5. StepsLeft' = 4 * (End - current') + Behind'
  BY DEF StepsLeft, Behind, End
<1> QED
  BY <1>1, <1>3, <1>4, <1>5

(* A step that takes nothing, and one that takes a character.              *)
LEMMA DecreaseStaying ==
  ASSUME ReaderState, text' = text, current' \in current .. End, Len(calls') \in Nat, pc' \in Location,
         Behind' < Behind
  PROVE  StepsLeft' < StepsLeft
<1>1. /\ Behind \in Int /\ Behind' \in Int /\ End \in Nat /\ current \in 1 .. End
      /\ StepsLeft = 4 * (End - current) + Behind
      /\ StepsLeft' = 4 * (End - current') + Behind'
  BY StepsLeftIs
<1>2. 0 \in Nat /\ current + 0 = current /\ Behind + 4 * 0 = Behind
  BY ONLY <1>1
<1>3. 4 * (End - current') + Behind' < 4 * (End - current) + Behind
  BY ONLY <1>1, <1>2, Behind' < Behind, current' \in current .. End, Less
<1> QED
  BY ONLY <1>1, <1>3

LEMMA DecreaseMoving ==
  ASSUME ReaderState, text' = text, current' \in current + 1 .. End, Len(calls') \in Nat, pc' \in Location,
         Behind' < Behind + 4
  PROVE  StepsLeft' < StepsLeft
<1>1. /\ Behind \in Int /\ Behind' \in Int /\ End \in Nat /\ current \in 1 .. End
      /\ StepsLeft = 4 * (End - current) + Behind
      /\ StepsLeft' = 4 * (End - current') + Behind'
  BY StepsLeftIs
<1>2. 1 \in Nat /\ Behind + 4 * 1 = Behind + 4
  BY ONLY <1>1
<1>3. 4 * (End - current') + Behind' < 4 * (End - current) + Behind
  BY ONLY <1>1, <1>2, Behind' < Behind + 4, current' \in current + 1 .. End, Less
<1> QED
  BY ONLY <1>1, <1>3

(* The innermost call ends and its container is complete.                  *)
LEMMA CallEnds ==
  ASSUME ReaderState, ~Descended, calls' = Front(calls), nodes' = nodes, pc' = "return", text' = text
  PROVE  /\ calls' \in Seq(CallType) /\ Len(calls') = Len(calls) - 1
         /\ Sound(nodes)' /\ StackInv'
<1>1. calls \in Seq(CallType) /\ calls # <<>> /\ Len(nodes) = Len(calls) /\ Len(calls) \in Nat
        /\ DOMAIN calls = 1 .. Len(calls)
  BY StateIs DEF ReaderState, Typed
<1>2. /\ Front(calls) \in Seq(CallType) /\ Len(Front(calls)) = Len(calls) - 1
      /\ \A i \in 1 .. Len(calls) - 1 : Front(calls)[i] = calls[i]
  BY <1>1, Popped
<1>3. DOMAIN calls' = 1 .. Len(calls) - 1
  BY <1>2, LenProperties
<1>4. \A i \in DOMAIN calls : nodes[i].type = calls[i].fn /\ (i < Len(nodes) => Holds(nodes[i], calls[i]))
  BY DEF ReaderState, StackInv
<1>5. ASSUME NEW i \in DOMAIN calls'
      PROVE  nodes'[i].type = calls'[i].fn /\ Holds(nodes'[i], calls'[i])
  <2>1. i \in DOMAIN calls /\ i < Len(nodes) /\ calls'[i] = calls[i]
    BY <1>1, <1>2, <1>3
  <2> QED
    BY <1>4, <2>1
<1>6. StackInv'
  BY <1>1, <1>2, <1>5 DEF StackInv, Descended, Holds
<1> QED
  BY <1>2, <1>6 DEF ReaderState, Sound

LEMMA TypedNext ==
  ASSUME text' = text, Document, current' \in 1 .. End, calls' \in Seq(CallType),
         pc' \in Location, ok' \in BOOLEAN, errors' \in Nat
  PROVE  Typed'
BY DEF Typed, Document, End

(* While nothing is skipped over, nothing has gone wrong.                  *)
LEMMA NoErrorYet ==
  ASSUME ReaderState, pc \in {"value", "member", "separator", "item"}
  PROVE  ok = TRUE /\ errors = 0
BY DEF ReaderState, Typed, ErrorInv

Advances == ReaderState' /\ StepsLeft' < StepsLeft

(* An error in a container.                                                *)
LEMMA Recovering ==
  ASSUME ReaderState, pc \in {"member", "separator", "item"}, current' \in current .. End,
         AddErrorAndRecover, text' = text, nodes' = nodes, calls' = calls, ok' = ok
  PROVE  Advances
<1>1. ok = TRUE /\ errors = 0
  BY NoErrorYet
<1>2. ok' = TRUE /\ errors' = 1 /\ pc' = "recover"
  BY <1>1 DEF AddErrorAndRecover, AddError
<1>3. End \in Nat /\ Len(calls) \in Nat /\ current \in 1 .. End /\ current' \in 1 .. End
        /\ current' >= current
  <2>1. End \in Nat /\ Len(calls) \in Nat /\ current \in 1 .. End
    BY StateIs DEF ReaderState, Typed
  <2> QED
    BY ONLY <2>1, current' \in current .. End
<1>4. Typed'
  BY <1>2, <1>3, TypedNext DEF ReaderState, Typed, Location
<1>5. ErrorInv'
  BY <1>2 DEF ErrorInv
<1>6. StackInv'
  <2>1. ~Descended /\ ~Descended'
    BY <1>2 DEF Descended
  <2>2. Len(nodes) = Len(calls) /\ calls # <<>>
    BY <2>1, StateIs
  <2> QED
    BY <1>2, <1>3, <2>1, <2>2 DEF ReaderState, StackInv, Descended, Holds, InObject, Call
<1>7. Sound(nodes)'
  BY DEF ReaderState, Sound
<1>8. StepsLeft' < StepsLeft
  <2>1. Rank[pc] = 2 /\ Rank[pc'] = 1 /\ pc' \in Location
    BY <1>2, RankIs DEF Location
  <2>2. Len(calls') \in Nat /\ Len(calls') = Len(calls)
    BY <1>3
  <2>3. Behind' < Behind
    BY ONLY <1>3, <2>1, <2>2 DEF Behind
  <2> QED
    BY <2>1, <2>2, <2>3, DecreaseStaying
<1> QED
  BY <1>4, <1>5, <1>6, <1>7, <1>8 DEF Advances, ReaderState

(* The end of a container that has been read.                              *)
LEMMA Closing ==
  ASSUME ReaderState, pc \in {"member", "separator", "item"}, current' \in current + 1 .. End,
         Return(TRUE), calls' = Front(calls), text' = text, nodes' = nodes, errors' = errors
  PROVE  Advances
<1>1. errors = 0
  BY NoErrorYet
<1>2. ok' = TRUE /\ errors' = 0 /\ pc' = "return"
  BY <1>1 DEF Return
<1>3. End \in Nat /\ Len(calls) \in Nat /\ current \in 1 .. End /\ current' \in 1 .. End
        /\ current' > current
  <2>1. End \in Nat /\ Len(calls) \in Nat /\ current \in 1 .. End
    BY StateIs DEF ReaderState, Typed
  <2> QED
    BY ONLY <2>1, current' \in current + 1 .. End
<1>4. ~Descended
  BY DEF Descended
<1>5. /\ calls' \in Seq(CallType) /\ Len(calls') = Len(calls) - 1
      /\ Sound(nodes)' /\ StackInv'
  BY <1>2, <1>4, CallEnds
<1>6. Typed'
  BY <1>2, <1>3, <1>5, TypedNext DEF ReaderState, Typed, Location
<1>7. ErrorInv'
  BY <1>2 DEF ErrorInv
<1>8. StepsLeft' < StepsLeft
  <2>1. Rank[pc] = 2 /\ Rank[pc'] = 3 /\ pc' \in Location /\ Len(calls') \in Nat
    BY <1>2, <1>5, RankIs, LenProperties DEF Location
  <2>2. Behind' < Behind + 4
    BY ONLY <1>3, <1>5, <2>1 DEF Behind
  <2> QED
    BY <2>1, <2>2, DecreaseMoving
<1> QED
  BY <1>5, <1>6, <1>7, <1>8 DEF Advances, ReaderState

(* The place of the next child, in the call that reads it.                 *)
LEMMA Renamed ==
  ASSUME NEW c \in Seq(CallType), NEW k \in 1 .. Len(c), c[k].fn = "object", NEW name \in Seq(Byte)
  PROVE  LET d == [c EXCEPT ![k].name = name]
         IN  /\ d \in Seq(CallType) /\ Len(d) = Len(c)
             /\ d[k].fn = "object" /\ d[k].name = name
             /\ \A i \in 1 .. Len(c) : i # k => d[i] = c[i]
<1> DEFINE e == [c[k] EXCEPT !.name = name]
<1>1. c[k] \in CallType
  BY ElementOfSeq
<1>2. c[k] \in [fn : {"object"}, name : Seq(Byte)]
  BY <1>1 DEF CallType
<1>3. e \in [fn : {"object"}, name : Seq(Byte)] /\ e.fn = "object" /\ e.name = name
  BY <1>2
<1>4. e \in CallType
  BY <1>3 DEF CallType
<1>5. [c EXCEPT ![k].name = name] = [c EXCEPT ![k] = e]
  OBVIOUS
<1> HIDE DEF e
<1> QED
  BY ONLY <1>3, <1>4, <1>5, ExceptSeq

LEMMA Renumbered ==
  ASSUME NEW c \in Seq(CallType), NEW k \in 1 .. Len(c), c[k].fn # "object", NEW index \in Nat
  PROVE  LET d == [c EXCEPT ![k].index = index]
         IN  /\ d \in Seq(CallType) /\ Len(d) = Len(c)
             /\ d[k].fn = "array" /\ d[k].index = index
             /\ \A i \in 1 .. Len(c) : i # k => d[i] = c[i]
<1> DEFINE e == [c[k] EXCEPT !.index = index]
<1>1. c[k] \in CallType
  BY ElementOfSeq
<1>2. c[k] \in [fn : {"array"}, index : Nat]
  BY <1>1 DEF CallType
<1>3. e \in [fn : {"array"}, index : Nat] /\ e.fn = "array" /\ e.index = index
  BY <1>2
<1>4. e \in CallType
  BY <1>3 DEF CallType
<1>5. [c EXCEPT ![k].index = index] = [c EXCEPT ![k] = e]
  OBVIOUS
<1> HIDE DEF e
<1> QED
  BY ONLY <1>3, <1>4, <1>5, ExceptSeq

(* A container w in the place of the innermost one, with a child x above   *)
(* it and the call d that reads the child.                                 *)
LEMMA ChildPushed ==
  ASSUME ReaderState, NEW V, Closed(V), nodes \in Seq(V), pc \in {"member", "item"}, pc' = "value",
         NEW w, Closed(V \cup {w}), NEW x \in V \cup {w}, nodes' = SetTop(w) \o <<x>>,
         calls' \in Seq(CallType), Len(calls') = Len(calls),
         \A i \in 1 .. Len(calls) : i # Len(calls) => calls'[i] = calls[i],
         LET d == calls'[Len(calls)] IN w.type = d.fn /\ Holds(w, d)
  PROVE  Sound(nodes)' /\ StackInv'
<1> DEFINE k == Len(calls)
           m == SetTop(w)
<1>1. Len(nodes) = k /\ k \in Nat /\ k >= 1 /\ DOMAIN calls = 1 .. k
  BY StateIs DEF Descended
<1>2. /\ m \in Seq(V \cup {w}) /\ Len(m) = k /\ m[k] = w
      /\ \A i \in 1 .. k - 1 : m[i] = nodes[i]
  BY <1>1, TopReplaced DEF SetTop
<1> HIDE DEF m
<1>3. /\ nodes' \in Seq(V \cup {w}) /\ Len(nodes') = k + 1
      /\ \A i \in 1 .. k : nodes'[i] = m[i]
  <2>1. nodes' = m \o <<x>>
    BY DEF m
  <2> QED
    BY ONLY <1>2, <2>1, x \in V \cup {w}, Pushed
<1>4. Sound(nodes)'
  BY <1>3 DEF Sound
<1>5. \A i \in DOMAIN calls : nodes[i].type = calls[i].fn /\ (i < Len(nodes) => Holds(nodes[i], calls[i]))
  BY DEF ReaderState, StackInv
<1>6. ASSUME NEW i \in 1 .. k PROVE nodes'[i].type = calls'[i].fn /\ Holds(nodes'[i], calls'[i])
  <2>1. CASE i = k
    BY <1>1, <1>2, <1>3, <2>1
  <2>2. CASE i # k
    <3>1. i \in DOMAIN calls /\ i < Len(nodes) /\ i \in 1 .. k - 1
      BY <1>1, <2>2
    <3> QED
      BY <1>2, <1>3, <1>5, <2>2, <3>1
  <2> QED
    BY <2>1, <2>2
<1>7. DOMAIN calls' = 1 .. k
  BY LenProperties
<1>8. StackInv'
  BY <1>1, <1>3, <1>6, <1>7 DEF StackInv, Descended, Holds
<1> QED
  BY <1>4, <1>8

LEMMA PushingMember ==
  ASSUME ReaderState, pc = "member", NEW name \in Seq(Byte), current' \in current + 1 .. End,
         PushMember(name), text' = text, ok' = ok, errors' = errors
  PROVE  Advances
<1> DEFINE k == Len(calls)
           w == WithMember(Top, name, Member(Top, name))
           x == Member(Top, name)
<1>1. ok = TRUE /\ errors = 0
  BY NoErrorYet
<1>2. /\ calls \in Seq(CallType) /\ k \in 1 .. Len(calls) /\ calls[k].fn = "object"
      /\ Len(nodes) = k /\ End \in Nat /\ current \in 1 .. End
  <2>1. ~Descended
    BY DEF Descended
  <2> QED
    BY <2>1, StateIs DEF ReaderState, StackInv, Typed, InObject, Call
<1>3. /\ calls' = [calls EXCEPT ![k].name = name]
      /\ nodes' = SetTop(w) \o <<x>>
      /\ pc' = "value"
  BY DEF PushMember
<1>4. /\ calls' \in Seq(CallType) /\ Len(calls') = k
      /\ calls'[k].fn = "object" /\ calls'[k].name = name
      /\ \A i \in 1 .. Len(calls) : i # k => calls'[i] = calls[i]
  BY ONLY <1>2, <1>3, name \in Seq(Byte), Renamed
<1>5. PICK V : Closed(V) /\ nodes \in Seq(V)
  BY DEF ReaderState, Sound
<1>6. Top \in V
  BY <1>2, <1>5, ElementOfSeq DEF Top
<1>7. x \in V
  BY <1>5, <1>6, MemberIs
<1>8. /\ Closed(V \cup {w})
      /\ w.type = "object" /\ CString(name) \in DOMAIN w.members
  BY <1>5, <1>6, <1>7, MemberAdded
<1> HIDE DEF w, x
<1>9. Sound(nodes)' /\ StackInv'
  <2>1. LET d == calls'[k] IN w.type = d.fn /\ Holds(w, d)
    BY <1>4, <1>8 DEF Holds
  <2>2. x \in V \cup {w} /\ pc \in {"member", "item"}
    BY <1>7
  <2> QED
    BY ONLY ReaderState, <1>3, <1>4, <1>5, <1>8, <2>1, <2>2, ChildPushed
<1>10. current' \in 1 .. End
  BY ONLY <1>2, current' \in current + 1 .. End
<1>11. Typed'
  BY <1>1, <1>3, <1>4, <1>10, TypedNext DEF ReaderState, Typed, Location
<1>12. ErrorInv'
  BY <1>1, <1>3 DEF ErrorInv
<1>13. StepsLeft' < StepsLeft
  <2>1. Rank[pc] = 2 /\ Rank[pc'] = 4 /\ pc' \in Location
    BY <1>3, RankIs DEF Location
  <2>2. Len(calls') \in Nat /\ Len(calls') = Len(calls)
    BY <1>2, <1>4
  <2>3. Behind' < Behind + 4
    BY ONLY <2>1, <2>2 DEF Behind
  <2> QED
    BY <2>1, <2>2, <2>3, DecreaseMoving
<1> QED
  BY <1>9, <1>11, <1>12, <1>13 DEF Advances, ReaderState

LEMMA PushingElement ==
  ASSUME ReaderState, pc = "item", NEW index \in Nat, current' \in current + 1 .. End,
         PushElement(index), text' = text, ok' = ok, errors' = errors
  PROVE  Advances
<1> DEFINE k == Len(calls)
           w == WithElement(Top, index, NullValue)
<1>1. ok = TRUE /\ errors = 0
  BY NoErrorYet
<1>2. /\ calls \in Seq(CallType) /\ k \in 1 .. Len(calls) /\ calls[k].fn # "object"
      /\ Len(nodes) = k /\ End \in Nat /\ current \in 1 .. End
  <2>1. ~Descended
    BY DEF Descended
  <2> QED
    BY <2>1, StateIs DEF ReaderState, StackInv, Typed, InObject, Call
<1>3. /\ calls' = [calls EXCEPT ![k].index = index]
      /\ nodes' = SetTop(w) \o <<NullValue>>
      /\ pc' = "value"
  BY DEF PushElement
<1>4. /\ calls' \in Seq(CallType) /\ Len(calls') = k
      /\ calls'[k].fn = "array" /\ calls'[k].index = index
      /\ \A i \in 1 .. Len(calls) : i # k => calls'[i] = calls[i]
  BY ONLY <1>2, <1>3, index \in Nat, Renumbered
<1>5. PICK V : Closed(V) /\ nodes \in Seq(V)
  BY DEF ReaderState, Sound
<1>6. /\ Closed(V \cup {w})
      /\ w.type = "array" /\ index \in DOMAIN w.elems
  BY <1>5, ElementAdded
<1>7. NullValue \in V
  BY <1>5 DEF Closed
<1> HIDE DEF w
<1>8. Sound(nodes)' /\ StackInv'
  <2>1. LET d == calls'[k] IN w.type = d.fn /\ Holds(w, d)
    BY <1>4, <1>6 DEF Holds
  <2>2. NullValue \in V \cup {w} /\ pc \in {"member", "item"}
    BY <1>7
  <2> QED
    BY ONLY ReaderState, <1>3, <1>4, <1>5, <1>6, <2>1, <2>2, ChildPushed
<1>9. current' \in 1 .. End
  BY ONLY <1>2, current' \in current + 1 .. End
<1>10. Typed'
  BY <1>1, <1>3, <1>4, <1>9, TypedNext DEF ReaderState, Typed, Location
<1>11. ErrorInv'
  BY <1>1, <1>3 DEF ErrorInv
<1>12. StepsLeft' < StepsLeft
  <2>1. Rank[pc] = 2 /\ Rank[pc'] = 4 /\ pc' \in Location
    BY <1>3, RankIs DEF Location
  <2>2. Len(calls') \in Nat /\ Len(calls') = Len(calls)
    BY <1>2, <1>4
  <2>3. Behind' < Behind + 4
    BY ONLY <2>1, <2>2 DEF Behind
  <2> QED
    BY <2>1, <2>2, <2>3, DecreaseMoving
<1> QED
  BY <1>8, <1>10, <1>11, <1>12 DEF Advances, ReaderState

(* The value being read is set.                                            *)
LEMMA TopSet ==
  ASSUME ReaderState, pc = "value", NEW V, nodes \in Seq(V), NEW v
  PROVE  LET m == SetTop(v)
             k == Len(calls)
         IN  /\ k \in Nat /\ m \in Seq(V \cup {v}) /\ Len(m) = k + 1 /\ m[k + 1] = v
             /\ \A i \in 1 .. k : m[i].type = calls[i].fn /\ Holds(m[i], calls[i])
<1> DEFINE m == SetTop(v)
           k == Len(calls)
<1>1. Len(nodes) = k + 1 /\ k \in Nat /\ DOMAIN calls = 1 .. k
  BY StateIs DEF Descended
<1>2. m = [nodes EXCEPT ![k + 1] = v]
  BY <1>1 DEF SetTop
<1>3. /\ m \in Seq(V \cup {v}) /\ Len(m) = k + 1 /\ m[k + 1] = v
      /\ \A i \in 1 .. k : m[i] = nodes[i]
  <2> DEFINE l == k + 1
  <2>1. l = Len(nodes) /\ l >= 1 /\ l - 1 = k
    BY <1>1
  <2>2. m = [nodes EXCEPT ![l] = v]
    BY <1>2
  <2> HIDE DEF l, m
  <2>3. /\ m \in Seq(V \cup {v}) /\ Len(m) = l /\ m[l] = v
        /\ \A i \in 1 .. l - 1 : m[i] = nodes[i]
    BY ONLY nodes \in Seq(V), <2>1, <2>2, TopReplaced
  <2> QED
    BY ONLY <2>1, <2>3 DEF l
<1>4. \A i \in DOMAIN calls : nodes[i].type = calls[i].fn /\ (i < Len(nodes) => Holds(nodes[i], calls[i]))
  BY DEF ReaderState, StackInv
<1> HIDE DEF m
<1>5. ASSUME NEW i \in 1 .. k PROVE m[i].type = calls[i].fn /\ Holds(m[i], calls[i])
  BY <1>1, <1>3, <1>4
<1> QED
  BY <1>1, <1>3, <1>5 DEF m

(* A value has been read, or none; its caller goes on.                     *)
LEMMA ValueRead ==
  ASSUME ReaderState, pc = "value", NEW V, nodes \in Seq(V), NEW v, Closed(V \cup {v}),
         nodes' = SetTop(v), calls' = calls, pc' = "return"
  PROVE  Sound(nodes)' /\ StackInv'
<1> DEFINE k == Len(calls)
<1>1. /\ k \in Nat /\ nodes' \in Seq(V \cup {v}) /\ Len(nodes') = k + 1
      /\ \A i \in 1 .. k : nodes'[i].type = calls[i].fn /\ Holds(nodes'[i], calls[i])
  BY TopSet
<1>2. DOMAIN calls' = 1 .. k
  BY StateIs
<1>3. StackInv'
  BY <1>1, <1>2 DEF StackInv, Descended, Holds
<1> QED
  BY <1>1, <1>3 DEF Sound

LEMMA ScalarStep ==
  ASSUME ReaderState, ReadScalar
  PROVE  Advances
<1> DEFINE t == skipCommentTokens[current]
<1>1. pc = "value" /\ current' = t.end /\ text' = text /\ calls' = calls
  BY DEF ReadScalar
<1>2. ok = TRUE /\ errors = 0
  BY <1>1, NoErrorYet
<1>3. Document /\ current \in 1 .. End /\ Moves(t, current) /\ End \in Nat
        /\ calls \in Seq(CallType)
  BY TokensAre, StateIs DEF ReaderState, Typed
<1>4. current' \in current .. End /\ current' \in 1 .. End
  BY ONLY <1>1, <1>3 DEF Moves
<1>5. pc' = "return" /\ ((ok' = TRUE /\ errors' = 0) \/ (ok' = FALSE /\ errors' = 1))
  <2>1. pc' = "return" /\ ((ok' = TRUE /\ errors' = errors) \/ (ok' = FALSE /\ errors' = errors + 1))
    BY DEF ReadScalar, Return, AddError
  <2>2. CASE ok' = TRUE /\ errors' = errors
    BY ONLY <1>2, <2>1, <2>2
  <2>3. CASE ok' = FALSE /\ errors' = errors + 1
    <3>1. errors' = 1 /\ ok' = FALSE
      BY ONLY <1>2, <2>3
    <3> QED
      BY ONLY <2>1, <3>1
  <2> QED
    BY ONLY <2>1, <2>2, <2>3
<1>6. Sound(nodes)' /\ StackInv'
  <2>1. PICK V : Closed(V) /\ nodes \in Seq(V)
    BY DEF ReaderState, Sound
  <2>2. CASE \E v \in Decoded(t) : nodes' = SetTop(v)
    <3>1. PICK v \in Decoded(t) : nodes' = SetTop(v)
      BY <2>2
    <3>2. Fits(v) /\ v.type # "object"
      BY <1>3, <3>1, ScalarFits
    <3>3. Closed(V \cup {v})
      BY <2>1, <3>2, NoMembers, ValueAdded
    <3> QED
      BY ONLY ReaderState, <1>1, <1>5, <2>1, <3>1, <3>3, ValueRead
  <2>3. CASE nodes' = nodes
    <3> QED
      BY <1>1, <1>5, <2>3 DEF ReaderState, StackInv, Sound, Descended, Holds
  <2> QED
    BY <2>2, <2>3 DEF ReadScalar
<1>7. Typed'
  <2>1. pc' \in Location
    BY ONLY <1>5 DEF Location
  <2>2. ok' \in BOOLEAN
    BY ONLY <1>5
  <2>3. errors' \in Nat
    BY ONLY <1>5
  <2> QED
    BY <1>1, <1>3, <1>4, <2>1, <2>2, <2>3, TypedNext
<1>8. ErrorInv'
  BY <1>5 DEF ErrorInv
<1>9. StepsLeft' < StepsLeft
  <2>1. Rank[pc] = 4 /\ Rank[pc'] = 3 /\ pc' \in Location
    BY <1>1, <1>5, RankIs DEF Location
  <2>2. Len(calls') \in Nat /\ Len(calls') = Len(calls)
    BY <1>1, StateIs
  <2>3. Behind' < Behind
    BY ONLY <2>1, <2>2 DEF Behind
  <2> QED
    BY <1>1, <1>4, <2>1, <2>2, <2>3, DecreaseStaying
<1> QED
  BY <1>6, <1>7, <1>8, <1>9 DEF Advances, ReaderState

(* Where a token ends.                                                     *)
LEMMA TokenEnds ==
  ASSUME NEW e \in Nat, e = End, NEW from \in 1 .. e, NEW t, Moves(t, from)
  PROVE  /\ t.end \in from .. e /\ t.end \in 1 .. e
         /\ t.type # "end" => t.end \in from + 1 .. e
BY DEF Moves

LEMMA ObjectBegin ==
  ASSUME ReaderState, ReadObjectBegin
  PROVE  Advances
<1> DEFINE t == skipCommentTokens[current]
           k == Len(calls)
           c == [fn |-> "object", name |-> <<>>]
<1>1. /\ pc = "value" /\ t.type = "{" /\ current' = t.end
      /\ nodes' = SetTop(EmptyObject) /\ calls' = Append(calls, c) /\ pc' = "member"
      /\ text' = text /\ ok' = ok /\ errors' = errors
  BY DEF ReadObjectBegin
<1>2. ok = TRUE /\ errors = 0
  BY <1>1, NoErrorYet
<1>3. Document /\ current \in 1 .. End /\ Moves(t, current) /\ End \in Nat
        /\ calls \in Seq(CallType) /\ k \in Nat
  BY TokensAre, StateIs DEF ReaderState, Typed
<1>4. current' \in current + 1 .. End /\ current' \in 1 .. End
  <2>1. t.type # "end"
    BY ONLY <1>1
  <2> QED
    BY ONLY <1>1, <1>3, <2>1, TokenEnds
<1>5. c \in CallType /\ c.fn = "object"
  <2>1. <<>> \in Seq(Byte)
    BY EmptySeq
  <2> QED
    BY <2>1 DEF CallType
<1> HIDE DEF c
<1>6. /\ calls' \in Seq(CallType) /\ Len(calls') = k + 1 /\ calls'[k + 1] = c
      /\ \A i \in 1 .. k : calls'[i] = calls[i]
  <2> DEFINE m == Append(calls, c)
  <2>1. calls \in Seq(CallType) /\ c \in CallType
    BY ONLY <1>3, <1>5
  <2>2. /\ m \in Seq(CallType) /\ Len(m) = k + 1 /\ m[k + 1] = c
        /\ \A i \in 1 .. k : m[i] = calls[i]
    BY ONLY <2>1, Appended
  <2>3. calls' = m
    BY ONLY <1>1
  <2> HIDE DEF m
  <2> QED
    BY ONLY <2>2, <2>3
<1>7. PICK V : Closed(V) /\ nodes \in Seq(V)
  BY DEF ReaderState, Sound
<1>8. EmptyObject.type = "object" /\ EmptyObject.members = <<>>
  BY DEF EmptyObject, ObjectValue
<1>9. Closed(V \cup {EmptyObject})
  <2>1. Fits(EmptyObject) /\ DOMAIN Members(EmptyObject) = {}
    BY <1>8 DEF Fits, ValueType, Members, isObject
  <2> QED
    BY <1>7, <2>1, ValueAdded
<1>10. /\ nodes' \in Seq(V \cup {EmptyObject}) /\ Len(nodes') = k + 1 /\ nodes'[k + 1] = EmptyObject
       /\ \A i \in 1 .. k : nodes'[i].type = calls[i].fn /\ Holds(nodes'[i], calls[i])
  BY <1>1, <1>7, TopSet
<1>11. StackInv'
  <2>1. DOMAIN calls' = 1 .. k + 1
    BY <1>6, LenProperties
  <2>2. ASSUME NEW i \in 1 .. k + 1
        PROVE  nodes'[i].type = calls'[i].fn /\ (i < Len(nodes') => Holds(nodes'[i], calls'[i]))
    <3>1. CASE i = k + 1
      BY <1>3, <1>5, <1>6, <1>8, <1>10, <3>1
    <3>2. CASE i # k + 1
      <4>1. i \in 1 .. k
        BY <1>3, <3>2
      <4> QED
        BY <1>6, <1>10, <4>1
    <3> QED
      BY <3>1, <3>2
  <2>3. calls' # <<>>
    BY <1>3, <1>6, EmptySeq
  <2>4. calls'[Len(calls')].fn = "object"
    BY <1>5, <1>6
  <2> QED
    <3>1. ~Descended' /\ pc' = "member" /\ Len(nodes') = Len(calls') /\ Len(calls') + 0 = Len(calls')
      <4>1. pc' = "member"
        BY ONLY <1>1
      <4>2. Len(nodes') = k + 1 /\ Len(calls') = k + 1 /\ k + 1 + 0 = k + 1
        BY ONLY <1>3, <1>6, <1>10
      <4> QED
        BY ONLY <4>1, <4>2 DEF Descended
    <3>2. InObject'
      BY ONLY <2>4 DEF InObject, Call
    <3>3. \A i \in DOMAIN calls' :
            nodes'[i].type = calls'[i].fn /\ (i < Len(nodes') => Holds(nodes'[i], calls'[i]))
      BY ONLY <2>1, <2>2
    <3> QED
      BY ONLY <2>3, <3>1, <3>2, <3>3 DEF StackInv, Holds
<1>12. Typed'
  BY <1>1, <1>2, <1>3, <1>4, <1>6, TypedNext DEF Location
<1>13. ErrorInv'
  BY <1>1, <1>2 DEF ErrorInv
<1>14. StepsLeft' < StepsLeft
  <2>1. Rank[pc] = 4 /\ Rank[pc'] = 2 /\ pc' \in Location /\ Len(calls') \in Nat
    <3>1. pc = "value" /\ pc' = "member"
      BY ONLY <1>1
    <3>2. Len(calls') \in Nat
      BY ONLY <1>3, <1>6
    <3> QED
      BY ONLY <3>1, <3>2, RankIs DEF Location
  <2>2. Behind' < Behind + 4
    BY ONLY <1>3, <1>6, <2>1 DEF Behind
  <2> QED
    BY <1>1, <1>4, <2>1, <2>2, DecreaseMoving
<1>15. Sound(nodes)'
  BY <1>9, <1>10 DEF Sound
<1> QED
  BY <1>11, <1>12, <1>13, <1>14, <1>15 DEF Advances, ReaderState

LEMMA ArrayBegin ==
  ASSUME ReaderState, ReadArrayBegin
  PROVE  Advances
<1> DEFINE t == skipCommentTokens[current]
           inside == skipSpaces(t.end)
           k == Len(calls)
           c == [fn |-> "array", index |-> 0]
           w == WithElement(EmptyArray, 0, NullValue)
<1>1. /\ pc = "value" /\ t.type = "[" /\ text' = text /\ errors' = errors
      /\ IF CharAt(inside) = "]"
           THEN /\ current' = inside + 1 /\ nodes' = SetTop(EmptyArray)
                /\ pc' = "return" /\ ok' = TRUE /\ calls' = calls
           ELSE /\ current' = inside /\ nodes' = SetTop(w) \o <<NullValue>>
                /\ calls' = Append(calls, c) /\ pc' = "value" /\ ok' = ok
  BY DEF ReadArrayBegin, Return
<1>2. ok = TRUE /\ errors = 0
  BY <1>1, NoErrorYet
<1>3. Document /\ current \in 1 .. End /\ Moves(t, current) /\ End \in Nat
        /\ calls \in Seq(CallType) /\ k \in Nat
  BY TokensAre, StateIs DEF ReaderState, Typed
<1>4. t.end \in current + 1 .. End /\ t.end \in 1 .. End
  <2>1. t.type # "end"
    BY ONLY <1>1
  <2> QED
    BY ONLY <1>3, <2>1, TokenEnds
<1>5. inside \in t.end .. End
  BY ONLY <1>3, <1>4, SpacesMove
<1>6. inside \in current + 1 .. End /\ inside \in 1 .. End /\ inside \in Nat
  BY ONLY <1>3, <1>4, <1>5
<1>7. PICK V : Closed(V) /\ nodes \in Seq(V)
  BY DEF ReaderState, Sound
<1> HIDE DEF inside, c, w
<1>8. CASE CharAt(inside) = "]"
  <2>1. /\ current' = inside + 1 /\ nodes' = SetTop(EmptyArray)
        /\ pc' = "return" /\ ok' = TRUE /\ calls' = calls
    BY ONLY <1>1, <1>8
  <2>2. inside < End
    <3>1. CharAt(inside) # Nul
      BY <1>8, Characters DEF Marks
    <3> QED
      BY <1>3, <1>6, <3>1, Positions
  <2>3. current' \in current + 1 .. End /\ current' \in 1 .. End
    BY ONLY <1>3, <1>6, <2>1, <2>2
  <2>4. Closed(V \cup {EmptyArray})
    <3>1. EmptyArray.type = "array"
      BY DEF EmptyArray, ArrayValue
    <3>2. Fits(EmptyArray) /\ DOMAIN Members(EmptyArray) = {}
      BY <3>1 DEF Fits, ValueType, Members, isObject
    <3> QED
      BY <1>7, <3>2, ValueAdded
  <2>5. Sound(nodes)' /\ StackInv'
    BY ONLY ReaderState, <1>1, <1>7, <2>1, <2>4, ValueRead
  <2>6. Typed'
    BY <1>1, <1>2, <1>3, <2>1, <2>3, TypedNext DEF Location
  <2>7. ErrorInv'
    BY <1>1, <1>2, <2>1 DEF ErrorInv
  <2>8. StepsLeft' < StepsLeft
    <3>1. Rank[pc] = 4 /\ Rank[pc'] = 3 /\ pc' \in Location
      BY <1>1, <2>1, RankIs DEF Location
    <3>2. Len(calls') \in Nat /\ Len(calls') = Len(calls)
      BY ONLY <1>3, <2>1
    <3>3. Behind' < Behind + 4
      BY ONLY <3>1, <3>2 DEF Behind
    <3> QED
      BY <1>1, <2>3, <3>1, <3>2, <3>3, DecreaseMoving
  <2> QED
    BY <2>5, <2>6, <2>7, <2>8 DEF Advances, ReaderState
<1>9. CASE CharAt(inside) # "]"
  <2>1. /\ current' = inside /\ nodes' = SetTop(w) \o <<NullValue>>
        /\ calls' = Append(calls, c) /\ pc' = "value" /\ ok' = ok
    BY ONLY <1>1, <1>9
  <2>2. c \in CallType /\ c.fn = "array" /\ c.index = 0
    BY DEF c, CallType
  <2>3. /\ calls' \in Seq(CallType) /\ Len(calls') = k + 1 /\ calls'[k + 1] = c
        /\ \A i \in 1 .. k : calls'[i] = calls[i]
    <3> DEFINE m == Append(calls, c)
    <3>1. /\ m \in Seq(CallType) /\ Len(m) = k + 1 /\ m[k + 1] = c
          /\ \A i \in 1 .. k : m[i] = calls[i]
      BY ONLY <1>3, <2>2, Appended
    <3>2. calls' = m
      BY ONLY <2>1
    <3> HIDE DEF m
    <3> QED
      BY ONLY <3>1, <3>2
  <2>4. /\ Closed(V \cup {w})
        /\ w.type = "array" /\ 0 \in DOMAIN w.elems
    BY <1>7, ElementAdded DEF w
  <2> DEFINE s == SetTop(w)
  <2>5. /\ s \in Seq(V \cup {w}) /\ Len(s) = k + 1 /\ s[k + 1] = w
        /\ \A i \in 1 .. k : s[i].type = calls[i].fn /\ Holds(s[i], calls[i])
    BY <1>1, <1>7, TopSet
  <2> HIDE DEF s
  <2>6. /\ nodes' \in Seq(V \cup {w}) /\ Len(nodes') = k + 1 + 1
        /\ \A i \in 1 .. k + 1 : nodes'[i] = s[i]
    <3>1. NullValue \in V \cup {w}
      BY <1>7 DEF Closed
    <3>2. nodes' = s \o <<NullValue>>
      BY <2>1 DEF s
    <3> QED
      BY ONLY <2>5, <3>1, <3>2, Pushed
  <2>7. Sound(nodes)'
    BY <2>4, <2>6 DEF Sound
  <2>8. StackInv'
    <3>1. DOMAIN calls' = 1 .. k + 1
      BY <2>3, LenProperties
    <3>2. ASSUME NEW i \in 1 .. k + 1
          PROVE  nodes'[i].type = calls'[i].fn /\ Holds(nodes'[i], calls'[i])
      <4>1. CASE i = k + 1
        <5>1. Holds(w, c)
          BY <2>2, <2>4 DEF Holds
        <5> QED
          BY <2>2, <2>3, <2>4, <2>5, <2>6, <4>1, <5>1
      <4>2. CASE i # k + 1
        <5>1. i \in 1 .. k
          BY <1>3, <4>2
        <5> QED
          BY <2>3, <2>5, <2>6, <5>1
      <4> QED
        BY <4>1, <4>2
    <3>3. Descended' /\ pc' = "value" /\ Len(nodes') = Len(calls') + 1
      BY <2>1, <2>3, <2>6 DEF Descended
    <3> QED
      BY ONLY <3>1, <3>2, <3>3 DEF StackInv, Holds
  <2>9. Typed'
    BY <1>1, <1>2, <1>3, <1>6, <2>1, <2>3, TypedNext DEF Location
  <2>10. ErrorInv'
    BY <1>1, <1>2, <2>1 DEF ErrorInv
  <2>11. StepsLeft' < StepsLeft
    <3>1. Rank[pc] = 4 /\ Rank[pc'] = 4 /\ pc' \in Location
      BY <1>1, <2>1, RankIs DEF Location
    <3>2. Len(calls') \in Nat /\ Len(calls') = Len(calls) + 1 /\ Len(calls) \in Nat
      BY ONLY <1>3, <2>3
    <3>3. Behind' < Behind + 4
      BY ONLY <3>1, <3>2 DEF Behind
    <3>4. current' \in current + 1 .. End
      BY ONLY <1>6, <2>1
    <3> QED
      BY <1>1, <3>1, <3>2, <3>3, <3>4, DecreaseMoving
  <2> QED
    BY <2>7, <2>8, <2>9, <2>10, <2>11 DEF Advances, ReaderState
<1> QED
  BY <1>8, <1>9

LEMMA MemberStep ==
  ASSUME ReaderState, ReadMember
  PROVE  Advances
<1> DEFINE t == skipCommentTokens[current]
           colon == readToken(t.end)
<1>1. pc = "member" /\ text' = text
  BY DEF ReadMember
<1>2. Document /\ current \in 1 .. End /\ Moves(t, current) /\ End \in Nat
  BY TokensAre, StateIs DEF ReaderState, Typed
<1>3. t.end \in current .. End /\ t.end \in 1 .. End
        /\ (t.type # "end" => t.end \in current + 1 .. End)
  BY ONLY <1>2, TokenEnds
<1>4. CASE /\ t.type = "}" /\ current' = t.end /\ calls' = Front(calls) /\ Return(TRUE)
           /\ nodes' = nodes /\ errors' = errors
  <2>1. current' \in current + 1 .. End
    BY ONLY <1>3, <1>4
  <2> QED
    BY <1>1, <1>4, <2>1, Closing
<1>5. CASE current' = t.end /\ AddErrorAndRecover /\ nodes' = nodes /\ calls' = calls /\ ok' = ok
  <2>1. current' \in current .. End
    BY ONLY <1>3, <1>5
  <2> QED
    BY <1>1, <1>5, <2>1, Recovering
<1>6. CASE /\ t.type = "string" /\ current' = colon.end
           /\ \E name \in decodeString(t) :
                IF colon.type = ":"
                  THEN PushMember(name) /\ ok' = ok /\ errors' = errors
                  ELSE AddErrorAndRecover /\ nodes' = nodes /\ calls' = calls /\ ok' = ok
  <2>1. t.end \in current + 1 .. End
    BY ONLY <1>3, <1>6
  <2>2. Moves(colon, t.end)
    BY ONLY <1>2, <1>3, TokenMoves
  <2> HIDE DEF t, colon
  <2>3. colon.end \in t.end .. End
    BY ONLY <1>2, <1>3, <2>2, TokenEnds
  <2>4. current' \in current + 1 .. End /\ current' \in current .. End
    BY ONLY <1>2, <1>6, <2>1, <2>3
  <2>5. PICK name \in decodeString(t) :
          \/ PushMember(name) /\ ok' = ok /\ errors' = errors
          \/ AddErrorAndRecover /\ nodes' = nodes /\ calls' = calls /\ ok' = ok
    BY ONLY <1>6
  <2>6. name \in Seq(Byte)
    <3>1. Within(t)
      BY ONLY <1>2, <1>6, SMT DEF Moves, Within
    <3> QED
      BY ONLY <1>2, <2>5, <3>1, StringDecoded
  <2>7. CASE PushMember(name) /\ ok' = ok /\ errors' = errors
    BY ONLY ReaderState, <1>1, <2>4, <2>6, <2>7, PushingMember
  <2>8. CASE AddErrorAndRecover /\ nodes' = nodes /\ calls' = calls /\ ok' = ok
    BY <1>1, <2>4, <2>8, Recovering
  <2> QED
    BY ONLY <2>5, <2>7, <2>8
<1> QED
  BY <1>4, <1>5, <1>6, Zenon DEF ReadMember

LEMMA SeparatorStep ==
  ASSUME ReaderState, ReadSeparator
  PROVE  Advances
<1> DEFINE first == readToken(current)
           t == skipCommentTokens[current]
<1>1. pc = "separator" /\ text' = text /\ nodes' = nodes
  BY DEF ReadSeparator
<1>2. /\ current \in 1 .. End /\ Moves(first, current) /\ Moves(t, current) /\ End \in Nat
      /\ first.type # "end" => t.end > current
  BY TokensAre, StateIs DEF ReaderState, Typed
<1>3. first.end \in current .. End /\ t.end \in 1 .. End
        /\ (first.type # "end" => t.end \in current + 1 .. End)
  <2>1. first.end \in current .. End /\ t.end \in current .. End /\ t.end \in 1 .. End
    BY ONLY <1>2, TokenEnds
  <2> QED
    BY ONLY <1>2, <2>1
<1>4. CASE current' = first.end /\ AddErrorAndRecover /\ calls' = calls /\ ok' = ok
  <2>1. current' \in current .. End
    BY ONLY <1>3, <1>4
  <2> QED
    BY <1>1, <1>4, <2>1, Recovering
<1>5. CASE /\ first.type \in {"}", ",", "comment"} /\ current' = t.end /\ errors' = errors
           /\ calls' = Front(calls) /\ Return(TRUE)
  <2>1. current' \in current + 1 .. End
    BY ONLY <1>3, <1>5
  <2> QED
    BY <1>1, <1>5, <2>1, Closing
<1>6. CASE /\ first.type \in {"}", ",", "comment"} /\ current' = t.end /\ errors' = errors
           /\ pc' = "member" /\ calls' = calls /\ ok' = ok
  <2>1. current' \in current + 1 .. End /\ current' \in 1 .. End
    BY ONLY <1>3, <1>6
  <2>2. ok = TRUE /\ errors = 0
    BY <1>1, NoErrorYet
  <2>3. Typed'
    BY <1>1, <1>6, <2>1, <2>2, TypedNext DEF ReaderState, Typed, Location
  <2>4. Sound(nodes)'
    BY <1>1 DEF ReaderState, Sound
  <2>5. StackInv'
    BY <1>1, <1>6 DEF ReaderState, StackInv, Descended, Holds, InObject, Call
  <2>6. ErrorInv'
    BY <1>6, <2>2 DEF ErrorInv
  <2>7. StepsLeft' < StepsLeft
    <3>1. Rank[pc] = 2 /\ Rank[pc'] = 2 /\ pc' \in Location
      BY <1>1, <1>6, RankIs DEF Location
    <3>2. Len(calls') \in Nat /\ Len(calls') = Len(calls)
      BY <1>6, StateIs
    <3>3. Behind' < Behind + 4
      BY ONLY <3>1, <3>2 DEF Behind
    <3> QED
      BY <1>1, <2>1, <3>1, <3>2, <3>3, DecreaseMoving
  <2> QED
    BY <2>3, <2>4, <2>5, <2>6, <2>7 DEF Advances, ReaderState
<1> QED
  BY <1>4, <1>5, <1>6, Zenon DEF ReadSeparator

LEMMA ItemStep ==
  ASSUME ReaderState, ReadItem
  PROVE  Advances
<1> DEFINE t == skipCommentTokens[current]
<1>1. pc = "item" /\ text' = text /\ current' = t.end
  BY DEF ReadItem
<1>2. Document /\ current \in 1 .. End /\ Moves(t, current) /\ End \in Nat
  BY TokensAre, StateIs DEF ReaderState, Typed
<1>3. t.end \in current .. End
        /\ (t.type # "end" => t.end \in current + 1 .. End)
  BY ONLY <1>2, TokenEnds
<1>4. CASE t.type = "," /\ PushElement(Call.index + 1) /\ ok' = ok /\ errors' = errors
  <2>1. current' \in current + 1 .. End
    BY ONLY <1>1, <1>3, <1>4
  <2>2. Call.index + 1 \in Nat
    <3>1. ~Descended
      BY <1>1 DEF Descended
    <3>2. calls \in Seq(CallType) /\ Len(calls) \in 1 .. Len(calls) /\ Call.fn # "object"
      BY <1>1, <3>1, StateIs DEF ReaderState, StackInv, Typed, InObject
    <3>3. Call \in CallType
      BY <3>2, ElementOfSeq DEF Call
    <3>4. Call \in [fn : {"array"}, index : Nat]
      BY <3>2, <3>3 DEF CallType
    <3> QED
      BY ONLY <3>4
  <2> QED
    BY <1>1, <1>4, <2>1, <2>2, PushingElement
<1>5. CASE t.type = "]" /\ calls' = Front(calls) /\ Return(TRUE) /\ nodes' = nodes /\ errors' = errors
  <2>1. current' \in current + 1 .. End
    BY ONLY <1>1, <1>3, <1>5
  <2> QED
    BY <1>1, <1>5, <2>1, Closing
<1>6. CASE AddErrorAndRecover /\ nodes' = nodes /\ calls' = calls /\ ok' = ok
  <2>1. current' \in current .. End
    BY ONLY <1>1, <1>3
  <2> QED
    BY <1>1, <1>6, <2>1, Recovering
<1> QED
  BY <1>4, <1>5, <1>6, Zenon DEF ReadItem

(* At the end of the text a container is left; before, a character goes.   *)
LEMMA RecoverStep ==
  ASSUME ReaderState, Recover
  PROVE  Advances
<1> DEFINE t == readToken(current)
<1>1. /\ pc = "recover" /\ text' = text /\ nodes' = nodes /\ errors' = errors /\ current' = t.end
      /\ \/ calls' = Front(calls) /\ pc' = "return" /\ ok' = FALSE
         \/ ~SkipsUntil(t.type) /\ calls' = calls /\ pc' = pc /\ ok' = ok
  BY DEF Recover, Return
<1>2. errors = 1 /\ current \in 1 .. End /\ Moves(t, current) /\ End \in Nat /\ ~Descended
        /\ Len(calls) \in Nat
  BY <1>1, TokensAre, StateIs DEF ReaderState, Typed, ErrorInv, Descended
<1>3. t.end \in current .. End /\ t.end \in 1 .. End
        /\ (t.type # "end" => t.end \in current + 1 .. End)
  BY ONLY <1>2, TokenEnds
<1>4. CASE calls' = Front(calls) /\ pc' = "return" /\ ok' = FALSE
  <2>1. /\ calls' \in Seq(CallType) /\ Len(calls') = Len(calls) - 1
        /\ Sound(nodes)' /\ StackInv'
    BY <1>1, <1>2, <1>4, CallEnds
  <2>2. Typed'
    BY <1>1, <1>2, <1>3, <1>4, <2>1, TypedNext DEF ReaderState, Typed, Location
  <2>3. ErrorInv'
    BY <1>1, <1>2, <1>4 DEF ErrorInv
  <2>4. StepsLeft' < StepsLeft
    <3>1. Rank[pc] = 1 /\ Rank[pc'] = 3 /\ pc' \in Location /\ Len(calls') \in Nat
      BY <1>1, <1>4, <2>1, RankIs, LenProperties DEF Location
    <3>2. Behind' < Behind
      BY ONLY <1>2, <2>1, <3>1 DEF Behind
    <3>3. current' \in current .. End
      BY ONLY <1>1, <1>3
    <3> QED
      BY <1>1, <3>1, <3>2, <3>3, DecreaseStaying
  <2> QED
    BY <2>1, <2>2, <2>3, <2>4 DEF Advances, ReaderState
<1>5. CASE ~SkipsUntil(t.type) /\ calls' = calls /\ pc' = pc /\ ok' = ok
  <2>1. t.type # "end"
    BY ONLY <1>5 DEF SkipsUntil
  <2>2. current' \in current + 1 .. End /\ current' \in 1 .. End
    BY ONLY <1>1, <1>3, <2>1
  <2>3. Typed'
    BY <1>1, <1>2, <1>5, <2>2, TypedNext DEF ReaderState, Typed
  <2>4. Sound(nodes)'
    BY <1>1 DEF ReaderState, Sound
  <2>5. StackInv'
    BY <1>1, <1>5 DEF ReaderState, StackInv, Descended, Holds, InObject, Call
  <2>6. ErrorInv'
    BY <1>1, <1>5 DEF ReaderState, ErrorInv
  <2>7. StepsLeft' < StepsLeft
    <3>1. Rank[pc] = 1 /\ Rank[pc'] = 1 /\ pc' \in Location
      BY <1>1, <1>5, RankIs DEF Location
    <3>2. Len(calls') \in Nat /\ Len(calls') = Len(calls)
      BY ONLY <1>2, <1>5
    <3>3. Behind' < Behind + 4
      BY ONLY <3>1, <3>2 DEF Behind
    <3> QED
      BY <1>1, <2>2, <3>1, <3>2, <3>3, DecreaseMoving
  <2> QED
    BY <2>3, <2>4, <2>5, <2>6, <2>7 DEF Advances, ReaderState
<1> QED
  BY ONLY <1>1, <1>4, <1>5

LEMMA ContainerStep ==
  ASSUME ReaderState, ReturnToContainer
  PROVE  Advances
<1> DEFINE k == Len(nodes)
           l == Len(calls)
           v == nodes[k - 1]
           w == IF InObject THEN WithMember(v, Call.name, Top) ELSE WithElement(v, Call.index, Top)
<1>1. /\ pc = "return" /\ calls # <<>>
      /\ text' = text /\ current' = current /\ calls' = calls /\ ok' = ok /\ errors' = errors
      /\ nodes' = Append(SubSeq(nodes, 1, k - 2), w)
      /\ pc' = IF ~ok THEN "recover" ELSE IF InObject THEN "separator" ELSE "item"
  BY DEF ReturnToContainer
<1>2. /\ l \in Nat /\ l >= 1 /\ k = l + 1 /\ DOMAIN calls = 1 .. l
      /\ current \in 1 .. End /\ End \in Nat
  BY <1>1, StateIs DEF Descended, ReaderState, Typed
<1>3. k >= 2 /\ k - 1 = l /\ k - 2 = l - 1 /\ l \in 1 .. k /\ k \in 1 .. k
  BY ONLY <1>2
<1>4. PICK V : Closed(V) /\ nodes \in Seq(V)
  BY DEF ReaderState, Sound
<1>5. v \in V /\ Top \in V
  BY <1>3, <1>4, ElementOfSeq DEF Top
<1>6. Closed(V \cup {w}) /\ w.type = calls[l].fn /\ Holds(w, calls[l])
  <2>1. calls[l] \in CallType /\ Call = calls[l]
    BY <1>2, ElementOfSeq DEF ReaderState, Typed, Call
  <2>2. CASE InObject
    <3>1. /\ Closed(V \cup {WithMember(v, Call.name, Top)})
          /\ WithMember(v, Call.name, Top).type = "object"
          /\ CString(Call.name) \in DOMAIN WithMember(v, Call.name, Top).members
      BY <1>4, <1>5, MemberAdded
    <3>2. w = WithMember(v, Call.name, Top) /\ calls[l].fn = "object"
      BY <2>1, <2>2 DEF InObject
    <3> QED
      BY ONLY <2>1, <3>1, <3>2 DEF Holds
  <2>3. CASE ~InObject
    <3>1. /\ Closed(V \cup {WithElement(v, Call.index, Top)})
          /\ WithElement(v, Call.index, Top).type = "array"
          /\ Call.index \in DOMAIN WithElement(v, Call.index, Top).elems
      BY <1>4, ElementAdded
    <3>2. w = WithElement(v, Call.index, Top)
      BY <2>3
    <3>3. calls[l].fn = "array"
      BY <2>1, <2>3 DEF InObject, CallType
    <3> QED
      BY ONLY <2>1, <3>1, <3>2, <3>3 DEF Holds
  <2> QED
    BY <2>2, <2>3
<1> HIDE DEF w
<1>7. /\ nodes' \in Seq(V \cup {w}) /\ Len(nodes') = l /\ nodes'[l] = w
      /\ \A i \in 1 .. l - 1 : nodes'[i] = nodes[i]
  <2> DEFINE m == Append(SubSeq(nodes, 1, k - 2), w)
  <2>1. /\ m \in Seq(V \cup {w}) /\ Len(m) = k - 1 /\ m[k - 1] = w
        /\ \A i \in 1 .. k - 2 : m[i] = nodes[i]
    BY ONLY <1>3, <1>4, ReturnedTo
  <2>2. nodes' = m
    BY ONLY <1>1
  <2> HIDE DEF m, k
  <2> QED
    BY ONLY <1>3, <2>1, <2>2
<1>8. \A i \in DOMAIN calls : nodes[i].type = calls[i].fn /\ (i < Len(nodes) => Holds(nodes[i], calls[i]))
  BY DEF ReaderState, StackInv
<1>9. ASSUME NEW i \in 1 .. l PROVE nodes'[i].type = calls'[i].fn /\ Holds(nodes'[i], calls'[i])
  <2>1. CASE i = l
    BY <1>1, <1>6, <1>7, <2>1
  <2>2. CASE i # l
    <3>1. i \in DOMAIN calls /\ i < k /\ i \in 1 .. l - 1
      <4> HIDE DEF k, l
      <4> QED
        BY ONLY <1>2, <2>2, i \in 1 .. l
    <3> QED
      BY <1>1, <1>7, <1>8, <3>1
  <2> QED
    BY <2>1, <2>2
<1>10. /\ pc' \in {"recover", "separator", "item"}
       /\ pc' = "recover" => ok = FALSE
       /\ pc' # "recover" => ok = TRUE
       /\ pc' = "separator" => InObject
       /\ pc' = "item" => ~InObject
  <2>1. ok \in BOOLEAN
    BY DEF ReaderState, Typed
  <2>2. CASE ok = TRUE
    BY ONLY <1>1, <2>2
  <2>3. CASE ok = FALSE
    BY ONLY <1>1, <2>3
  <2> QED
    BY ONLY <2>1, <2>2, <2>3
<1>11. StackInv'
  <2>1. ~Descended' /\ InObject' = InObject
    BY <1>1, <1>10 DEF Descended, InObject, Call
  <2>2. Len(nodes') = Len(calls') /\ Len(calls') + 0 = Len(calls')
    <3>1. Len(calls') = l /\ Len(nodes') = l /\ l + 0 = l
      <4>1. calls' = calls
        BY ONLY <1>1
      <4> QED
        BY ONLY <1>2, <1>7, <4>1
    <3> QED
      BY ONLY <3>1
  <2>3. calls' # <<>> /\ pc' # "done" /\ pc' # "member"
    BY <1>1, <1>10
  <2>4. \A i \in DOMAIN calls' : nodes'[i].type = calls'[i].fn /\ Holds(nodes'[i], calls'[i])
    BY <1>1, <1>2, <1>9
  <2> QED
    BY ONLY <1>10, <2>1, <2>2, <2>3, <2>4 DEF StackInv, Holds
<1>12. Typed'
  BY <1>1, <1>10, TypedNext DEF ReaderState, Typed, Location
<1>13. ErrorInv'
  BY <1>1, <1>10 DEF ReaderState, ErrorInv
<1>14. Sound(nodes)'
  BY <1>6, <1>7 DEF Sound
<1>15. StepsLeft' < StepsLeft
  <2>1. Rank[pc] = 3 /\ Rank[pc'] \in {1, 2} /\ pc' \in Location
    BY <1>1, <1>10, RankIs DEF Location
  <2>2. Len(calls') \in Nat /\ Len(calls') = Len(calls)
    BY ONLY <1>1, <1>2
  <2>3. Behind' < Behind
    BY ONLY <2>1, <2>2 DEF Behind
  <2>4. current' \in current .. End
    BY ONLY <1>1, <1>2
  <2> QED
    BY <1>1, <2>1, <2>2, <2>3, <2>4, DecreaseStaying
<1> QED
  BY <1>11, <1>12, <1>13, <1>14, <1>15 DEF Advances, ReaderState

LEMMA ParseStep ==
  ASSUME ReaderState, ReturnToParse
  PROVE  Advances
<1> DEFINE t == skipCommentTokens[current]
<1>1. /\ pc = "return" /\ calls = <<>> /\ current' = t.end /\ pc' = "done"
      /\ text' = text /\ nodes' = nodes /\ calls' = calls /\ ok' = ok /\ errors' = errors
  BY DEF ReturnToParse
<1>2. current \in 1 .. End /\ Moves(t, current) /\ End \in Nat /\ Len(calls) \in Nat
        /\ Len(nodes) = Len(calls) + 1
  BY <1>1, TokensAre, StateIs DEF ReaderState, Typed, Descended
<1>3. current' \in current .. End /\ current' \in 1 .. End
  BY ONLY <1>1, <1>2, TokenEnds
<1>4. Typed'
  BY <1>1, <1>3, TypedNext DEF ReaderState, Typed, Location
<1>5. Sound(nodes)'
  BY <1>1 DEF ReaderState, Sound
<1>6. StackInv'
  BY <1>1, <1>2 DEF ReaderState, StackInv, Descended, Holds
<1>7. ErrorInv'
  BY <1>1 DEF ReaderState, ErrorInv
<1>8. StepsLeft' < StepsLeft
  <2>1. Rank[pc] = 3 /\ Rank[pc'] = 0 /\ pc' \in Location
    BY <1>1, RankIs DEF Location
  <2>2. Len(calls') \in Nat /\ Len(calls') = Len(calls)
    BY ONLY <1>1, <1>2
  <2>3. Behind' < Behind
    BY ONLY <2>1, <2>2 DEF Behind
  <2> QED
    BY <1>1, <1>3, <2>1, <2>2, <2>3, DecreaseStaying
<1> QED
  BY <1>4, <1>5, <1>6, <1>7, <1>8 DEF Advances, ReaderState

-----------------------------------------------------------------------------
(* The theorems.                                                           *)

(* A Reader before its first step, or none.                                *)
Fresh ==
  /\ Document /\ current = 1 /\ nodes = <<NullValue>> /\ calls = <<>>
  /\ pc \in {"value", "done"} /\ ok = TRUE /\ errors = 0 /\ steps = 0

Inductive == ReaderState /\ steps \in Nat /\ ParseEnds

LEMMA FreshIsInductive == Fresh => Inductive
<1> SUFFICES ASSUME Fresh PROVE Inductive
  OBVIOUS
<1>1. /\ Document /\ current = 1 /\ nodes = <<NullValue>> /\ calls = <<>>
      /\ pc \in {"value", "done"} /\ ok = TRUE /\ errors = 0 /\ steps = 0
  BY DEF Fresh
<1>2. End \in Nat /\ End >= 1 /\ Len(text) = End - 1
  BY <1>1, Positions
<1>3. calls \in Seq(CallType) /\ Len(calls) = 0 /\ DOMAIN calls = {}
  BY <1>1, EmptySeq
<1>4. Typed
  BY <1>1, <1>2, <1>3 DEF Typed, Location
<1>5. nodes \in Seq({NullValue}) /\ Len(nodes) = 1
  BY <1>1
<1>6. Sound(nodes)
  BY <1>5, NullIsClosed DEF Sound
<1>7. StackInv
  BY <1>1, <1>3, <1>5 DEF StackInv, Descended
<1>8. ErrorInv
  BY <1>1 DEF ErrorInv
<1>9. ParseEnds
  <2>1. Rank[pc] \in Nat /\ Rank[pc] <= 4
    BY <1>1, RankIs
  <2> DEFINE r == Rank[pc]
             e == End
  <2>2. StepsLeft = 4 * (e - 1) + (3 * 0 + r)
    BY <1>1, <1>3 DEF StepsLeft
  <2> HIDE DEF r, e
  <2>3. r \in Nat /\ r <= 4 /\ e \in Nat /\ Len(text) = e - 1
    BY <1>2, <2>1 DEF r, e
  <2>4. 0 + (4 * (e - 1) + (3 * 0 + r)) <= 4 * (e - 1) + 4
    BY ONLY <2>3
  <2> QED
    BY ONLY <1>1, <2>2, <2>3, <2>4 DEF ParseEnds
<1> QED
  BY <1>1, <1>4, <1>6, <1>7, <1>8, <1>9 DEF Inductive, ReaderState

LEMMA FreshNext == Fresh' => Inductive'
BY FreshIsInductive, PTL

LEMMA StepIsInductive ==
  ASSUME Inductive, ReaderStep
  PROVE  Inductive'
<1>1. ReaderState /\ steps \in Nat /\ ParseEnds
  BY DEF Inductive
<1>2. Advances
  BY <1>1, ArrayBegin, ContainerStep, ItemStep, MemberStep, ObjectBegin, ParseStep, RecoverStep, ScalarStep,
     SeparatorStep DEF ReaderStep
<1>3. steps' = steps + 1
  BY DEF ReaderStep
<1>4. text' = text
  BY DEF ReaderStep, ReadObjectBegin, ReadArrayBegin, ReadScalar, ReadMember, ReadSeparator, ReadItem, Recover,
     ReturnToContainer, ReturnToParse
<1>5. StepsLeft \in Int /\ StepsLeft' \in Int
  <2>1. pc' \in Location /\ Len(calls') \in Nat /\ current' \in 1 .. End
    BY <1>2, <1>4, LenProperties DEF Advances, ReaderState, Typed, End
  <2>2. /\ Behind \in Int /\ Behind' \in Int /\ End \in Nat /\ current \in 1 .. End
        /\ StepsLeft = 4 * (End - current) + Behind
        /\ StepsLeft' = 4 * (End - current') + Behind'
    BY <1>1, <1>4, <2>1, StepsLeftIs
  <2>3. \A e \in Nat : \A c \in 1 .. e : \A b \in Int : 4 * (e - c) + b \in Int
    OBVIOUS
  <2> QED
    BY ONLY <2>1, <2>2, <2>3
<1>6. Len(text) \in Nat
  BY <1>1, Positions DEF ReaderState, Typed
<1>7. ParseEnds'
  <2>1. steps + StepsLeft <= 4 * Len(text) + 4
    BY <1>1 DEF ParseEnds
  <2>2. StepsLeft' < StepsLeft
    BY <1>2 DEF Advances
  <2> DEFINE s == StepsLeft
             r == StepsLeft'
             b == 4 * Len(text) + 4
  <2>3. b \in Int
    BY ONLY <1>6
  <2>4. s \in Int /\ r \in Int /\ steps \in Nat /\ r < s /\ steps + s <= b
    BY ONLY <1>1, <1>5, <2>1, <2>2
  <2> HIDE DEF s, r, b
  <2>5. steps + 1 + r <= b
    BY ONLY <2>3, <2>4
  <2> QED
    BY ONLY <1>3, <1>4, <2>5 DEF ParseEnds, r, b
<1> QED
  BY <1>1, <1>2, <1>3, <1>7 DEF Inductive, Advances

LEMMA InductiveHolds == ReaderSpec => []Inductive
<1>1. Idle => Inductive
  <2>1. Idle => Fresh
    BY EmptySeq DEF Idle, Fresh, Document
  <2> QED
    BY <2>1, FreshIsInductive
<1>2. Inductive /\ [ReaderNext]_readerVars => Inductive'
  <2> SUFFICES ASSUME Inductive, [ReaderNext]_readerVars PROVE Inductive'
    OBVIOUS
  <2>1. CASE \E document \in Seq(Byte) : Parsing(document)
    <3>1. Fresh'
      BY <2>1 DEF Parsing, Fresh, Document
    <3> QED
      BY <3>1, FreshNext
  <2>2. CASE ReaderStep
    BY <2>2, StepIsInductive
  <2>3. CASE Released
    <3>1. Fresh'
      BY <2>3, EmptySeq DEF Released, Fresh, Document
    <3> QED
      BY <3>1, FreshNext
  <2>4. CASE UNCHANGED readerVars
    <3>1. UNCHANGED <<text, current, nodes, calls, pc, ok, errors, steps>>
      BY <2>4 DEF readerVars
    <3>2. End' = End /\ Descended' = Descended /\ InObject' = InObject
      BY <3>1 DEF End, Descended, InObject, Call
    <3>3. Typed' /\ Sound(nodes)'
      BY <3>1, <3>2 DEF Inductive, ReaderState, Typed, Document, Sound
    <3>4. StackInv'
      BY <3>1, <3>2 DEF Inductive, ReaderState, StackInv
    <3>5. ErrorInv' /\ ParseEnds'
      BY <3>1, <3>2 DEF Inductive, ReaderState, ErrorInv, ParseEnds, StepsLeft
    <3> QED
      BY <3>1, <3>3, <3>4, <3>5 DEF Inductive, ReaderState
  <2> QED
    BY <2>1, <2>2, <2>3, <2>4 DEF ReaderNext
<1> QED
  BY <1>1, <1>2, PTL DEF ReaderSpec

LEMMA InductiveIsSafe == Inductive => ReaderInv
<1> SUFFICES ASSUME Inductive PROVE ReaderInv
  OBVIOUS
<1>1. PICK V : Closed(V) /\ nodes \in Seq(V)
  BY DEF Inductive, ReaderState, Sound
<1>2. Len(nodes) \in Nat /\ DOMAIN nodes = 1 .. Len(nodes) /\ \A i \in 1 .. Len(nodes) : nodes[i] \in V
  BY <1>1, LenProperties, ElementOfSeq
<1>3. \A i \in DOMAIN nodes : Fits(nodes[i])
  BY <1>1, <1>2 DEF Closed
<1>4. nodes \in Seq(Range(nodes))
  <2> DEFINE R == Range(nodes)
  <2>1. \A i \in 1 .. Len(nodes) : nodes[i] \in R
    BY <1>2 DEF Range
  <2> HIDE DEF R
  <2>2. SubSeq(nodes, 1, Len(nodes)) \in Seq(R)
    BY <1>2, <2>1, SubSeqProperties
  <2>3. SubSeq(nodes, 1, Len(nodes)) = nodes
    BY <1>1, SubSeqFull
  <2> QED
    BY ONLY <2>2, <2>3 DEF R
<1> QED
  BY <1>3, <1>4 DEF Inductive, ReaderState, Typed, ReaderInv, ReaderTypeOK, Document

(* On every text and for every width of the words, the reader's stacks     *)
(* stay in step, every number on them fits its type, and no more than one  *)
(* error is reported (parse, readValue, readObject, readArray,             *)
(* recoverFromError).                                                      *)
THEOREM ReaderIsSafe == ReaderSpec => []ReaderInv
BY InductiveHolds, InductiveIsSafe, PTL

(* Every parse ends, whatever the text: four steps for each character and  *)
(* four more are enough.                                                   *)
THEOREM EveryParseEnds == ReaderSpec => []ParseEnds
<1>1. Inductive => ParseEnds
  BY DEF Inductive
<1> QED
  BY <1>1, InductiveHolds, PTL

-----------------------------------------------------------------------------
(* The conversions.                                                        *)

LEMMA Increasing ==
  ASSUME NEW u \in Nat, u >= 1, NEW a \in Int, NEW b \in Int
  PROVE  /\ u * a \in Int /\ u * b \in Int
         /\ a < b => u * a < u * b
         /\ a <= b => u * a <= u * b
         /\ u * (a + 1) = u * a + u
         /\ u * (-a) = -(u * a)
<1>1. u * a \in Int /\ u * b \in Int
  OBVIOUS
<1>2. ASSUME a < b PROVE u * a < u * b
  <2> DEFINE d == b - a
  <2>1. d \in Nat /\ d >= 1 /\ b = a + d
    BY <1>2
  <2> HIDE DEF d
  <2>2. u * b = u * a + u * d
    BY <2>1
  <2>3. u * d \in Nat /\ u * d > 0
    BY <2>1
  <2> QED
    BY <1>1, <2>2, <2>3
<1>3. u * (a + 1) = u * a + u
  OBVIOUS
<1>4. u * (-a) = -(u * a)
  OBVIOUS
<1>5. a = b => u * a = u * b
  OBVIOUS
<1> QED
  BY <1>1, <1>2, <1>3, <1>4, <1>5

LEMMA QuotientBelow ==
  ASSUME NEW u \in Nat, u >= 1, NEW r \in Nat, NEW n \in Int, r < u * n
  PROVE  r \div u \in Nat /\ r \div u < n
<1> DEFINE q == r \div u
<1>1. q \in Nat
  BY Quotients
<1>2. u * q <= r
  BY SMT
<1> HIDE DEF q
<1>3. ASSUME ~(q < n) PROVE FALSE
  <2>1. n <= q
    BY ONLY <1>1, <1>3, n \in Int
  <2>2. u * n <= u * q /\ u * n \in Int /\ u * q \in Int
    BY ONLY <1>1, <2>1, u \in Nat, u >= 1, n \in Int, Increasing
  <2> QED
    BY ONLY <1>2, <2>2, r < u * n, r \in Nat
<1> QED
  BY <1>1, <1>3 DEF q

(* A double between two numbers has its whole part between them.           *)
LEMMA TruncatedIs ==
  ASSUME NEW r \in Int, NEW a \in Int, a <= 0, NEW b \in Nat, Unit * a <= r, r < Unit * (b + 1)
  PROVE  Truncated(r) \in a .. b
<1>1. Unit \in Nat /\ Unit >= 1
  BY Widths
<1>2. CASE r >= 0
  <2>1. r \in Nat /\ b + 1 \in Int
    BY <1>2
  <2>2. r \div Unit \in Nat /\ r \div Unit < b + 1
    BY ONLY <1>1, <2>1, r < Unit * (b + 1), QuotientBelow
  <2>3. Truncated(r) = r \div Unit
    BY <1>2 DEF Truncated
  <2> DEFINE q == r \div Unit
  <2> HIDE DEF q
  <2>4. q \in Nat /\ q < b + 1
    BY ONLY <2>2 DEF q
  <2>5. q \in a .. b
    BY ONLY <2>4, a \in Int, a <= 0, b \in Nat
  <2> QED
    BY ONLY <2>3, <2>5 DEF q
<1>3. CASE r < 0
  <2> DEFINE s == -r
             n == -a + 1
  <2>1. s \in Nat /\ n \in Int
    BY <1>3
  <2>2. s < Unit * n
    <3>1. Unit * (-a + 1) = -(Unit * a) + Unit /\ Unit * a \in Int
      <4>1. -a \in Int
        OBVIOUS
      <4>2. Unit * (-a + 1) = Unit * (-a) + Unit /\ Unit * (-a) = -(Unit * a) /\ Unit * a \in Int
        BY ONLY <1>1, <4>1, a \in Int, Increasing
      <4> QED
        BY ONLY <4>2
    <3> DEFINE x == Unit * a
               y == Unit * (-a + 1)
    <3> HIDE DEF x, y
    <3>2. x \in Int /\ y = -x + Unit /\ x <= r
      BY ONLY <3>1, Unit * a <= r DEF x, y
    <3>3. -r < y
      BY ONLY <1>1, <3>2, r \in Int
    <3> QED
      BY ONLY <3>3 DEF y
  <2>3. Truncated(r) = -(s \div Unit)
    BY <1>3 DEF Truncated
  <2> HIDE DEF s, n
  <2>4. s \div Unit \in Nat /\ s \div Unit < n
    BY ONLY <1>1, <2>1, <2>2, QuotientBelow
  <2> DEFINE q == s \div Unit
  <2> HIDE DEF q
  <2>5. q \in Nat /\ q < n
    BY ONLY <2>4 DEF q
  <2>6. n = -a + 1
    BY DEF n
  <2>7. -q \in a .. b
    BY ONLY <2>5, <2>6, a \in Int, b \in Nat
  <2> QED
    BY ONLY <2>3, <2>7 DEF q
<1> QED
  BY <1>2, <1>3

LEMMA DoubleIs ==
  /\ Double(minInt) = Unit * minInt /\ Double(maxInt) = Unit * maxInt
  /\ Double(0) = 0 /\ Double(maxUInt) = Unit * maxUInt
  /\ Double(minLargestInt) = Unit * minLargestInt
  /\ Double(maxLargestInt) = Unit * HalfLong
  /\ Double(maxLargestUInt) = Unit * (2 * HalfLong)
<1> DEFINE L == maxLargestInt
           M == maxLargestUInt
<1>1. /\ Unit \in Nat /\ Unit >= 1 /\ HalfWord \in Nat /\ HalfWord >= 1
      /\ HalfLong \in Nat /\ HalfLong > 2 * HalfWord /\ HalfLong >= 10
  BY Widths
<1>2. L = HalfLong - 1 /\ M = 2 * HalfLong - 1 /\ L \in Nat /\ M \in Nat /\ L + 1 = HalfLong
        /\ M + 1 = 2 * HalfLong
  BY ONLY <1>1 DEF maxLargestInt, maxLargestUInt
<1> HIDE DEF L, M
<1>3. ASSUME NEW n \in Int, n # L, n # M, -n # L, -n # M PROVE Double(n) = Unit * n
  <2> DEFINE r == Unit * n
  <2>1. r \in Int
    BY ONLY <1>1, n \in Int, Increasing
  <2>2. ASSUME NEW m \in Int, n # m PROVE r # Unit * m
    <3>1. n < m \/ m < n
      BY ONLY n \in Int, m \in Int, <2>2
    <3>2. Unit * m \in Int /\ (n < m => r < Unit * m) /\ (m < n => Unit * m < r)
      BY ONLY <1>1, n \in Int, m \in Int, Increasing
    <3> QED
      BY ONLY <2>1, <3>1, <3>2
  <2>3. r # Unit * L /\ r # Unit * M
    BY ONLY <1>2, <1>3, <2>2
  <2>4. -r # Unit * L /\ -r # Unit * M
    <3>1. -L \in Int /\ -M \in Int /\ n # -L /\ n # -M
      <4>1. \A l \in Nat : -l \in Int /\ (n = -l => -n = l)
        BY ONLY n \in Int
      <4> QED
        BY ONLY <1>2, <1>3, <4>1
    <3>2. r # Unit * (-L) /\ r # Unit * (-M)
      BY ONLY <2>2, <3>1
    <3>3. Unit * (-L) = -(Unit * L) /\ Unit * (-M) = -(Unit * M) /\ Unit * L \in Int /\ Unit * M \in Int
      BY ONLY <1>1, <1>2, Increasing
    <3> HIDE DEF r
    <3> QED
      BY ONLY <2>1, <3>2, <3>3
  <2> HIDE DEF r
  <2>5. r >= 0 \/ r <= 0
    BY ONLY <2>1
  <2>6. Rounded(r) = r
    BY ONLY <2>1, <2>3, <2>4, <2>5, RoundedIs DEF L, M
  <2> QED
    BY ONLY <2>6 DEF Double, r
<1>4. Double(minInt) = Unit * minInt
  <2>1. minInt \in Int /\ minInt # L /\ minInt # M /\ -minInt # L /\ -minInt # M
    BY ONLY <1>1, <1>2 DEF minInt
  <2> QED
    BY ONLY <1>3, <2>1
<1>5. Double(maxInt) = Unit * maxInt
  <2>1. maxInt \in Int /\ maxInt # L /\ maxInt # M /\ -maxInt # L /\ -maxInt # M
    BY ONLY <1>1, <1>2 DEF maxInt
  <2> QED
    BY ONLY <1>3, <2>1
<1>6. Double(maxUInt) = Unit * maxUInt
  <2>1. maxUInt \in Int /\ maxUInt # L /\ maxUInt # M /\ -maxUInt # L /\ -maxUInt # M
    BY ONLY <1>1, <1>2 DEF maxUInt
  <2> QED
    BY ONLY <1>3, <2>1
<1>7. Double(0) = 0
  <2>1. 0 \in Int /\ 0 # L /\ 0 # M /\ -0 # L /\ -0 # M
    BY ONLY <1>1, <1>2
  <2>2. Unit * 0 = 0
    BY ONLY <1>1
  <2> QED
    BY ONLY <1>3, <2>1, <2>2
<1>8. Double(minLargestInt) = Unit * minLargestInt
  <2>1. /\ minLargestInt \in Int /\ minLargestInt # L /\ minLargestInt # M
        /\ -minLargestInt # L /\ -minLargestInt # M
    BY ONLY <1>1, <1>2 DEF minLargestInt
  <2> QED
    BY ONLY <1>3, <2>1
<1>9. ASSUME NEW n \in {L, M} PROVE Double(n) = Unit * (n + 1)
  <2>1. n \in Int /\ (n = L \/ n = M)
    BY ONLY <1>2, <1>9
  <2>2. Unit * n \in Int /\ Unit * (n + 1) = Unit * n + Unit
    BY ONLY <1>1, <2>1, Increasing
  <2> DEFINE r == Unit * n
  <2>3. r \in Int /\ (r = Unit * L \/ r = Unit * M)
    BY ONLY <2>1, <2>2
  <2> HIDE DEF r
  <2>4. Rounded(r) = r + Unit
    BY ONLY <2>3, RoundedIs DEF L, M
  <2> QED
    BY ONLY <2>2, <2>4 DEF Double, r
<1>10. Double(L) = Unit * HalfLong /\ Double(M) = Unit * (2 * HalfLong)
  BY ONLY <1>2, <1>9
<1> QED
  BY ONLY <1>4, <1>5, <1>6, <1>7, <1>8, <1>10 DEF L, M

(* A conversion by the type of the value.                                  *)
LEMMA ConvertedIs ==
  ASSUME NEW v, NEW fits, NEW min, NEW max
  PROVE  LET c == Converted(v, fits, min, max)
         IN  /\ Integer(v) => c = IF fits THEN {v.num} ELSE {}
             /\ v.type = "real" => c = IF InRange(v.real, min, max)
                                         THEN Cast(Truncated(v.real), min, max) ELSE {}
             /\ v.type \in {"null", "boolean"} => c # {}
             /\ v.type \in {"string", "array", "object"} => c = {}
<1> DEFINE c == Converted(v, fits, min, max)
<1>1. ASSUME Integer(v) PROVE c = IF fits THEN {v.num} ELSE {}
  <2>1. v.type # "real" /\ v.type # "null" /\ v.type # "boolean"
    BY <1>1 DEF Integer
  <2> QED
    BY <1>1, <2>1, Zenon DEF Converted
<1>2. ASSUME v.type = "real"
      PROVE  c = IF InRange(v.real, min, max) THEN Cast(Truncated(v.real), min, max) ELSE {}
  <2>1. ~Integer(v) /\ v.type # "null" /\ v.type # "boolean"
    BY <1>2 DEF Integer
  <2> QED
    BY <1>2, <2>1, Zenon DEF Converted
<1>3. ASSUME v.type = "null" PROVE c = {0}
  <2>1. ~Integer(v) /\ v.type # "real" /\ v.type # "boolean"
    BY <1>3 DEF Integer
  <2> QED
    BY <1>3, <2>1, Zenon DEF Converted
<1>4. ASSUME v.type = "boolean" PROVE c = {IF v.bool THEN 1 ELSE 0}
  <2>1. ~Integer(v) /\ v.type # "real" /\ v.type # "null"
    BY <1>4 DEF Integer
  <2> QED
    BY <1>4, <2>1, Zenon DEF Converted
<1>5. ASSUME v.type \in {"string", "array", "object"} PROVE c = {}
  <2>1. ~Integer(v) /\ v.type # "real" /\ v.type # "null" /\ v.type # "boolean"
    BY <1>5 DEF Integer
  <2> QED
    BY <2>1, Zenon DEF Converted
<1> HIDE DEF c
<1>6. v.type \in {"null", "boolean"} => c # {}
  BY <1>3, <1>4
<1> QED
  BY <1>1, <1>2, <1>5, <1>6, Zenon DEF c

(* The cast of a double in the range of a type, which is that of the       *)
(* doubles next to its ends.                                               *)
LEMMA CastIs ==
  ASSUME NEW r \in Int, NEW a \in Int, a <= 0, NEW b \in Nat,
         Double(a) = Unit * a, InRange(r, a, b), r < Unit * (b + 1)
  PROVE  Cast(Truncated(r), a, b) = {Truncated(r)} /\ Truncated(r) \in a .. b
<1>1. Unit * a <= r
  BY DEF InRange
<1>2. Truncated(r) \in a .. b
  BY ONLY r \in Int, a \in Int, a <= 0, b \in Nat, r < Unit * (b + 1), <1>1, TruncatedIs
<1> QED
  BY ONLY <1>2 DEF Cast

(* To a type whose ends are doubles, as words are: asInt, asUInt.          *)
LEMMA WordConverts ==
  ASSUME NEW v, Fits(v), NEW a \in Int, a <= 0, NEW b \in Nat, NEW fits,
         Double(a) = Unit * a, Double(b) = Unit * b,
         Integer(v) => (fits <=> v.num \in a .. b),
         v.type = "real" /\ fits => InRange(v.real, a, b),
         ~(Integer(v) \/ v.type = "real") => ~fits
  PROVE  LET c == Converted(v, fits, a, b)
         IN  /\ Numeric(v) => c \subseteq {Number(v)} \cap a .. b
             /\ c # {} <=> \/ fits
                           \/ v.type = "real" /\ InRange(v.real, a, b)
                           \/ v.type \in {"boolean", "null"}
<1> DEFINE c == Converted(v, fits, a, b)
<1>1. /\ Integer(v) => c = IF fits THEN {v.num} ELSE {}
      /\ v.type = "real" => c = IF InRange(v.real, a, b)
                                  THEN Cast(Truncated(v.real), a, b) ELSE {}
      /\ v.type \in {"null", "boolean"} => c # {}
      /\ v.type \in {"string", "array", "object"} => c = {}
  BY ConvertedIs
<1>2. v.type \in ValueType
  BY DEF Fits
<1> HIDE DEF c
<1>3. CASE Integer(v)
  <2>1. Number(v) = v.num /\ v.type \notin {"real", "boolean", "null"}
    BY <1>3 DEF Number, Integer
  <2>2. CASE fits
    <3>1. c = {v.num} /\ v.num \in a .. b
      BY <1>1, <1>3, <2>2
    <3> QED
      BY ONLY <2>1, <2>2, <3>1 DEF c
  <2>3. CASE ~fits
    <3>1. c = {}
      BY <1>1, <1>3, <2>3
    <3> QED
      BY ONLY <2>1, <2>3, <3>1 DEF c
  <2> QED
    BY <2>2, <2>3
<1>4. CASE v.type = "real"
  <2>1. v.real \in Int /\ Number(v) = Truncated(v.real)
    BY <1>4 DEF Fits, Number, Integer
  <2>2. CASE InRange(v.real, a, b)
    <3>1. v.real < Unit * (b + 1)
      <4>1. v.real <= Unit * b
        BY <2>2 DEF InRange
      <4>2. Unit \in Nat /\ Unit >= 1
        BY Widths
      <4>3. b \in Int
        OBVIOUS
      <4>4. Unit * b \in Int /\ Unit * (b + 1) = Unit * b + Unit
        BY ONLY <4>2, <4>3, Increasing
      <4> DEFINE x == Unit * b
                 y == Unit * (b + 1)
      <4> HIDE DEF x, y
      <4>5. x \in Int /\ y = x + Unit /\ v.real <= x
        BY ONLY <4>1, <4>4 DEF x, y
      <4>6. v.real < y
        BY ONLY <2>1, <4>2, <4>5
      <4> QED
        BY ONLY <4>6 DEF y
    <3>2. Cast(Truncated(v.real), a, b) = {Truncated(v.real)} /\ Truncated(v.real) \in a .. b
      BY ONLY <2>1, <2>2, <3>1, a \in Int, a <= 0, b \in Nat, Double(a) = Unit * a, CastIs
    <3>3. c = {Truncated(v.real)}
      BY ONLY <1>1, <1>4, <2>2, <3>2
    <3> QED
      BY ONLY <1>4, <2>1, <2>2, <3>2, <3>3 DEF c
  <2>3. CASE ~InRange(v.real, a, b)
    <3>1. c = {} /\ ~fits
      BY <1>1, <1>4, <2>3
    <3> QED
      BY ONLY <1>4, <2>3, <3>1 DEF c
  <2> QED
    BY <2>2, <2>3
<1>5. CASE v.type \in {"null", "boolean"}
  <2>1. ~Numeric(v)
    BY <1>5 DEF Numeric, Integer
  <2> QED
    BY <1>1, <1>5, <2>1 DEF c
<1>6. CASE v.type \in {"string", "array", "object"}
  <2>1. ~Numeric(v) /\ ~fits /\ v.type # "real" /\ v.type \notin {"boolean", "null"}
    BY <1>6 DEF Numeric, Integer
  <2> QED
    BY <1>1, <1>6, <2>1 DEF c
<1> QED
  BY <1>2, <1>3, <1>4, <1>5, <1>6 DEF ValueType, Integer

(* To a long word, whose largest number is no double: asLargestInt and     *)
(* asLargestUInt take the double next to it for one in range.              *)
LEMMA LongConverts ==
  ASSUME NEW v, Fits(v), NEW a \in Int, a <= 0, NEW b \in Nat, NEW fits,
         Double(a) = Unit * a, Double(b) = Unit * (b + 1), Unit * (b + 1) \in Boundary,
         Integer(v) => (fits <=> v.num \in a .. b)
  PROVE  LET c == Converted(v, fits, a, b)
         IN  /\ Integer(v) => c = {v.num} \cap a .. b
             /\ Numeric(v) => c \subseteq {Number(v)}
<1> DEFINE c == Converted(v, fits, a, b)
<1>1. /\ Integer(v) => c = IF fits THEN {v.num} ELSE {}
      /\ v.type = "real" => c = IF InRange(v.real, a, b)
                                  THEN Cast(Truncated(v.real), a, b) ELSE {}
  BY ConvertedIs
<1> HIDE DEF c
<1>2. CASE Integer(v)
  <2>1. Number(v) = v.num
    BY <1>2 DEF Number
  <2>2. c = {v.num} \cap a .. b
    <3>1. CASE fits
      <4>1. c = {v.num} /\ v.num \in a .. b
        BY <1>1, <1>2, <3>1
      <4> QED
        BY ONLY <4>1
    <3>2. CASE ~fits
      <4>1. c = {} /\ v.num \notin a .. b
        BY <1>1, <1>2, <3>2
      <4> QED
        BY ONLY <4>1
    <3> QED
      BY <3>1, <3>2
  <2> QED
    BY ONLY <2>1, <2>2 DEF c
<1>3. CASE ~Integer(v) /\ Numeric(v)
  <2>1. v.type = "real" /\ v.real \notin Boundary
    BY <1>3 DEF Numeric
  <2>2. v.real \in Int /\ Number(v) = Truncated(v.real)
    BY <1>3, <2>1 DEF Fits, Number
  <2>3. CASE InRange(v.real, a, b)
    <3> DEFINE y == Unit * (b + 1)
    <3>1. v.real <= y /\ v.real # y
      BY <2>1, <2>3 DEF InRange
    <3>2. y \in Int
      BY Widths
    <3> HIDE DEF y
    <3>3. v.real < y
      BY ONLY <2>2, <3>1, <3>2
    <3>4. Cast(Truncated(v.real), a, b) = {Truncated(v.real)}
      BY ONLY <2>2, <2>3, <3>3, a \in Int, a <= 0, b \in Nat, Double(a) = Unit * a, CastIs DEF y
    <3>5. c = {Truncated(v.real)}
      BY ONLY <1>1, <2>1, <2>3, <3>4
    <3> QED
      BY ONLY <1>3, <2>2, <3>5 DEF c
  <2>4. CASE ~InRange(v.real, a, b)
    <3>1. c = {}
      BY ONLY <1>1, <2>1, <2>4
    <3> QED
      BY ONLY <1>3, <3>1 DEF c
  <2> QED
    BY <2>3, <2>4
<1> QED
  BY <1>2, <1>3 DEF c

(* isConvertibleTo, asDouble and asBool by the type.                       *)
LEMMA IntConvertible ==
  ASSUME NEW v
  PROVE  isConvertibleTo(v, "int") <=> \/ isInt(v)
                                       \/ v.type = "real" /\ InRange(v.real, minInt, maxInt)
                                       \/ v.type \in {"boolean", "null"}
BY Zenon DEF isConvertibleTo

LEMMA UIntConvertible ==
  ASSUME NEW v
  PROVE  isConvertibleTo(v, "uint") <=> \/ isUInt(v)
                                        \/ v.type = "real" /\ InRange(v.real, 0, maxUInt)
                                        \/ v.type \in {"boolean", "null"}
BY Zenon DEF isConvertibleTo

LEMMA RealConvertible ==
  ASSUME NEW v, NEW type \in {"real", "boolean"}
  PROVE  isConvertibleTo(v, type) <=> isDouble(v) \/ v.type \in {"boolean", "null"}
<1>1. type # "null" /\ type # "int" /\ type # "uint"
  OBVIOUS
<1> QED
  BY <1>1, Zenon DEF isConvertibleTo

LEMMA DoublesAre ==
  ASSUME NEW v, v.type \in ValueType
  PROVE  /\ asDouble(v) # {} <=> v.type \notin {"string", "array", "object"}
         /\ asBool(v) # {} <=> v.type \notin {"string", "array", "object"}
<1>1. CASE Integer(v)
  <2>1. v.type \notin {"real", "null", "boolean", "string", "array", "object"}
    BY <1>1 DEF Integer
  <2>2. asDouble(v) = {Double(v.num)}
    <3>1. v.type # "real" /\ v.type # "null" /\ v.type # "boolean"
      BY <2>1
    <3> QED
      BY <1>1, <3>1, Zenon DEF asDouble
  <2>3. v.type # "boolean" /\ ~(v.type = "string" \/ isArray(v) \/ isObject(v))
    BY <2>1 DEF isArray, isObject
  <2>4. asBool(v) = {asDouble(v) # {0}}
    BY <2>3, Zenon DEF asBool
  <2>5. asDouble(v) # {} /\ asBool(v) # {}
    BY ONLY <2>2, <2>4, Zenon
  <2> QED
    BY ONLY <2>1, <2>5
<1>2. CASE v.type = "real"
  <2>1. ~Integer(v) /\ v.type \notin {"null", "boolean", "string", "array", "object"}
    BY <1>2 DEF Integer
  <2>2. asDouble(v) = {v.real}
    BY <1>2, <2>1, Zenon DEF asDouble
  <2>3. v.type # "boolean" /\ ~(v.type = "string" \/ isArray(v) \/ isObject(v))
    BY <2>1 DEF isArray, isObject
  <2>4. asBool(v) = {asDouble(v) # {0}}
    BY <2>3, Zenon DEF asBool
  <2>5. asDouble(v) # {} /\ asBool(v) # {}
    BY ONLY <2>2, <2>4, Zenon
  <2> QED
    BY ONLY <2>1, <2>5
<1>3. CASE v.type = "null"
  <2>1. ~Integer(v) /\ v.type \notin {"real", "boolean", "string", "array", "object"}
    BY <1>3 DEF Integer
  <2>2. asDouble(v) = {0}
    <3>1. v.type # "real" /\ v.type # "boolean"
      BY <2>1
    <3> QED
      BY <1>3, <2>1, <3>1, Zenon DEF asDouble
  <2>3. v.type # "boolean" /\ ~(v.type = "string" \/ isArray(v) \/ isObject(v))
    BY <2>1 DEF isArray, isObject
  <2>4. asBool(v) = {asDouble(v) # {0}}
    BY <2>3, Zenon DEF asBool
  <2>5. asDouble(v) # {} /\ asBool(v) # {}
    BY ONLY <2>2, <2>4, Zenon
  <2> QED
    BY ONLY <2>1, <2>5
<1>4. CASE v.type = "boolean"
  <2>1. ~Integer(v) /\ v.type \notin {"real", "null", "string", "array", "object"}
    BY <1>4 DEF Integer
  <2>2. asDouble(v) = {IF v.bool THEN Unit ELSE 0}
    <3>1. v.type # "real" /\ v.type # "null"
      BY <2>1
    <3> QED
      BY <1>4, <2>1, <3>1, Zenon DEF asDouble
  <2>3. asBool(v) = {v.bool}
    <3>1. ~(v.type = "string" \/ isArray(v) \/ isObject(v))
      BY <2>1 DEF isArray, isObject
    <3> QED
      BY <1>4, <3>1, Zenon DEF asBool
  <2>4. asDouble(v) # {} /\ asBool(v) # {}
    BY ONLY <2>2, <2>3, Zenon
  <2> QED
    BY ONLY <2>1, <2>4
<1>5. CASE v.type \in {"string", "array", "object"}
  <2>1. ~Integer(v) /\ v.type # "real" /\ v.type # "null" /\ v.type # "boolean"
    BY <1>5 DEF Integer
  <2>2. asDouble(v) = {}
    BY <2>1, Zenon DEF asDouble
  <2>3. v.type = "string" \/ isArray(v) \/ isObject(v)
    BY <1>5 DEF isArray, isObject
  <2>4. asBool(v) = {}
    BY <2>1, <2>3, Zenon DEF asBool
  <2> QED
    BY ONLY <1>5, <2>2, <2>4
<1> QED
  BY <1>1, <1>2, <1>3, <1>4, <1>5 DEF ValueType, Integer

(* What is converted is what was read.                                     *)
LEMMA FitConverts ==
  ASSUME NEW v, Fits(v)
  PROVE  /\ Converts(asInt(v), v, minInt, maxInt, "int")
         /\ Converts(asUInt(v), v, 0, maxUInt, "uint")
         /\ Integer(v) => /\ asLargestInt(v) = {v.num} \cap minLargestInt .. maxLargestInt
                          /\ asLargestUInt(v) = {v.num} \cap 0 .. maxLargestUInt
         /\ Numeric(v) => /\ asLargestInt(v) \subseteq {Number(v)}
                          /\ asLargestUInt(v) \subseteq {Number(v)}
         /\ isConvertibleTo(v, "real") <=> asDouble(v) # {}
         /\ isConvertibleTo(v, "boolean") <=> asBool(v) # {}
<1>1. /\ Unit \in Nat /\ Unit >= 1 /\ HalfWord \in Nat /\ HalfWord >= 1
      /\ HalfLong \in Nat /\ HalfLong > 2 * HalfWord
  BY Widths
<1>2. /\ minInt \in Int /\ minInt <= 0 /\ maxInt \in Nat /\ maxUInt \in Nat
      /\ minLargestInt \in Int /\ minLargestInt <= 0 /\ maxLargestInt \in Nat /\ maxLargestUInt \in Nat
      /\ maxLargestInt + 1 = HalfLong /\ maxLargestUInt + 1 = 2 * HalfLong
      /\ maxLargestInt <= maxLargestUInt
  BY ONLY <1>1 DEF minInt, maxInt, maxUInt, minLargestInt, maxLargestInt, maxLargestUInt
<1>3. /\ v.type \in ValueType
      /\ v.type = "int" => v.num \in minLargestInt .. maxLargestInt
      /\ v.type = "uint" => v.num \in 0 .. maxLargestUInt
  BY DEF Fits
<1>4. Unit * 0 = 0
  BY ONLY <1>1
<1>5. Converts(asInt(v), v, minInt, maxInt, "int")
  <2>1. Integer(v) => (isInt(v) <=> v.num \in minInt .. maxInt)
    BY DEF isInt, Integer
  <2>2. v.type = "real" /\ isInt(v) => InRange(v.real, minInt, maxInt)
    BY DEF isInt, Integer
  <2>3. ~(Integer(v) \/ v.type = "real") => ~isInt(v)
    BY DEF isInt
  <2> DEFINE c == Converted(v, isInt(v), minInt, maxInt)
  <2>4. /\ Numeric(v) => c \subseteq {Number(v)} \cap minInt .. maxInt
        /\ c # {} <=> \/ isInt(v)
                      \/ v.type = "real" /\ InRange(v.real, minInt, maxInt)
                      \/ v.type \in {"boolean", "null"}
    BY ONLY Fits(v), <1>2, <2>1, <2>2, <2>3, DoubleIs, WordConverts
  <2> QED
    BY ONLY <2>4, IntConvertible DEF Converts, asInt
<1>6. Converts(asUInt(v), v, 0, maxUInt, "uint")
  <2>1. Integer(v) => (isUInt(v) <=> v.num \in 0 .. maxUInt)
    BY DEF isUInt, Integer
  <2>2. v.type = "real" /\ isUInt(v) => InRange(v.real, 0, maxUInt)
    BY DEF isUInt, Integer
  <2>3. ~(Integer(v) \/ v.type = "real") => ~isUInt(v)
    BY DEF isUInt
  <2>4. 0 \in Int /\ 0 <= 0 /\ Double(0) = Unit * 0 /\ Double(maxUInt) = Unit * maxUInt
    BY <1>4, DoubleIs
  <2> DEFINE c == Converted(v, isUInt(v), 0, maxUInt)
  <2>5. /\ Numeric(v) => c \subseteq {Number(v)} \cap 0 .. maxUInt
        /\ c # {} <=> \/ isUInt(v)
                      \/ v.type = "real" /\ InRange(v.real, 0, maxUInt)
                      \/ v.type \in {"boolean", "null"}
    BY ONLY Fits(v), <1>2, <2>1, <2>2, <2>3, <2>4, WordConverts
  <2> QED
    BY ONLY <2>5, UIntConvertible DEF Converts, asUInt
<1>7. /\ Integer(v) => asLargestInt(v) = {v.num} \cap minLargestInt .. maxLargestInt
      /\ Numeric(v) => asLargestInt(v) \subseteq {Number(v)}
  <2>1. Integer(v) => (isInt64(v) <=> v.num \in minLargestInt .. maxLargestInt)
    <3> SUFFICES ASSUME Integer(v) PROVE isInt64(v) <=> v.num \in minLargestInt .. maxLargestInt
      OBVIOUS
    <3>1. v.num \in Int /\ v.num >= minLargestInt /\ v.type # "real"
      BY <1>2, <1>3 DEF Integer
    <3>2. isInt64(v) <=> v.num <= maxLargestInt
      BY <3>1 DEF isInt64
    <3> QED
      BY ONLY <1>2, <3>1, <3>2
  <2>2. /\ Double(minLargestInt) = Unit * minLargestInt
        /\ Double(maxLargestInt) = Unit * (maxLargestInt + 1)
    BY ONLY <1>2, DoubleIs
  <2>3. Unit * (maxLargestInt + 1) \in Boundary
    BY ONLY <1>2 DEF Boundary
  <2> QED
    BY ONLY Fits(v), <1>2, <2>1, <2>2, <2>3, LongConverts DEF asLargestInt
<1>8. /\ Integer(v) => asLargestUInt(v) = {v.num} \cap 0 .. maxLargestUInt
      /\ Numeric(v) => asLargestUInt(v) \subseteq {Number(v)}
  <2>1. Integer(v) => (isUInt64(v) <=> v.num \in 0 .. maxLargestUInt)
    <3> SUFFICES ASSUME Integer(v) PROVE isUInt64(v) <=> v.num \in 0 .. maxLargestUInt
      OBVIOUS
    <3>1. v.num \in Int /\ v.num <= maxLargestUInt /\ v.type # "real"
      BY <1>2, <1>3 DEF Integer
    <3>2. isUInt64(v) <=> v.num >= 0
      BY <3>1 DEF isUInt64
    <3> QED
      BY ONLY <1>2, <3>1, <3>2
  <2>2. /\ 0 \in Int /\ 0 <= 0 /\ Double(0) = Unit * 0
        /\ Double(maxLargestUInt) = Unit * (maxLargestUInt + 1)
    BY ONLY <1>2, <1>4, DoubleIs
  <2>3. Unit * (maxLargestUInt + 1) \in Boundary
    <3>1. Unit * (2 * HalfLong) = 2 * Unit * HalfLong
      BY ONLY <1>1
    <3> QED
      BY ONLY <1>2, <3>1 DEF Boundary
  <2> QED
    BY ONLY Fits(v), <1>2, <2>1, <2>2, <2>3, LongConverts DEF asLargestUInt
<1>9. isDouble(v) \/ v.type \in {"boolean", "null"} <=> v.type \notin {"string", "array", "object"}
  <2>1. ASSUME Integer(v) PROVE isDouble(v)
    <3>1. v.num \in Int /\ (v.num <= maxLargestInt \/ v.num >= 0)
      BY <1>2, <1>3, <2>1 DEF Integer
    <3> QED
      BY <2>1, <3>1 DEF isDouble, isInt64, isUInt64
  <2>2. ASSUME v.type = "real" PROVE isDouble(v)
    BY <2>2 DEF isDouble
  <2>3. ASSUME v.type \in {"string", "array", "object"} PROVE ~isDouble(v)
    BY <2>3 DEF isDouble, isInt64, isUInt64, Integer
  <2> QED
    BY <1>3, <2>1, <2>2, <2>3 DEF ValueType, Integer
<1>10. /\ isConvertibleTo(v, "real") <=> asDouble(v) # {}
       /\ isConvertibleTo(v, "boolean") <=> asBool(v) # {}
  BY <1>3, <1>9, RealConvertible, DoublesAre
<1> QED
  BY ONLY <1>5, <1>6, <1>7, <1>8, <1>10

(* A conversion of what has been read gives the number that was read or    *)
(* throws, as isConvertibleTo has foretold (Value::asInt, asUInt,          *)
(* asLargestInt, asLargestUInt), for every width of the words but for the  *)
(* two doubles that NeverWraps leaves out.                                 *)
THEOREM ConversionsNeverWrap == ReaderSpec => []NeverWraps
<1>1. Inductive => NeverWraps
  <2> SUFFICES ASSUME Inductive PROVE NeverWraps
    OBVIOUS
  <2>1. PICK V : Closed(V) /\ nodes \in Seq(V)
    BY DEF Inductive, ReaderState, Sound
  <2>2. Len(nodes) \in 1 .. Len(nodes)
    <3>1. Len(nodes) \in Nat /\ Len(nodes) >= 1
      BY StateIs DEF Inductive
    <3> QED
      BY ONLY <3>1
  <2>3. Top \in V
    BY <2>1, <2>2, ElementOfSeq DEF Top
  <2>4. Fits(Top)
    BY <2>1, <2>3 DEF Closed
  <2> QED
    BY <2>4, FitConverts DEF NeverWraps
<1> QED
  BY <1>1, InductiveHolds, PTL
=============================================================================

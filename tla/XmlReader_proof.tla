--------------------------- MODULE XmlReader_proof ---------------------------
(***************************************************************************)
(* A server thread reads what was sent over its connection when no two     *)
(* connections are served at once, for every number of connections, of     *)
(* elements and of symbols that arrive.                                    *)
(***************************************************************************)
EXTENDS XmlReader, Recursion_proof, SequenceTheorems

-----------------------------------------------------------------------------
(* Where the words of an element are among its symbols, and the elements    *)
(* among those of a connection                                              *)

\* Defined, not spelled out, because literals disturb the arithmetic.
NL == "newline"
LT == "<"
GT == ">"
Symbols == STRING \cup {LT, GT, NL}

Part(word) == IF word \in Text THEN <<word>> ELSE <<LT, word, GT>>
Parts(element)  == [i \in 1..Len(element) |-> Part(element[i])]
Word(element)   == EndsOf(Parts(element))
Pieces(elements) == [k \in 1..Len(elements) |-> Append(Encode(elements[k]), NL)]
Base(elements)  == EndsOf(Pieces(elements))

LEMMA PartIs ==
  ASSUME NEW word \in Symbols
  PROVE  /\ Part(word) \in Seq(Symbols)
         /\ word \in Text => Len(Part(word)) = 1 /\ Part(word)[1] = word
         /\ word \notin Text => /\ Len(Part(word)) = 3 /\ Part(word)[1] = LT
                                /\ Part(word)[2] = word /\ Part(word)[3] = GT
<1>1. ASSUME NEW S, NEW a \in S, NEW b \in S, NEW c \in S
      PROVE  /\ <<a, b, c>> \in Seq(S) /\ Len(<<a, b, c>>) = 3
             /\ <<a, b, c>>[1] = a /\ <<a, b, c>>[2] = b /\ <<a, b, c>>[3] = c
  OBVIOUS
<1>2. ASSUME NEW S, NEW a \in S PROVE <<a>> \in Seq(S) /\ Len(<<a>>) = 1 /\ <<a>>[1] = a
  OBVIOUS
<1>3. LT \in Symbols /\ GT \in Symbols
  BY DEF Symbols
<1>4. CASE word \in Text
  <2>1. Part(word) = <<word>>
    BY <1>4 DEF Part
  <2> QED BY <1>2, <1>4, <2>1
<1>5. CASE word \notin Text
  <2>1. Part(word) = <<LT, word, GT>>
    BY <1>5 DEF Part
  <2>2. <<LT, word, GT>> \in Seq(Symbols) /\ Len(<<LT, word, GT>>) = 3
    BY <1>1, <1>3
  <2>3. <<LT, word, GT>>[1] = LT /\ <<LT, word, GT>>[2] = word /\ <<LT, word, GT>>[3] = GT
    BY <1>1, <1>3
  <2> QED BY <1>5, <2>1, <2>2, <2>3
<1> QED BY <1>4, <1>5

LEMMA AppendIs ==
  ASSUME NEW S, NEW q \in Seq(S), NEW x \in S
  PROVE  /\ Append(q, x) \in Seq(S) /\ Len(Append(q, x)) = Len(q) + 1 /\ Len(q) \in Nat
         /\ Append(q, x)[Len(q) + 1] = x
         /\ \A j \in 1..Len(q) : Append(q, x)[j] = q[j] /\ j \in 1..(Len(q) + 1)
OBVIOUS

LEMMA EncodeIs ==
  ASSUME NEW e \in Seq(Symbols)
  PROVE  /\ Encode(e) \in Seq(Symbols) /\ Len(Encode(e)) = Word(e)[Len(e)]
         /\ Word(e) \in [0..Len(e) -> Nat] /\ Word(e)[0] = 0
         /\ \A i \in 1..Len(e) :
              /\ e[i] \in Text => /\ Word(e)[i] = Word(e)[i - 1] + 1
                                  /\ Encode(e)[Word(e)[i - 1] + 1] = e[i]
              /\ e[i] \notin Text => /\ Word(e)[i] = Word(e)[i - 1] + 3
                                     /\ Encode(e)[Word(e)[i - 1] + 1] = LT
                                     /\ Encode(e)[Word(e)[i - 1] + 2] = e[i]
                                     /\ Encode(e)[Word(e)[i - 1] + 3] = GT
<1> DEFINE p == Parts(e)
<1>1. Len(e) \in Nat /\ \A i \in 1..Len(e) : e[i] \in Symbols
  OBVIOUS
<1>2. p \in Seq(Seq(Symbols)) /\ Len(p) = Len(e) /\ \A i \in 1..Len(e) : p[i] = Part(e[i])
  <2>1. \A i \in 1..Len(e) : Part(e[i]) \in Seq(Symbols)
    BY <1>1, PartIs
  <2> QED BY <1>1, <2>1 DEF Parts
<1>3. Encode(e) = FlattenSeq(p)
  BY DEF Encode, Parts, Part, LT, GT
<1> HIDE DEF p
<1>4. /\ FlattenSeq(p) \in Seq(Symbols) /\ Len(FlattenSeq(p)) = EndsOf(p)[Len(p)]
      /\ \A i \in 1..Len(p) : \A j \in 1..Len(p[i]) : FlattenSeq(p)[EndsOf(p)[i - 1] + j] = p[i][j]
  BY <1>2, FlattenIs
<1>5. /\ EndsOf(p) \in [0..Len(p) -> Nat] /\ EndsOf(p)[0] = 0
      /\ \A i \in 1..Len(p) : EndsOf(p)[i] = EndsOf(p)[i - 1] + Len(p[i])
  BY <1>2, EndsAre
<1>6. Word(e) = EndsOf(p)
  BY DEF Word, p
<1>7. ASSUME NEW i \in 1..Len(e), e[i] \in Text
      PROVE  Word(e)[i] = Word(e)[i - 1] + 1 /\ Encode(e)[Word(e)[i - 1] + 1] = e[i]
  <2>1. Len(p[i]) = 1 /\ p[i][1] = e[i]
    <3>1. e[i] \in Symbols /\ p[i] = Part(e[i])
      BY <1>1, <1>2
    <3> QED BY <1>7, <3>1, PartIs
  <2>2. 1 \in 1..1
    OBVIOUS
  <2>3. Encode(e)[Word(e)[i - 1] + 1] = e[i]
    BY <1>2, <1>3, <1>4, <1>6, <2>1, <2>2
  <2>4. Word(e)[i] = Word(e)[i - 1] + 1
    BY <1>2, <1>5, <1>6, <2>1
  <2> QED BY <2>3, <2>4
<1>8. ASSUME NEW i \in 1..Len(e), e[i] \notin Text
      PROVE  /\ Word(e)[i] = Word(e)[i - 1] + 3
             /\ Encode(e)[Word(e)[i - 1] + 1] = LT
             /\ Encode(e)[Word(e)[i - 1] + 2] = e[i]
             /\ Encode(e)[Word(e)[i - 1] + 3] = GT
  <2>1. Len(p[i]) = 3 /\ p[i][1] = LT /\ p[i][2] = e[i] /\ p[i][3] = GT
    BY <1>1, <1>2, <1>8, PartIs
  <2>2. 1 \in 1..3 /\ 2 \in 1..3 /\ 3 \in 1..3
    OBVIOUS
  <2>3. \A j \in 1..3 : Encode(e)[Word(e)[i - 1] + j] = p[i][j]
    BY <1>2, <1>3, <1>4, <1>6, <2>1
  <2>4. Word(e)[i] = Word(e)[i - 1] + 3
    BY <1>2, <1>5, <1>6, <2>1
  <2> QED BY <2>1, <2>2, <2>3, <2>4
<1> QED BY <1>2, <1>3, <1>4, <1>5, <1>6, <1>7, <1>8

LEMMA WireIs ==
  ASSUME NEW s \in Seq(Seq(Symbols))
  PROVE  /\ Wire(s) \in Seq(Symbols) /\ Len(Wire(s)) = Base(s)[Len(s)]
         /\ Base(s) \in [0..Len(s) -> Nat] /\ Base(s)[0] = 0
         /\ \A k \in 1..Len(s) :
              /\ Base(s)[k] = Base(s)[k - 1] + Len(Encode(s[k])) + 1
              /\ \A j \in 1..Len(Encode(s[k])) : Wire(s)[Base(s)[k - 1] + j] = Encode(s[k])[j]
              /\ Wire(s)[Base(s)[k]] = NL
<1> DEFINE p == Pieces(s)
<1>1. Len(s) \in Nat /\ \A k \in 1..Len(s) : s[k] \in Seq(Symbols)
  OBVIOUS
<1>2. \A k \in 1..Len(s) : Encode(s[k]) \in Seq(Symbols)
  BY <1>1, EncodeIs
<1>3. NL \in Symbols
  BY DEF Symbols
<1>4. p \in Seq(Seq(Symbols)) /\ Len(p) = Len(s) /\ \A k \in 1..Len(s) : p[k] = Append(Encode(s[k]), NL)
  <2>1. \A k \in 1..Len(s) : Append(Encode(s[k]), NL) \in Seq(Symbols)
    BY <1>2, <1>3, AppendIs
  <2> QED BY <1>1, <2>1 DEF Pieces
<1>5. Wire(s) = FlattenSeq(p)
  BY DEF Wire, Pieces, NL
<1> HIDE DEF p
<1>6. /\ FlattenSeq(p) \in Seq(Symbols) /\ Len(FlattenSeq(p)) = EndsOf(p)[Len(p)]
      /\ \A i \in 1..Len(p) : \A j \in 1..Len(p[i]) : FlattenSeq(p)[EndsOf(p)[i - 1] + j] = p[i][j]
  BY <1>4, FlattenIs
<1>7. /\ EndsOf(p) \in [0..Len(p) -> Nat] /\ EndsOf(p)[0] = 0
      /\ \A i \in 1..Len(p) : EndsOf(p)[i] = EndsOf(p)[i - 1] + Len(p[i])
  BY <1>4, EndsAre
<1>8. Base(s) = EndsOf(p)
  BY DEF Base, p
<1>9. ASSUME NEW k \in 1..Len(s)
      PROVE  /\ Base(s)[k] = Base(s)[k - 1] + Len(Encode(s[k])) + 1
             /\ \A j \in 1..Len(Encode(s[k])) : Wire(s)[Base(s)[k - 1] + j] = Encode(s[k])[j]
             /\ Wire(s)[Base(s)[k]] = NL
  <2> DEFINE q == Encode(s[k])
             r == Append(q, NL)
  <2>1. q \in Seq(Symbols) /\ p[k] = r
    BY <1>2, <1>4
  <2> HIDE DEF q
  <2>2. /\ Len(r) = Len(q) + 1 /\ Len(q) \in Nat /\ r[Len(q) + 1] = NL
        /\ \A j \in 1..Len(q) : r[j] = q[j] /\ j \in 1..(Len(q) + 1)
    BY <1>3, <2>1, AppendIs
  <2> HIDE DEF r
  <2>3. Base(s)[k] = Base(s)[k - 1] + Len(q) + 1
    <3>1. k - 1 \in 0..Len(p) /\ Base(s)[k] = Base(s)[k - 1] + Len(r)
      BY <1>1, <1>4, <1>7, <1>8, <2>1
    <3>2. Base(s)[k - 1] \in Nat
      BY <1>7, <1>8, <3>1
    <3> QED BY <2>2, <3>1, <3>2
  <2>4. \A j \in 1..(Len(q) + 1) : Wire(s)[Base(s)[k - 1] + j] = r[j]
    BY <1>4, <1>5, <1>6, <1>8, <2>1, <2>2
  <2>5. Wire(s)[Base(s)[k - 1] + (Len(q) + 1)] = NL
    <3>1. Len(q) + 1 \in 1..(Len(q) + 1)
      BY <2>2
    <3> QED BY <2>2, <2>4, <3>1
  <2>6. Base(s)[k - 1] + (Len(q) + 1) = Base(s)[k]
    <3>1. k - 1 \in 0..Len(p)
      BY <1>1, <1>4
    <3>2. PICK b \in Nat : b = Base(s)[k - 1]
      BY <1>7, <1>8, <3>1
    <3>3. PICK m \in Nat : m = Len(q)
      BY <2>2
    <3>4. b + (m + 1) = b + m + 1
      OBVIOUS
    <3> QED BY <2>3, <3>2, <3>3, <3>4
  <2> QED BY <2>2, <2>3, <2>4, <2>5, <2>6 DEF q
<1> QED BY <1>4, <1>5, <1>6, <1>7, <1>8, <1>9

\* The first elements by themselves take as much room as among the others.
LEMMA WireUpTo ==
  ASSUME NEW s \in Seq(Seq(Symbols)), NEW k \in 0..Len(s)
  PROVE  Len(Wire(SubSeq(s, 1, k))) = Base(s)[k]
<1> DEFINE r == SubSeq(s, 1, k)
           T == {i \in 0..k : Base(r)[i] = Base(s)[i]}
<1>1. r \in Seq(Seq(Symbols)) /\ Len(r) = k /\ \A i \in 1..k : r[i] = s[i] /\ i \in 1..Len(s)
  OBVIOUS
<1> HIDE DEF r
<1>2. Base(r)[0] = 0 /\ Base(s)[0] = 0 /\ Len(Wire(r)) = Base(r)[k]
  BY <1>1, WireIs
<1>3. ASSUME NEW i \in 1..k, i - 1 \in T PROVE i \in T
  <2>1. Base(r)[i] = Base(r)[i - 1] + Len(Encode(r[i])) + 1 /\ Base(s)[i] = Base(s)[i - 1] + Len(Encode(s[i])) + 1
    BY <1>1, WireIs
  <2> QED BY <1>1, <1>3, <2>1
<1>4. 0 \in T /\ k \in Nat
  BY <1>2
<1>5. k \in T
  <2> HIDE DEF T
  <2>1. 0..k \subseteq T
    BY <1>3, <1>4, UpTo
  <2> QED BY <1>4, <2>1
<1> QED BY <1>2, <1>5 DEF r

LEMMA Rises ==
  ASSUME NEW n \in Nat, NEW f \in [0..n -> Nat], \A i \in 1..n : f[i - 1] <= f[i],
         NEW i \in 0..n, NEW j \in i..n
  PROVE  f[i] <= f[j]
<1> DEFINE T == {q \in 0..n : q >= i => f[i] <= f[q]}
<1>1. 0 \in T
  <2>1. 0 >= i => i = 0
    OBVIOUS
  <2>2. f[i] \in Nat /\ 0 \in 0..n
    OBVIOUS
  <2> QED BY <2>1, <2>2
<1>2. ASSUME NEW q \in 1..n, q - 1 \in T PROVE q \in T
  <2>1. q \in 0..n /\ q - 1 \in 0..n /\ f[q - 1] <= f[q] /\ f[q] \in Nat /\ f[q - 1] \in Nat /\ f[i] \in Nat
    OBVIOUS
  <2>2. q = i \/ q < i \/ q - 1 >= i
    OBVIOUS
  <2>3. q - 1 >= i => f[i] <= f[q - 1]
    BY <1>2
  <2> QED BY <2>1, <2>2, <2>3
<1>3. j \in T
  <2> HIDE DEF T
  <2>1. 0..n \subseteq T
    BY <1>1, <1>2, UpTo
  <2> QED BY <2>1
<1> QED BY <1>3

\* The largest of some numbers.
LEMMA MaxIs ==
  ASSUME NEW n \in Nat, NEW T \in SUBSET (0..n), T # {}
  PROVE  Max(T) \in T /\ \A i \in T : i <= Max(T)
<1> DEFINE U == {n - i : i \in T}
<1>0. \A i \in T : i \in 0..n /\ i \in Int /\ n - i \in Nat
  OBVIOUS
<1>1. U \in SUBSET Nat /\ U # {}
  BY <1>0
<1>2. PICK x \in U : \A y \in U : x <= y
  <2> HIDE DEF U
  <2> QED BY <1>1, LeastOf
<1>3. PICK m \in T : x = n - m
  BY <1>2
<1>4. \A i \in T : m >= i
  BY <1>0, <1>2, <1>3
<1>5. Max(T) = CHOOSE m1 \in T : \A i \in T : m1 >= i
  BY DEF Max
<1>6. Max(T) \in T /\ \A i \in T : Max(T) >= i
  BY <1>3, <1>4, <1>5
<1>7. Max(T) \in Int /\ \A i \in T : i \in Int
  BY <1>0, <1>6
<1> QED BY <1>6, <1>7

LEMMA LongerBy ==
  ASSUME NEW S, NEW k \in Nat, NEW g \in [1..(k + 1) -> S]
  PROVE  Append([i \in 1..k |-> g[i]], g[k + 1]) = [i \in 1..(k + 1) |-> g[i]]
<1> DEFINE a == [i \in 1..k |-> g[i]]
           b == [i \in 1..(k + 1) |-> g[i]]
<1>1. a \in Seq(S) /\ Len(a) = k /\ b \in Seq(S) /\ Len(b) = k + 1 /\ g[k + 1] \in S
  OBVIOUS
<1>2. \A i \in 1..k : a[i] = b[i]
  OBVIOUS
<1>3. b[k + 1] = g[k + 1]
  OBVIOUS
<1> HIDE DEF a, b
<1>4. Append(a, g[k + 1]) \in Seq(S) /\ Len(Append(a, g[k + 1])) = k + 1
  BY <1>1
<1>5. ASSUME NEW i \in 1..(k + 1) PROVE Append(a, g[k + 1])[i] = b[i]
  <2>1. i = k + 1 \/ i \in 1..k
    OBVIOUS
  <2> QED BY <1>1, <1>2, <1>3, <2>1
<1>6. Append(a, g[k + 1]) = b
  BY <1>1, <1>4, <1>5
<1> QED BY <1>6 DEF a, b

LEMMA DepthsAre ==
  ASSUME NEW e \in Seq(Symbols)
  PROVE  /\ Depths(e) \in [0..Len(e) -> Int] /\ Depths(e)[0] = 0
         /\ \A i \in 1..Len(e) : Depths(e)[i] = Depths(e)[i - 1] + Opened(e[i])
<1> DEFINE a == [i \in 1..Len(e) |-> Opened(e[i])]
<1>1. \A i \in 1..Len(e) : Opened(e[i]) \in Int
  BY DEF Opened
<1>2. a \in Seq(Int) /\ Len(a) = Len(e) /\ \A i \in 1..Len(e) : a[i] = Opened(e[i])
  BY <1>1
<1>3. Depths(e) = Totals(a)
  <2>1. [i \in 0..Len(e) |-> i] = [i \in 0..Len(a) |-> i]
    BY <1>2
  <2> DEFINE P(f) == f = [i \in 0..Len(e) |-> IF i = 0 THEN 0 ELSE f[i - 1] + Opened(e[i])]
             Q(f) == f = [i \in 0..Len(a) |-> IF i = 0 THEN 0 ELSE f[i - 1] + a[i]]
  <2>2. ASSUME NEW f PROVE P(f) <=> Q(f)
    <3>1. ASSUME NEW i \in 0..Len(e), i # 0 PROVE a[i] = Opened(e[i])
      <4>1. i \in 1..Len(e)
        BY <3>1
      <4> QED BY <1>2, <4>1
    <3> HIDE DEF a
    <3>2. [i \in 0..Len(e) |-> IF i = 0 THEN 0 ELSE f[i - 1] + Opened(e[i])]
            = [i \in 0..Len(a) |-> IF i = 0 THEN 0 ELSE f[i - 1] + a[i]]
      BY <1>2, <3>1
    <3> QED BY <3>2
  <2>3. Depths(e) = (CHOOSE f : P(f)) /\ Totals(a) = CHOOSE f : Q(f)
    BY DEF Depths, Totals
  <2>4. (CHOOSE f : P(f)) = CHOOSE f : Q(f)
    <3> HIDE DEF P, Q
    <3> QED BY <2>2
  <2> QED BY <2>3, <2>4
<1>4. /\ Totals(a) \in [0..Len(a) -> Int] /\ Totals(a)[0] = 0
      /\ \A i \in 1..Len(a) : Totals(a)[i] = Totals(a)[i - 1] + a[i]
  <2> HIDE DEF a
  <2> QED BY <1>2, TotalsAre
<1> HIDE DEF a
<1> QED BY <1>2, <1>3, <1>4

LEMMA ScriptIs ==
  ASSUME NEW s \in Scripts
  PROVE  /\ s \in Seq(Seq(Symbols)) /\ Len(s) \in Nat
         /\ \A k \in 1..Len(s) : s[k] \in Seq(Symbols) /\ Len(s[k]) \in Nat \ {0} /\ Written(s[k])
<1>1. s \in Seq(Seq(STRING)) /\ \A k \in 1..Len(s) : Written(s[k])
  BY ScriptsAssumption
<1>2. ASSUME NEW S, NEW U, S \subseteq U, NEW q \in Seq(S) PROVE q \in Seq(U)
  BY <1>2
<1>3. STRING \subseteq Symbols
  BY DEF Symbols
<1>4. \A q \in Seq(STRING) : q \in Seq(Symbols)
  BY <1>2, <1>3
<1>5. Seq(STRING) \subseteq Seq(Symbols)
  BY <1>4
<1>6. s \in Seq(Seq(Symbols))
  BY <1>1, <1>2, <1>5
<1>7. Len(s) \in Nat /\ \A k \in 1..Len(s) : s[k] \in Seq(Symbols)
  BY <1>6
<1>8. \A q \in Seq(Symbols) : q # <<>> => Len(q) \in Nat \ {0}
  OBVIOUS
<1> QED BY <1>1, <1>6, <1>7, <1>8 DEF Written

\* The symbols of the i-th word of the element that comes after k others.
LEMMA WordAt ==
  ASSUME NEW s \in Scripts, NEW k \in 0..(Len(s) - 1), NEW e, e = s[k + 1], NEW i \in 1..Len(e)
  PROVE  /\ Base(s)[k] \in Nat /\ Word(e)[i - 1] \in Nat /\ Word(e)[i] \in Nat
         /\ e[i] \notin Bracket /\ Written(e) /\ e \in Seq(Symbols)
         /\ e[i] \in Text => /\ Word(e)[i] = Word(e)[i - 1] + 1
                             /\ Wire(s)[Base(s)[k] + Word(e)[i - 1] + 1] = e[i]
         /\ e[i] \notin Text => /\ Word(e)[i] = Word(e)[i - 1] + 3
                                /\ Wire(s)[Base(s)[k] + Word(e)[i - 1] + 1] = LT
                                /\ Wire(s)[Base(s)[k] + Word(e)[i - 1] + 2] = e[i]
                                /\ Wire(s)[Base(s)[k] + Word(e)[i - 1] + 3] = GT
<1>1. s \in Seq(Seq(Symbols)) /\ Len(s) \in Nat /\ k + 1 \in 1..Len(s) /\ k \in 0..Len(s) /\ (k + 1) - 1 = k
  BY ScriptIs
<1>2. e \in Seq(Symbols) /\ Len(e) \in Nat /\ Written(e)
  BY <1>1, ScriptIs
<1>3. Base(s) \in [0..Len(s) -> Nat] /\ \A j \in 1..Len(Encode(e)) : Wire(s)[Base(s)[k] + j] = Encode(e)[j]
  BY <1>1, WireIs
<1>4. PICK b \in Nat : b = Base(s)[k]
  BY <1>1, <1>3
<1>5. i - 1 \in 0..Len(e) /\ i \in 0..Len(e)
  BY <1>2
<1>6. /\ Word(e) \in [0..Len(e) -> Nat] /\ Len(Encode(e)) = Word(e)[Len(e)]
      /\ \A j \in 1..Len(e) : Word(e)[j - 1] <= Word(e)[j]
  <2>1. Word(e) \in [0..Len(e) -> Nat] /\ Len(Encode(e)) = Word(e)[Len(e)]
    BY <1>2, EncodeIs
  <2>2. ASSUME NEW j \in 1..Len(e) PROVE Word(e)[j - 1] <= Word(e)[j]
    <3>1. Word(e)[j] = Word(e)[j - 1] + 1 \/ Word(e)[j] = Word(e)[j - 1] + 3
      BY <1>2, EncodeIs
    <3>2. j - 1 \in 0..Len(e)
      BY <1>2
    <3>3. PICK m \in Nat : m = Word(e)[j - 1]
      BY <2>1, <3>2
    <3> QED BY <3>1, <3>3
  <2> QED BY <2>1, <2>2
<1>7. PICK o \in Nat, n \in Nat, last \in Nat :
        o = Word(e)[i - 1] /\ n = Word(e)[i] /\ last = Len(Encode(e)) /\ n <= last
  <2>1. Word(e)[i - 1] \in Nat /\ Word(e)[i] \in Nat /\ Word(e)[Len(e)] \in Nat
    <3>1. Len(e) \in 0..Len(e)
      BY <1>2
    <3> QED BY <1>5, <1>6, <3>1
  <2>2. Word(e)[i] <= Word(e)[Len(e)]
    <3>1. Len(e) \in i..Len(e)
      BY <1>2
    <3> QED BY <1>2, <1>5, <1>6, <3>1, Rises
  <2> QED BY <1>6, <2>1, <2>2
<1>8. e[i] \notin Bracket
  BY <1>2 DEF Written
<1>9. ASSUME e[i] \in Text PROVE n = o + 1 /\ Wire(s)[b + o + 1] = e[i]
  <2>1. n = o + 1 /\ Encode(e)[o + 1] = e[i]
    BY <1>2, <1>7, <1>9, EncodeIs
  <2>3. n = o + 1
    BY <2>1
  <2>2. o + 1 \in 1..last /\ b + (o + 1) = b + o + 1
    BY <1>7, <2>3
  <2> QED BY <1>3, <1>4, <1>7, <2>1, <2>2
<1>10. ASSUME e[i] \notin Text
       PROVE  n = o + 3 /\ Wire(s)[b + o + 1] = LT /\ Wire(s)[b + o + 2] = e[i] /\ Wire(s)[b + o + 3] = GT
  <2>0. n = o + 3
    <3>1. Word(e)[i] = Word(e)[i - 1] + 3
      BY <1>2, <1>10, EncodeIs
    <3> QED BY <1>7, <3>1
  <2>1. Encode(e)[o + 1] = LT /\ Encode(e)[o + 2] = e[i] /\ Encode(e)[o + 3] = GT
    <3>1. /\ Encode(e)[Word(e)[i - 1] + 1] = LT /\ Encode(e)[Word(e)[i - 1] + 2] = e[i]
          /\ Encode(e)[Word(e)[i - 1] + 3] = GT
      BY <1>2, <1>10, EncodeIs
    <3> QED BY <1>7, <3>1
  <2>2. /\ o + 1 \in 1..last /\ b + (o + 1) = b + o + 1
        /\ o + 2 \in 1..last /\ b + (o + 2) = b + o + 2
        /\ o + 3 \in 1..last /\ b + (o + 3) = b + o + 3
    <3>1. o \in Nat /\ last \in Nat /\ o + 3 <= last
      BY <1>7, <2>0
    <3>2. o + 1 \in 1..last /\ o + 2 \in 1..last /\ o + 3 \in 1..last
      BY <3>1
    <3>3. b + (o + 1) = b + o + 1 /\ b + (o + 2) = b + o + 2 /\ b + (o + 3) = b + o + 3
      BY <1>4, <3>1
    <3> QED BY <3>2, <3>3
  <2>3. \A j \in 1..last : Wire(s)[b + j] = Encode(e)[j]
    BY <1>3, <1>4, <1>7
  <2>4. /\ Wire(s)[b + (o + 1)] = LT /\ Wire(s)[b + (o + 2)] = e[i] /\ Wire(s)[b + (o + 3)] = GT
    BY <2>1, <2>2, <2>3
  <2>5. /\ Wire(s)[b + o + 1] = LT /\ Wire(s)[b + o + 2] = e[i] /\ Wire(s)[b + o + 3] = GT
    BY <2>2, <2>4
  <2> QED BY <2>0, <2>5
<1> QED BY <1>2, <1>4, <1>7, <1>8, <1>9, <1>10

LEMMA WrittenDepth ==
  ASSUME NEW e, Written(e), NEW i, i \in 0..Len(e)
  PROVE  Depths(e)[i] >= 0 /\ (Depths(e)[i] = 0 <=> i \in {0, Len(e)})
<1>1. \A j \in 0..Len(e) : Depths(e)[j] >= 0 /\ (Depths(e)[j] = 0 <=> j \in {0, Len(e)})
  BY Zenon DEF Written
<1> QED BY <1>1, Zenon

\* A text, or a tag, behind q symbols.
IsText(s, q, word) == Wire(s)[q + 1] = word
IsTag(s, q, word) == Wire(s)[q + 1] = LT /\ Wire(s)[q + 2] = word /\ Wire(s)[q + 3] = GT

\* The same of the word that comes after w others.
LEMMA WordAfter ==
  ASSUME NEW s \in Scripts, NEW k \in 0..(Len(s) - 1), NEW e, e = s[k + 1], NEW w \in 0..(Len(e) - 1),
         NEW b, NEW o, b = Base(s)[k], o = Word(e)[w]
  PROVE  /\ b \in Nat /\ o \in Nat /\ e[w + 1] \notin Bracket
         /\ e[w + 1] \in Text => Word(e)[w + 1] = o + 1 /\ IsText(s, b + o, e[w + 1])
         /\ e[w + 1] \notin Text => Word(e)[w + 1] = o + 3 /\ IsTag(s, b + o, e[w + 1])
<1>1. k + 1 \in 1..Len(s)
  BY ScriptIs
<1>2. Len(e) \in Nat
  BY <1>1, ScriptIs
<1>3. PICK i \in 1..Len(e) : i = w + 1 /\ w = i - 1
  BY <1>2
<1>4. e[w + 1] \notin Text => IsTag(s, b + o, e[w + 1])
  BY <1>3, WordAt DEF IsTag
<1>5. ASSUME e[w + 1] \in Text PROVE IsText(s, b + o, e[w + 1])
  <2>0. e[i] \in Text
    BY <1>3, <1>5
  <2>1. Wire(s)[Base(s)[k] + Word(e)[i - 1] + 1] = e[i]
    BY <2>0, WordAt
  <2>2. Base(s)[k] = b /\ Word(e)[i - 1] = o /\ e[i] = e[w + 1]
    BY <1>3
  <2> QED BY <2>1, <2>2 DEF IsText
<1> QED BY <1>3, <1>4, <1>5, WordAt

\* Where the next element begins.
LEMMA PieceEnds ==
  ASSUME NEW s \in Scripts, NEW k \in 0..(Len(s) - 1), NEW e, e = s[k + 1]
  PROVE  /\ Base(s)[k] \in Nat /\ Base(s)[k + 1] = Base(s)[k] + Word(e)[Len(e)] + 1
         /\ Wire(s)[Base(s)[k + 1]] = NL
         /\ Word(e) \in [0..Len(e) -> Nat] /\ Word(e)[0] = 0 /\ \A i \in 0..Len(e) : \A j \in i..Len(e) : Word(e)[i] <= Word(e)[j]
<1>1. s \in Seq(Seq(Symbols)) /\ Len(s) \in Nat /\ k + 1 \in 1..Len(s) /\ k \in 0..Len(s) /\ (k + 1) - 1 = k
  BY ScriptIs
<1>2. e \in Seq(Symbols) /\ Len(e) \in Nat
  BY <1>1, ScriptIs
<1>3. /\ Base(s) \in [0..Len(s) -> Nat] /\ Base(s)[k + 1] = Base(s)[k] + Len(Encode(e)) + 1
      /\ Wire(s)[Base(s)[k + 1]] = NL
  BY <1>1, WireIs
<1>4. Len(Encode(e)) = Word(e)[Len(e)] /\ Word(e) \in [0..Len(e) -> Nat] /\ Word(e)[0] = 0
  BY <1>2, EncodeIs
<1>5. \A i \in 1..Len(e) : Word(e)[i - 1] <= Word(e)[i]
  <2>1. ASSUME NEW j \in 1..Len(e) PROVE Word(e)[j - 1] <= Word(e)[j]
    <3>1. Word(e)[j] = Word(e)[j - 1] + 1 \/ Word(e)[j] = Word(e)[j - 1] + 3
      BY <1>2, EncodeIs
    <3>2. j - 1 \in 0..Len(e)
      BY <1>2
    <3>3. PICK m \in Nat : m = Word(e)[j - 1]
      BY <1>4, <3>2
    <3> QED BY <3>1, <3>3
  <2> QED BY <2>1
<1>6. \A i \in 0..Len(e) : \A j \in i..Len(e) : Word(e)[i] <= Word(e)[j]
  BY <1>2, <1>4, <1>5, Rises
<1> QED BY <1>1, <1>3, <1>4, <1>6

LEMMA BaseRises ==
  ASSUME NEW s \in Scripts, NEW i \in 0..Len(s), NEW j \in i..Len(s)
  PROVE  Base(s)[i] \in Nat /\ Base(s)[j] \in Nat /\ Base(s)[i] <= Base(s)[j]
<1>1. s \in Seq(Seq(Symbols)) /\ Len(s) \in Nat
  BY ScriptIs
<1>2. Base(s) \in [0..Len(s) -> Nat]
  BY <1>1, WireIs
<1>3. ASSUME NEW k \in 1..Len(s) PROVE Base(s)[k - 1] <= Base(s)[k]
  <2>1. k - 1 \in 0..(Len(s) - 1) /\ (k - 1) + 1 = k
    BY <1>1
  <2>2. /\ Base(s)[k - 1] \in Nat /\ Base(s)[k] = Base(s)[k - 1] + Word(s[k])[Len(s[k])] + 1
        /\ Word(s[k]) \in [0..Len(s[k]) -> Nat]
    BY <2>1, PieceEnds
  <2>3. Len(s[k]) \in 0..Len(s[k])
    BY ScriptIs
  <2>4. Word(s[k])[Len(s[k])] \in Nat
    BY <2>2, <2>3
  <2> QED BY <2>2, <2>4
<1>4. Base(s)[i] <= Base(s)[j]
  BY <1>1, <1>2, <1>3, Rises
<1> QED BY <1>1, <1>2, <1>4

-----------------------------------------------------------------------------
(* What a parser has made of the elements read so far *)

AreGood(s, k)  == \A i \in 1..k : Good(s[i])
FirstNodes(s, k) == [i \in 1..k |-> NodeOf(s[i])]
Parsed(s, k, nds) == k \in 0..Len(s) /\ nds = FirstNodes(s, k) /\ AreGood(s, k)

LEMMA SequenceIs ==
  ASSUME NEW S, NEW n \in Nat, NEW f \in [1..n -> S]
  PROVE  f \in Seq(S) /\ Len(f) = n
<1>1. f \in Seq(S)
  OBVIOUS
<1>2. Len(f) \in Nat /\ 1..Len(f) = 1..n
  BY <1>1, LenProperties
<1>3. \A i, j \in Nat : 1..i = 1..j => i = j
  <2> SUFFICES ASSUME NEW i \in Nat, NEW j \in Nat, 1..i = 1..j PROVE i = j
    OBVIOUS
  <2>1. (i > 0 => i \in 1..j) /\ (j > 0 => j \in 1..i)
    OBVIOUS
  <2> QED BY <2>1
<1> QED BY <1>1, <1>2, <1>3

LEMMA FirstIsPrefix ==
  ASSUME NEW s \in Scripts, NEW m \in 0..Len(s), NEW k \in 0..m
  PROVE  IsPrefix(FirstNodes(s, k), FirstNodes(s, m))
<1>1. m \in Nat /\ k \in Nat /\ k <= m
  BY ScriptIs
<1> DEFINE x == FirstNodes(s, k)
           y == FirstNodes(s, m)
           D == {NodeOf(s[i]) : i \in 1..m}
<1>2. x \in [1..k -> D] /\ y \in [1..m -> D]
  <2>1. \A i \in 1..k : i \in 1..m
    BY <1>1
  <2> QED BY <2>1 DEF FirstNodes
<1>3. \A i \in 1..k : x[i] = y[i]
  <2>1. \A i \in 1..k : i \in 1..m
    BY <1>1
  <2> QED BY <2>1 DEF FirstNodes
<1> HIDE DEF x, y, D
<1>4. x \in Seq(D) /\ Len(x) = k /\ y \in Seq(D) /\ Len(y) = m
  BY <1>1, <1>2, SequenceIs
<1>5. SubSeq(x, 1, k) = SubSeq(y, 1, k)
  BY <1>1, <1>3, <1>4
<1>6. x = SubSeq(x, 1, k)
  BY <1>1, <1>4
<1> QED BY <1>1, <1>4, <1>5, <1>6 DEF IsPrefix, x, y

\* All that has been sent and can be read is read.
LEMMA AllSent ==
  ASSUME NEW t, NEW s \in Scripts, s = script[t], sent[t] \in Nat, NEW k \in 0..Len(s),
         AreGood(s, k), Base(s)[k] <= sent[t] + 1
  PROVE  /\ IsPrefix(FirstNodes(s, k), NodesSent(t)) /\ IsPrefix(NodesSent(t), NodesSent(t))
         /\ k < Len(s) /\ (~Good(s[k + 1]) \/ Base(s)[k + 1] > sent[t] + 1) => FirstNodes(s, k) = NodesSent(t)
         /\ k = Len(s) => FirstNodes(s, k) = NodesSent(t)
<1> DEFINE W == {j \in 0..Len(s) : AreGood(s, j) /\ Len(Wire(SubSeq(s, 1, j))) <= sent[t] + 1}
           m == Max(W)
<1>1. s \in Seq(Seq(Symbols)) /\ Len(s) \in Nat /\ \A i \in 1..Len(s) : s[i] \in Seq(Symbols)
  BY ScriptIs
<1>2. \A j \in 0..Len(s) : Len(Wire(SubSeq(s, 1, j))) = Base(s)[j]
  BY <1>1, WireUpTo
<1>3. k \in W
  BY <1>2
<1>4. NodesSent(t) = FirstNodes(s, m)
  BY DEF NodesSent, FirstNodes, AreGood
<1>5. W \in SUBSET (0..Len(s)) /\ W # {}
  BY <1>3
<1>6. m \in W /\ \A j \in W : j <= m
  <2> HIDE DEF W
  <2> QED BY <1>1, <1>5, MaxIs
<1>7. m \in 0..Len(s) /\ AreGood(s, m) /\ Base(s)[m] <= sent[t] + 1 /\ k <= m
  BY <1>2, <1>3, <1>6
<1> HIDE DEF m, W
<1>8. IsPrefix(FirstNodes(s, k), FirstNodes(s, m)) /\ IsPrefix(FirstNodes(s, m), FirstNodes(s, m))
  <2>1. k \in 0..m /\ m \in 0..m
    BY <1>7
  <2> QED BY <1>7, <2>1, FirstIsPrefix
<1>9. ASSUME k < Len(s), ~Good(s[k + 1]) \/ Base(s)[k + 1] > sent[t] + 1 PROVE k = m
  <2>1. SUFFICES ASSUME k < m PROVE FALSE
    BY <1>1, <1>7
  <2>2. k + 1 \in 1..m
    BY <1>7, <2>1
  <2>3. Good(s[k + 1])
    BY <1>7, <2>2 DEF AreGood
  <2>4. k + 1 \in 0..Len(s) /\ m \in (k + 1)..Len(s)
    BY <1>1, <1>7, <2>2
  <2>5. Base(s)[k + 1] \in Nat /\ Base(s)[m] \in Nat /\ Base(s)[k + 1] <= Base(s)[m]
    BY <2>4, BaseRises
  <2> QED BY <1>7, <1>9, <2>3, <2>5
<1>10. k = Len(s) => k = m
  BY <1>1, <1>7
<1> QED BY <1>4, <1>8, <1>9, <1>10

-----------------------------------------------------------------------------
(* Where the parser is in the element it reads: all that comes after k     *)
(* elements and w words of the next one, from the symbol after the first p *)

\* The first words of an element, as the parser keeps them.
FirstWords(e, w) == [i \in 1..w |-> <<e[i]>>]

Reading(s, k, w, dep, nd) ==
  /\ k \in 0..(Len(s) - 1) /\ w \in 0..Len(s[k + 1])
  /\ dep = Depths(s[k + 1])[w]
  /\ nd = FirstWords(s[k + 1], w)
  /\ \A i \in 1..w : s[k + 1][i] \notin Malformed

Between(s, k, w, dep, nd, p) ==
  /\ w = 0 /\ dep = 0 /\ nd = <<>>
  /\ p = Base(s)[k] \/ (k > 0 /\ p = Base(s)[k] - 1)
Inside(s, k, w, dep, nd, p) ==
  Reading(s, k, w, dep, nd) /\ w \in 1..(Len(s[k + 1]) - 1) /\ p = Base(s)[k] + Word(s[k + 1])[w]
InTag(s, k, w, dep, nd, p) ==
  /\ Reading(s, k, w, dep, nd) /\ w < Len(s[k + 1]) /\ s[k + 1][w + 1] \notin Text
  /\ p = Base(s)[k] + Word(s[k + 1])[w] + 1
BehindName(s, k, w, dep, nd, p) ==
  /\ Reading(s, k, w, dep, nd) /\ w > 0 /\ s[k + 1][w] \notin Text
  /\ p = Base(s)[k] + Word(s[k + 1])[w] - 1

At(place, s, k, w, dep, nd, p) ==
  \/ place = "outer" /\ (Between(s, k, w, dep, nd, p) \/ Inside(s, k, w, dep, nd, p))
  \/ place = "name" /\ InTag(s, k, w, dep, nd, p)
  \/ place = "bracket" /\ BehindName(s, k, w, dep, nd, p)

\* What the next symbols are.
Ahead(s, p, c) == Wire(s)[p + 2] = c
DepthBehind(dep, c) == dep + Delta(<<c>>)

LEMMA BetweenNext ==
  ASSUME NEW s \in Scripts, NEW k \in 0..Len(s), NEW w, NEW dep, NEW nd, NEW p \in Nat,
         Between(s, k, w, dep, nd, p), p + 1 <= Len(Wire(s))
  PROVE  \/ /\ Wire(s)[p + 1] = LT /\ p = Base(s)[k] /\ k < Len(s)
            /\ InTag(s, k, w, dep, nd, p + 1)
         \/ /\ Wire(s)[p + 1] = NL /\ Between(s, k, w, dep, nd, p + 1)
            /\ p + 2 <= Len(Wire(s)) => Wire(s)[p + 2] = LT
<1>1. s \in Seq(Seq(Symbols)) /\ Len(s) \in Nat
  BY ScriptIs
<1>2. Len(Wire(s)) = Base(s)[Len(s)] /\ Base(s)[k] \in Nat
  <2>1. k \in k..Len(s)
    BY <1>1
  <2> QED BY <1>1, <2>1, WireIs, BaseRises
<1>3. ASSUME k < Len(s) PROVE InTag(s, k, w, dep, nd, Base(s)[k] + 1) /\ Wire(s)[Base(s)[k] + 1] = LT
  <2> DEFINE e == s[k + 1]
  <2>1. k \in 0..(Len(s) - 1) /\ k + 1 \in 1..Len(s)
    BY <1>1, <1>3
  <2>2. e \in Seq(Symbols) /\ Len(e) \in Nat \ {0} /\ Written(e)
    BY <2>1, ScriptIs
  <2> HIDE DEF e
  <2>3. 1 \in 1..Len(e) /\ 0 \in 0..Len(e) /\ 0 < Len(e) /\ 1 - 1 = 0 /\ 0 + 1 = 1
    BY <2>2
  <2>4. e[1] \notin Text
    BY <2>2 DEF Written
  <2>5. Word(e)[0] = 0 /\ Base(s)[k] + Word(e)[0] + 1 = Base(s)[k] + 1
    BY <1>2, <2>1, PieceEnds DEF e
  <2>6. Wire(s)[Base(s)[k] + 1] = LT
    BY <2>1, <2>3, <2>4, <2>5, WordAt DEF e
  <2>7. Depths(e)[0] = 0
    BY <2>2, DepthsAre
  <2>8. nd = FirstWords(e, 0) /\ 1..0 = {}
    BY DEF Between, FirstWords
  <2>9. w = 0 /\ dep = 0
    BY DEF Between
  <2>10. Reading(s, k, w, dep, nd)
    BY <2>1, <2>3, <2>7, <2>8, <2>9 DEF Reading, e
  <2> QED BY <2>3, <2>4, <2>5, <2>6, <2>9, <2>10 DEF InTag, e
<1>4. CASE p = Base(s)[k]
  <2>1. k < Len(s)
    BY <1>1, <1>2, <1>4
  <2> QED BY <1>3, <1>4, <2>1
<1>5. CASE k > 0 /\ p = Base(s)[k] - 1
  <2>1. p + 1 = Base(s)[k] /\ p + 2 = Base(s)[k] + 1
    BY <1>2, <1>5
  <2>2. Wire(s)[Base(s)[k]] = NL
    BY <1>1, <1>5, WireIs
  <2>3. Between(s, k, w, dep, nd, p + 1)
    BY <2>1 DEF Between
  <2>4. ASSUME p + 2 <= Len(Wire(s)) PROVE Wire(s)[p + 2] = LT
    <3>1. k < Len(s)
      BY <1>1, <1>2, <2>1, <2>4
    <3> QED BY <1>3, <2>1, <3>1
  <2> QED BY <2>1, <2>2, <2>3, <2>4
<1> QED BY <1>4, <1>5 DEF Between

LEMMA InsideNext ==
  ASSUME NEW s \in Scripts, NEW k, NEW w, NEW dep, NEW nd, NEW p, Inside(s, k, w, dep, nd, p),
         NEW e, e = s[k + 1]
  PROVE  /\ dep \in Nat /\ dep # 0 /\ p \in Nat /\ e[w + 1] \notin Bracket /\ e \in Seq(Symbols)
         /\ e[w + 1] \notin Text => Wire(s)[p + 1] = LT /\ InTag(s, k, w, dep, nd, p + 1)
         /\ e[w + 1] \in Text =>
              /\ Wire(s)[p + 1] = e[w + 1] /\ Ahead(s, p, LT)
              /\ Inside(s, k, w + 1, dep, FirstWords(e, w + 1), p + 1)
<1>1. /\ Reading(s, k, w, dep, nd) /\ w \in 1..(Len(e) - 1) /\ p = Base(s)[k] + Word(e)[w]
      /\ k \in 0..(Len(s) - 1) /\ dep = Depths(e)[w]
      /\ nd = FirstWords(e, w) /\ \A i \in 1..w : e[i] \notin Malformed
  BY DEF Inside, Reading
<1>2. k + 1 \in 1..Len(s)
  BY <1>1, ScriptIs
<1>3. e \in Seq(Symbols) /\ Len(e) \in Nat \ {0} /\ Written(e)
  BY <1>2, ScriptIs
<1>4. w \in 0..(Len(e) - 1) /\ w + 1 \in 1..Len(e) /\ (w + 1) - 1 = w /\ w + 1 \in 0..Len(e) /\ w \in 0..Len(e) /\ w \in Nat /\ w \notin {0, Len(e)}
  BY <1>1, <1>3
<1>5. PICK b \in Nat, o \in Nat : b = Base(s)[k] /\ o = Word(e)[w] /\ p = b + o
  BY <1>1, <1>4, WordAfter
<1>6. Depths(e)[w] \in Int /\ Depths(e)[w] >= 0 /\ Depths(e)[w] # 0
  <2>1. Depths(e)[w] \in Int
    BY <1>3, <1>4, DepthsAre
  <2>2. Depths(e)[w] >= 0 /\ (Depths(e)[w] = 0 <=> w \in {0, Len(e)})
    BY <1>3, <1>4, WrittenDepth
  <2> QED BY <1>4, <2>1, <2>2
<1>7. e[w + 1] \notin Bracket
  BY <1>1, <1>4, WordAfter
<1>8. ASSUME e[w + 1] \notin Text PROVE Wire(s)[p + 1] = LT /\ InTag(s, k, w, dep, nd, p + 1)
  <2>1. IsTag(s, b + o, e[w + 1])
    BY <1>1, <1>4, <1>5, <1>8, WordAfter
  <2>2. p + 1 = b + o + 1 /\ w < Len(e)
    BY <1>1, <1>3, <1>5
  <2>3. Wire(s)[p + 1] = LT
    BY <1>5, <2>1 DEF IsTag
  <2> QED BY <1>1, <1>5, <1>8, <2>2, <2>3 DEF InTag
<1>9. ASSUME e[w + 1] \in Text
      PROVE  /\ Wire(s)[p + 1] = e[w + 1] /\ Ahead(s, p, LT)
             /\ Inside(s, k, w + 1, dep, FirstWords(e, w + 1), p + 1)
  <2>0. IsText(s, b + o, e[w + 1]) /\ Word(e)[w + 1] = o + 1
    <3>1. k \in 0..(Len(s) - 1) /\ w \in 0..(Len(e) - 1) /\ b = Base(s)[k] /\ o = Word(e)[w]
      BY <1>1, <1>4, <1>5
    <3> QED BY <1>9, <3>1, WordAfter
  <2>1. Wire(s)[b + o + 1] = e[w + 1] /\ Word(e)[w + 1] = o + 1
    BY <2>0 DEF IsText
  <2>2. Depths(e)[w + 1] = Depths(e)[w]
    <3>1. Opened(e[w + 1]) = 0
      BY <1>9, XmlAssumption DEF Opened
    <3> QED BY <1>3, <1>4, <1>6, <3>1, DepthsAre
  <2>3. w + 1 # Len(e)
    BY <1>3, <1>4, <1>6, <2>2 DEF Written
  <2>4. w + 2 \in 1..Len(e) /\ (w + 2) - 1 = w + 1 /\ w + 1 \in 1..(Len(e) - 1) /\ (w + 1) + 1 = w + 2
    BY <1>3, <1>4, <2>3
  <2>5. e[w + 2] \notin Text
    BY <1>3, <1>9, <2>4 DEF Written
  <2>6. Wire(s)[b + (o + 1) + 1] = LT
    <3>1. w + 1 \in 0..(Len(e) - 1) /\ e[(w + 1) + 1] \notin Text
      BY <1>3, <2>4, <2>5
    <3>2. IsTag(s, b + (o + 1), e[(w + 1) + 1])
      BY <1>1, <1>5, <2>1, <3>1, WordAfter
    <3> QED BY <3>2 DEF IsTag
  <2>7. p + 1 = b + o + 1 /\ p + 2 = b + (o + 1) + 1 /\ p + 1 = b + (o + 1)
    BY <1>5
  <2>8. ASSUME e[w + 1] \notin Malformed
        PROVE  Inside(s, k, w + 1, dep, FirstWords(e, w + 1), p + 1)
    <3>1. \A i \in 1..(w + 1) : i \in 1..w \/ i = w + 1
      BY <1>4
    <3>2. Reading(s, k, w + 1, dep, FirstWords(e, w + 1))
      BY <1>1, <1>4, <2>2, <2>8, <3>1 DEF Reading
    <3> QED BY <1>5, <2>1, <2>4, <2>7, <3>2 DEF Inside
  <2>9. e[w + 1] \notin Malformed
    BY <1>9, XmlAssumption
  <2> QED BY <2>1, <2>6, <2>7, <2>8, <2>9 DEF Ahead
<1>10. dep \in Nat /\ dep # 0 /\ p \in Nat
  BY <1>1, <1>5, <1>6
<1>11. e \in Seq(Symbols)
  BY <1>3
<1> QED BY <1>7, <1>8, <1>9, <1>10, <1>11, Zenon

LEMMA InTagNext ==
  ASSUME NEW s \in Scripts, NEW k, NEW w, NEW dep, NEW nd, NEW p, InTag(s, k, w, dep, nd, p),
         NEW e, e = s[k + 1], NEW c, c = e[w + 1]
  PROVE  /\ p \in Nat /\ Wire(s)[p + 1] = c /\ Ahead(s, p, GT) /\ c \notin Bracket
         /\ dep \in Nat /\ (c \in Closing => dep # 0)
         /\ c \notin Malformed =>
              BehindName(s, k, w + 1, DepthBehind(dep, c), FirstWords(e, w + 1), p + 1)
<1>1. /\ Reading(s, k, w, dep, nd) /\ w < Len(e) /\ c \notin Text /\ p = Base(s)[k] + Word(e)[w] + 1
      /\ k \in 0..(Len(s) - 1) /\ dep = Depths(e)[w] /\ w \in 0..Len(e)
      /\ nd = FirstWords(e, w) /\ \A i \in 1..w : e[i] \notin Malformed
  BY DEF InTag, Reading
<1>2. k + 1 \in 1..Len(s)
  BY <1>1, ScriptIs
<1>3. e \in Seq(Symbols) /\ Len(e) \in Nat \ {0} /\ Written(e)
  BY <1>2, ScriptIs
<1>4. w \in 0..(Len(e) - 1) /\ w + 1 \in 1..Len(e) /\ (w + 1) - 1 = w /\ w + 1 \in 0..Len(e) /\ w \in Nat
  BY <1>1, <1>3
<1>5. PICK b \in Nat, o \in Nat : b = Base(s)[k] /\ o = Word(e)[w] /\ p = b + o + 1
  BY <1>1, <1>4, WordAfter
<1>6. IsTag(s, b + o, c) /\ Word(e)[w + 1] = o + 3 /\ c \notin Bracket
  BY <1>1, <1>4, <1>5, WordAfter
<1>7. Wire(s)[p + 1] = c /\ Ahead(s, p, GT)
  <2>1. p + 1 = b + o + 2 /\ p + 2 = b + o + 3
    BY <1>5
  <2> QED BY <1>6, <2>1 DEF IsTag, Ahead
<1>8. /\ Depths(e)[w] \in Int /\ Depths(e)[w] >= 0
      /\ Depths(e)[w + 1] \in Int /\ Depths(e)[w + 1] >= 0 /\ Depths(e)[w + 1] = Depths(e)[w] + Opened(c)
  <2>1. Depths(e)[w] \in Int /\ Depths(e)[w + 1] \in Int
    BY <1>3, <1>4, DepthsAre
  <2>2. Depths(e)[w] >= 0 /\ Depths(e)[w + 1] >= 0
    BY <1>3, <1>4, WrittenDepth
  <2>3. Depths(e)[w + 1] = Depths(e)[w] + Opened(c)
    BY <1>3, <1>4, DepthsAre
  <2> QED BY <2>1, <2>2, <2>3
<1>9. c \in Closing => dep # 0
  <2>1. c \in Closing => Opened(c) = -1
    BY DEF Opened
  <2> QED BY <1>1, <1>8, <2>1
<1>10. ASSUME c \notin Malformed
       PROVE  BehindName(s, k, w + 1, DepthBehind(dep, c), FirstWords(e, w + 1), p + 1)
  <2>1. Delta(<<c>>) = Opened(c)
    <3>1. <<c>> # <<>> /\ Len(<<c>>) = 1 /\ <<c>>[1] = c
      OBVIOUS
    <3> QED BY <1>1, <1>10, <3>1 DEF Delta, Closes, Opened
  <2>2. p + 1 = b + (o + 3) - 1
    BY <1>5
  <2>3. \A i \in 1..(w + 1) : i \in 1..w \/ i = w + 1
    BY <1>4
  <2>4. Reading(s, k, w + 1, DepthBehind(dep, c), FirstWords(e, w + 1))
    BY <1>1, <1>4, <1>8, <1>10, <2>1, <2>3 DEF Reading, DepthBehind
  <2>5. w + 1 > 0
    BY <1>4
  <2> QED BY <1>1, <1>5, <1>6, <2>2, <2>4, <2>5 DEF BehindName
<1>11. p \in Nat /\ dep \in Nat
  BY <1>1, <1>5, <1>8
<1> QED BY <1>6, <1>7, <1>9, <1>10, <1>11

LEMMA BehindNameNext ==
  ASSUME NEW s \in Scripts, NEW k, NEW w, NEW dep, NEW nd, NEW p, BehindName(s, k, w, dep, nd, p),
         NEW e, e = s[k + 1]
  PROVE  /\ p \in Nat /\ Wire(s)[p + 1] = GT
         /\ dep = 0 => /\ nd = NodeOf(e) /\ Good(e) /\ k + 1 \in 1..Len(s)
                       /\ Between(s, k + 1, 0, 0, <<>>, p + 1)
         /\ dep # 0 => Inside(s, k, w, dep, nd, p + 1)
<1>1. /\ Reading(s, k, w, dep, nd) /\ w > 0 /\ e[w] \notin Text /\ p = Base(s)[k] + Word(e)[w] - 1
      /\ k \in 0..(Len(s) - 1) /\ dep = Depths(e)[w] /\ w \in 0..Len(e)
      /\ nd = FirstWords(e, w) /\ \A i \in 1..w : e[i] \notin Malformed
  BY DEF BehindName, Reading
<1>2. k + 1 \in 1..Len(s)
  BY <1>1, ScriptIs
<1>3. e \in Seq(Symbols) /\ Len(e) \in Nat \ {0} /\ Written(e)
  BY <1>2, ScriptIs
<1>4. PICK v \in 0..(Len(e) - 1) : w = v + 1 /\ w \in 1..Len(e)
  <2>1. w - 1 \in 0..(Len(e) - 1) /\ w = (w - 1) + 1 /\ w \in 1..Len(e)
    BY <1>1, <1>3
  <2> QED BY <2>1
<1>5. PICK b \in Nat, o \in Nat : b = Base(s)[k] /\ o = Word(e)[v]
  <2>1. k \in 0..(Len(s) - 1)
    BY <1>1
  <2> QED BY <2>1, WordAfter
<1>6. IsTag(s, b + o, e[w]) /\ Word(e)[w] = o + 3
  BY <1>1, <1>4, <1>5, WordAfter
<1>7. p \in Nat /\ p = b + o + 2 /\ p + 1 = b + o + 3
  <2>1. p = b + (o + 3) - 1
    BY <1>1, <1>5, <1>6
  <2>2. \A x, y \in Nat : x + (y + 3) - 1 \in Nat /\ x + (y + 3) - 1 = x + y + 2 /\ x + (y + 3) - 1 + 1 = x + y + 3
    OBVIOUS
  <2>3. b \in Nat /\ o \in Nat
    BY <1>5
  <2> QED BY <2>1, <2>2, <2>3
<1>8. Wire(s)[p + 1] = GT
  BY <1>6, <1>7 DEF IsTag
<1>9. Depths(e)[w] = 0 <=> w \in {0, Len(e)}
  BY <1>1, <1>3, WrittenDepth
<1>10. ASSUME dep = 0
       PROVE  nd = NodeOf(e) /\ Good(e) /\ Between(s, k + 1, 0, 0, <<>>, p + 1)
  <2>1. w = Len(e)
    BY <1>1, <1>3, <1>9, <1>10
  <2>2. nd = NodeOf(e) /\ Good(e)
    BY <1>1, <2>1 DEF NodeOf, Good, FirstWords
  <2>3. Base(s)[k + 1] = b + (o + 3) + 1
    BY <1>1, <1>5, <1>6, <2>1, PieceEnds
  <2>4. p + 1 = Base(s)[k + 1] - 1 /\ k + 1 > 0
    <3>1. \A x, y \in Nat : x + y + 3 = (x + (y + 3) + 1) - 1
      OBVIOUS
    <3>2. p + 1 = (b + (o + 3) + 1) - 1
      BY <1>5, <1>7, <3>1
    <3> QED BY <1>1, <2>3, <3>2
  <2> QED BY <2>2, <2>4 DEF Between
<1>11. ASSUME dep # 0 PROVE Inside(s, k, w, dep, nd, p + 1)
  <2>1. w \in 1..(Len(e) - 1)
    BY <1>1, <1>3, <1>9, <1>11
  <2>2. p + 1 = b + (o + 3)
    BY <1>5, <1>7
  <2> QED BY <1>1, <1>5, <1>6, <2>1, <2>2 DEF Inside
<1> QED BY <1>2, <1>7, <1>8, <1>10, <1>11

-----------------------------------------------------------------------------
(* Where the tokenizer is in the symbols                                   *)

\* The first p symbols have been taken; a bracket behind them may be remembered.
Held(wire, lc, rd, p) == \/ lc = "" /\ rd = p
                         \/ lc \in Bracket /\ rd = p + 1 /\ lc = wire[p + 1]
Half(wire, lc, rs, rd, p) == /\ lc = ""
                             /\ \/ rs = <<>> /\ rd = p
                                \/ rs = <<wire[p + 1]>> /\ wire[p + 1] \notin Bracket /\ rd = p + 1
Gone(wire, snt, lc, rs, p) == /\ lc = "" /\ rs = <<>>
                              /\ snt = p \/ (snt = p + 1 /\ wire[p + 1] \notin Bracket)
Taken(wire, snt, lc, rs, rd, p) == rs = <<wire[p + 1]>> /\ Held(wire, lc, rd, p + 1) /\ p + 1 <= snt

TokenAt(wire, snt, lc, loc, rs, rd, p) ==
  \/ loc = "call" /\ Held(wire, lc, rd, p)
  \/ loc = "test" /\ Held(wire, lc, rd, p) /\ rs = IF lc = "" THEN <<>> ELSE <<lc>>
  \/ loc = "reading" /\ Half(wire, lc, rs, rd, p)
  \/ loc = "returned" /\ (Gone(wire, snt, lc, rs, p) \/ Taken(wire, snt, lc, rs, rd, p))

LEMMA OneIs ==
  ASSUME NEW c
  PROVE  /\ <<c>> # <<>> /\ Len(<<c>>) = 1 /\ <<c>>[1] = c /\ Append(<<>>, c) = <<c>>
         /\ \A d : <<c>> = <<d>> => c = d
OBVIOUS

LEMMA BracketIs == Bracket = {LT, GT} /\ LT # GT /\ "" \notin Bracket /\ NL \notin Bracket
BY DEF Bracket, LT, GT, NL

LEMMA TestToken ==
  ASSUME NEW wire, NEW snt \in Nat, NEW lc, NEW rs, NEW rd \in Nat, NEW p \in Nat, rd <= snt,
         TokenAt(wire, snt, lc, "test", rs, rd, p)
  PROVE  TokenAt(wire, snt, "", IF lc = "" THEN "reading" ELSE "returned", rs, rd, p)
<1>1. Held(wire, lc, rd, p) /\ rs = IF lc = "" THEN <<>> ELSE <<lc>>
  BY DEF TokenAt
<1>2. CASE lc = ""
  <2>1. rs = <<>> /\ rd = p
    BY <1>1, <1>2, BracketIs DEF Held
  <2>2. Half(wire, "", rs, rd, p)
    BY <2>1 DEF Half
  <2> QED BY <1>2, <2>2 DEF TokenAt
<1>3. CASE lc # ""
  <2>1. rs = <<wire[p + 1]>> /\ rd = p + 1
    BY <1>1, <1>3 DEF Held
  <2>2. Held(wire, "", rd, p + 1)
    BY <2>1 DEF Held
  <2>3. p + 1 <= snt
    BY <2>1
  <2> QED BY <1>3, <2>1, <2>2, <2>3 DEF TokenAt, Taken
<1> QED BY <1>2, <1>3

LEMMA ReadToken ==
  ASSUME NEW wire, NEW snt \in Nat, NEW lc, NEW rs, NEW rd \in Nat, NEW p \in Nat, rd < snt,
         TokenAt(wire, snt, lc, "reading", rs, rd, p), NEW c, c = wire[rd + 1],
         wire[p + 1] \in Bracket \/ (p + 2 <= snt => wire[p + 2] \in Bracket)
  PROVE  /\ c \in Bracket /\ rs = <<>> => TokenAt(wire, snt, "", "returned", <<c>>, rd + 1, p)
         /\ c \in Bracket /\ rs # <<>> => TokenAt(wire, snt, c, "returned", rs, rd + 1, p)
         /\ c \notin Bracket => TokenAt(wire, snt, lc, "reading", Append(rs, c), rd + 1, p)
<1>1. Half(wire, lc, rs, rd, p)
  BY DEF TokenAt
<1>2. CASE rs = <<>> /\ rd = p
  <2>1. c = wire[p + 1] /\ rd + 1 = p + 1 /\ p + 1 <= snt
    BY <1>2
  <2>2. Held(wire, "", rd + 1, p + 1)
    BY <2>1 DEF Held
  <2>3. Taken(wire, snt, "", <<c>>, rd + 1, p)
    BY <2>1, <2>2 DEF Taken
  <2>4. ASSUME c \notin Bracket PROVE Half(wire, lc, Append(rs, c), rd + 1, p)
    <3>1. Append(rs, c) = <<c>>
      BY <1>2, OneIs
    <3> QED BY <1>1, <2>1, <2>4, <3>1 DEF Half
  <2> QED BY <1>2, <2>3, <2>4 DEF TokenAt
<1>3. CASE rs = <<wire[p + 1]>> /\ wire[p + 1] \notin Bracket /\ rd = p + 1
  <2>1. c = wire[p + 2] /\ rd + 1 = p + 2 /\ p + 2 <= snt /\ p + 1 <= snt /\ p + 2 = (p + 1) + 1
    BY <1>3
  <2>2. c \in Bracket /\ rs # <<>>
    BY <1>3, <2>1, OneIs
  <2>3. Held(wire, c, rd + 1, p + 1)
    BY <2>1, <2>2 DEF Held
  <2>4. Taken(wire, snt, c, rs, rd + 1, p)
    BY <1>3, <2>1, <2>3 DEF Taken
  <2> QED BY <2>2, <2>4 DEF TokenAt
<1> QED BY <1>1, <1>2, <1>3 DEF Half

LEMMA FailToken ==
  ASSUME NEW wire, NEW snt, NEW lc, NEW rs, NEW p,
         TokenAt(wire, snt, lc, "reading", rs, snt, p)
  PROVE  TokenAt(wire, snt, lc, "returned", <<>>, snt, p)
<1>1. Half(wire, lc, rs, snt, p)
  BY DEF TokenAt
<1>2. Gone(wire, snt, lc, <<>>, p)
  BY <1>1 DEF Half, Gone
<1> QED BY <1>2 DEF TokenAt

\* There are no two symbols without a bracket among them.
LEMMA AtBracket ==
  ASSUME NEW place, NEW s \in Scripts, NEW k \in 0..Len(s), NEW w, NEW dep, NEW nd, NEW p \in Nat,
         At(place, s, k, w, dep, nd, p), p + 1 <= Len(Wire(s)), Len(Wire(s)) \in Nat
  PROVE  Wire(s)[p + 1] \in Bracket \/ (p + 2 <= Len(Wire(s)) => Wire(s)[p + 2] \in Bracket)
<1>1. CASE Between(s, k, w, dep, nd, p)
  BY <1>1, BetweenNext, BracketIs
<1>2. CASE Inside(s, k, w, dep, nd, p)
  <2>1. PICK e : e = s[k + 1]
    OBVIOUS
  <2>2. CASE e[w + 1] \notin Text
    <3>1. Wire(s)[p + 1] = LT
      BY <1>2, <2>1, <2>2, InsideNext
    <3> QED BY <3>1, BracketIs
  <2>3. CASE e[w + 1] \in Text
    <3>1. Ahead(s, p, LT)
      BY <1>2, <2>1, <2>3, InsideNext
    <3> QED BY <3>1, BracketIs DEF Ahead
  <2> QED BY <2>2, <2>3
<1>3. CASE InTag(s, k, w, dep, nd, p)
  <2>1. PICK e, c : e = s[k + 1] /\ c = e[w + 1]
    OBVIOUS
  <2>2. Ahead(s, p, GT)
    BY <1>3, <2>1, InTagNext
  <2> QED BY <2>2, BracketIs DEF Ahead
<1>4. CASE BehindName(s, k, w, dep, nd, p)
  BY <1>4, BehindNameNext, BracketIs
<1> QED BY <1>1, <1>2, <1>3, <1>4 DEF At

-----------------------------------------------------------------------------
(* How far the parser is behind what has been sent                         *)

\* An element ends behind its words.
LEMMA EndsLater ==
  ASSUME NEW s \in Scripts, NEW k \in 0..(Len(s) - 1), NEW e, e = s[k + 1], NEW w \in 0..Len(e)
  PROVE  /\ Base(s)[k] \in Nat /\ Word(e)[w] \in Nat /\ Base(s)[k + 1] \in Nat
         /\ Base(s)[k + 1] > Base(s)[k] + Word(e)[w]
         /\ w < Len(e) => Base(s)[k + 1] > Base(s)[k] + Word(e)[w] + 1
         /\ w < Len(e) /\ e[w + 1] \notin Text => Base(s)[k + 1] > Base(s)[k] + Word(e)[w] + 3
<1>1. k + 1 \in 1..Len(s)
  BY ScriptIs
<1>2. Len(e) \in Nat
  BY <1>1, ScriptIs
<1>3. Len(e) \in 0..Len(e) /\ Len(e) \in w..Len(e)
  BY <1>2
<1>4. /\ Base(s)[k] \in Nat /\ Base(s)[k + 1] = Base(s)[k] + Word(e)[Len(e)] + 1
      /\ Word(e) \in [0..Len(e) -> Nat] /\ \A i \in 0..Len(e) : \A j \in i..Len(e) : Word(e)[i] <= Word(e)[j]
  BY PieceEnds
<1>5. PICK b \in Nat, n \in Nat, o \in Nat : b = Base(s)[k] /\ n = Word(e)[Len(e)] /\ o = Word(e)[w]
  BY <1>3, <1>4
<1>6. Base(s)[k + 1] = b + n + 1 /\ o <= n
  BY <1>3, <1>4, <1>5
<1>7. ASSUME w < Len(e) PROVE o + 1 <= n /\ (e[w + 1] \notin Text => o + 3 <= n)
  <2>1. w \in 0..(Len(e) - 1) /\ w + 1 \in 0..Len(e) /\ Len(e) \in (w + 1)..Len(e)
    BY <1>2, <1>7
  <2>2. Word(e)[w + 1] <= n
    BY <1>4, <1>5, <2>1
  <2>3. /\ e[w + 1] \in Text => Word(e)[w + 1] = o + 1
        /\ e[w + 1] \notin Text => Word(e)[w + 1] = o + 3
    BY <1>5, <2>1, WordAfter
  <2> QED BY <1>5, <2>2, <2>3
<1>8. \A x, y, z \in Nat : /\ x + z + 1 \in Nat /\ (y <= z => x + z + 1 > x + y) /\ (y + 1 <= z => x + z + 1 > x + y + 1)
                           /\ (y + 3 <= z => x + z + 1 > x + y + 3)
  OBVIOUS
<1>9. /\ b + n + 1 \in Nat /\ b + n + 1 > b + o /\ (w < Len(e) => b + n + 1 > b + o + 1)
      /\ (w < Len(e) /\ e[w + 1] \notin Text => b + n + 1 > b + o + 3)
  BY <1>5, <1>6, <1>7, <1>8
<1> QED BY <1>5, <1>6, <1>9

\* When all that was sent is read, the next element has not been sent whole.
LEMMA NotYet ==
  ASSUME NEW place, NEW s \in Scripts, NEW k \in 0..Len(s), NEW w, NEW dep, NEW nd, NEW p \in Nat,
         At(place, s, k, w, dep, nd, p), NEW snt \in Nat, snt <= Len(Wire(s)), NEW lc, NEW rs,
         Gone(Wire(s), snt, lc, rs, p)
  PROVE  k = Len(s) \/ (k < Len(s) /\ Base(s)[k + 1] > snt + 1)
<1>1. s \in Seq(Seq(Symbols)) /\ Len(s) \in Nat /\ (k = Len(s) \/ k < Len(s))
  BY ScriptIs
<1> SUFFICES ASSUME k < Len(s) PROVE Base(s)[k + 1] > snt + 1
  BY <1>1
<1>2. k \in 0..(Len(s) - 1) /\ k + 1 \in 1..Len(s) /\ k + 1 \in (k + 1)..Len(s)
  BY <1>1
<1>3. PICK e : e = s[k + 1]
  OBVIOUS
<1>4. e \in Seq(Symbols) /\ Len(e) \in Nat \ {0}
  BY <1>2, <1>3, ScriptIs
<1>5. PICK z \in Nat, b \in Nat : z = Base(s)[k + 1] /\ b = Base(s)[k]
  <2>1. 0 \in 0..Len(e)
    BY <1>4
  <2> QED BY <1>2, <1>3, <2>1, EndsLater
<1>6. snt = p \/ (snt = p + 1 /\ Wire(s)[p + 1] \notin Bracket)
  BY DEF Gone
<1>7. CASE Between(s, k, w, dep, nd, p)
  <2>1. z > b + 1
    <3>1. 0 \in 0..Len(e) /\ 0 < Len(e)
      BY <1>4
    <3>2. Word(e)[0] = 0
      BY <1>2, <1>3, PieceEnds
    <3>3. z > b + Word(e)[0] + 1
      BY <1>2, <1>3, <1>5, <3>1, EndsLater
    <3> QED BY <3>2, <3>3
  <2>2. CASE p = b
    <3>1. z <= Len(Wire(s)) /\ Len(Wire(s)) \in Nat
      <4>1. Len(Wire(s)) = Base(s)[Len(s)]
        BY <1>1, WireIs
      <4>2. k + 1 \in 0..Len(s) /\ Len(s) \in (k + 1)..Len(s)
        BY <1>1, <1>2
      <4> QED BY <1>5, <4>1, <4>2, BaseRises
    <3>2. p + 1 <= Len(Wire(s))
      BY <2>1, <2>2, <3>1
    <3>3. Wire(s)[p + 1] = LT
      <4>1. \/ Wire(s)[p + 1] = LT /\ p = Base(s)[k]
            \/ Wire(s)[p + 1] = NL /\ Between(s, k, w, dep, nd, p + 1)
        BY <1>7, <3>2, BetweenNext
      <4>2. p + 1 # b /\ p + 1 # b - 1
        BY <2>2
      <4> QED BY <1>5, <4>1, <4>2 DEF Between
    <3>4. snt = p
      BY <1>6, <3>3, BracketIs
    <3> QED BY <1>5, <2>1, <2>2, <3>4
  <2>3. CASE p = b - 1
    <3>1. snt + 1 <= b + 1
      BY <1>6, <2>3
    <3> QED BY <1>5, <2>1, <3>1
  <2> QED BY <1>5, <1>7, <2>2, <2>3 DEF Between
<1>8. \A v, n : Inside(s, k, v, dep, n, p) => z > p + 1
  <2> SUFFICES ASSUME NEW v, NEW n, Inside(s, k, v, dep, n, p) PROVE z > p + 1
    OBVIOUS
  <2>1. v \in 1..(Len(e) - 1) /\ p = Base(s)[k] + Word(e)[v]
    BY <1>3 DEF Inside
  <2>2. v \in 0..Len(e) /\ v < Len(e)
    BY <1>4, <2>1
  <2> QED BY <1>2, <1>3, <1>5, <2>1, <2>2, EndsLater
<1>9. CASE Inside(s, k, w, dep, nd, p)
  <2>1. w \in 1..(Len(e) - 1) /\ p = Base(s)[k] + Word(e)[w]
    BY <1>3, <1>9 DEF Inside
  <2>2. CASE e[w + 1] \notin Text
    <3>1. Wire(s)[p + 1] = LT
      BY <1>3, <1>9, <2>2, InsideNext
    <3>2. snt = p
      BY <1>6, <3>1, BracketIs
    <3> QED BY <1>5, <1>8, <1>9, <3>2
  <2>3. CASE e[w + 1] \in Text
    <3>1. Inside(s, k, w + 1, dep, FirstWords(e, w + 1), p + 1)
      BY <1>3, <1>9, <2>3, InsideNext
    <3>2. w + 1 \in 1..(Len(e) - 1) /\ p + 1 = Base(s)[k] + Word(e)[w + 1]
      BY <1>3, <3>1 DEF Inside
    <3>3. w + 1 \in 0..Len(e) /\ w + 1 < Len(e)
      BY <1>4, <3>2
    <3>4. z > (p + 1) + 1
      BY <1>2, <1>3, <1>5, <3>2, <3>3, EndsLater
    <3> QED BY <1>5, <1>6, <3>4
  <2> QED BY <2>2, <2>3
<1>10. CASE InTag(s, k, w, dep, nd, p)
  <2>1. w \in 0..Len(e) /\ w < Len(e) /\ e[w + 1] \notin Text /\ p = Base(s)[k] + Word(e)[w] + 1
    BY <1>3, <1>10 DEF InTag, Reading
  <2>2. PICK o \in Nat : o = Word(e)[w]
    BY <1>2, <1>3, <2>1, EndsLater
  <2>3. z > b + o + 3
    BY <1>2, <1>3, <1>5, <2>1, <2>2, EndsLater
  <2>4. p = b + o + 1
    BY <1>5, <2>1, <2>2
  <2>5. snt <= p + 1
    BY <1>6
  <2>6. \A x, y, u, v \in Nat : v > x + y + 3 /\ u <= (x + y + 1) + 1 => v > u + 1
    OBVIOUS
  <2>7. z > snt + 1
    BY <1>5, <2>2, <2>3, <2>4, <2>5, <2>6
  <2> QED BY <1>5, <2>7
<1>11. CASE BehindName(s, k, w, dep, nd, p)
  <2>1. w \in 0..Len(e) /\ p = Base(s)[k] + Word(e)[w] - 1
    BY <1>3, <1>11 DEF BehindName, Reading
  <2>2. PICK o \in Nat : o = Word(e)[w]
    BY <1>2, <1>3, <2>1, EndsLater
  <2>3. z > b + o
    BY <1>2, <1>3, <1>5, <2>1, <2>2, EndsLater
  <2>4. p = b + o - 1
    BY <1>5, <2>1, <2>2
  <2>5. Wire(s)[p + 1] = GT
    BY <1>3, <1>11, BehindNameNext
  <2>6. snt = p
    BY <1>6, <2>5, BracketIs
  <2> QED BY <1>5, <2>3, <2>4, <2>6
<1> QED BY <1>7, <1>9, <1>10, <1>11 DEF At

\* What has been read whole has been sent, all but the last line break.
LEMMA Begun ==
  ASSUME NEW place, NEW s \in Scripts, NEW k \in 0..Len(s), NEW w, NEW dep, NEW nd, NEW p \in Nat,
         At(place, s, k, w, dep, nd, p), NEW snt \in Nat, NEW rd \in Nat, rd <= snt, NEW lc, NEW loc, NEW rs,
         TokenAt(Wire(s), snt, lc, loc, rs, rd, p)
  PROVE  Base(s)[k] <= snt + 1
<1>1. PICK b \in Nat : b = Base(s)[k]
  <2>1. k \in k..Len(s)
    BY ScriptIs
  <2> QED BY <2>1, BaseRises
<1>2. p <= snt
  <2>1. CASE Held(Wire(s), lc, rd, p) \/ Half(Wire(s), lc, rs, rd, p)
    <3>1. rd = p \/ rd = p + 1
      BY <2>1 DEF Held, Half
    <3> QED BY <3>1
  <2>2. CASE Gone(Wire(s), snt, lc, rs, p) \/ Taken(Wire(s), snt, lc, rs, rd, p)
    <3>1. snt = p \/ snt = p + 1 \/ p + 1 <= snt
      BY <2>2 DEF Gone, Taken
    <3> QED BY <3>1
  <2> QED BY <2>1, <2>2 DEF TokenAt
<1>3. b <= p + 1
  <2>1. CASE Between(s, k, w, dep, nd, p)
    BY <1>1, <2>1 DEF Between
  <2>2. CASE Reading(s, k, w, dep, nd) /\ \/ p = Base(s)[k] + Word(s[k + 1])[w]
                                          \/ p = Base(s)[k] + Word(s[k + 1])[w] + 1
                                          \/ p = Base(s)[k] + Word(s[k + 1])[w] - 1
    <3>1. k \in 0..(Len(s) - 1) /\ w \in 0..Len(s[k + 1])
      BY <2>2 DEF Reading
    <3>2. Word(s[k + 1])[w] \in Nat
      BY <3>1, EndsLater
    <3>3. PICK o \in Nat : o = Word(s[k + 1])[w]
      BY <3>2
    <3> QED BY <1>1, <2>2, <3>3
  <2> QED BY <2>1, <2>2 DEF At, Inside, InTag, BehindName
<1> QED BY <1>1, <1>2, <1>3

-----------------------------------------------------------------------------
(* What a thread has of its connection while it serves it                  *)

Served(s, snt, lc, loc, place, rs, rd, dep, nd, nds) ==
  \E k, w, p \in Nat :
    /\ Parsed(s, k, nds) /\ At(place, s, k, w, dep, nd, p)
    /\ TokenAt(Wire(s), snt, lc, loc, rs, rd, p)

LEMMA ServedTake ==
  ASSUME NEW s, NEW snt, NEW lc, NEW place, NEW rs, NEW rd, NEW dep, NEW nd, NEW nds,
         Served(s, snt, lc, "call", place, rs, rd, dep, nd, nds)
  PROVE  Served(s, snt, lc, "test", place, IF lc = "" THEN <<>> ELSE <<lc>>, rd, dep, nd, nds)
<1>1. ASSUME NEW p, TokenAt(Wire(s), snt, lc, "call", rs, rd, p)
      PROVE  TokenAt(Wire(s), snt, lc, "test", IF lc = "" THEN <<>> ELSE <<lc>>, rd, p)
  BY <1>1, Zenon DEF TokenAt
<1> QED BY <1>1, Zenon DEF Served

LEMMA ServedTest ==
  ASSUME NEW s, NEW snt \in Nat, NEW lc, NEW place, NEW rs, NEW rd \in Nat, rd <= snt, NEW dep, NEW nd, NEW nds,
         Served(s, snt, lc, "test", place, rs, rd, dep, nd, nds)
  PROVE  Served(s, snt, "", IF lc = "" THEN "reading" ELSE "returned", place, rs, rd, dep, nd, nds)
<1>1. PICK k, w, p \in Nat : /\ Parsed(s, k, nds) /\ At(place, s, k, w, dep, nd, p)
                             /\ TokenAt(Wire(s), snt, lc, "test", rs, rd, p)
  BY Zenon DEF Served
<1>2. TokenAt(Wire(s), snt, "", IF lc = "" THEN "reading" ELSE "returned", rs, rd, p)
  BY <1>1, TestToken
<1> QED BY <1>1, <1>2, Zenon DEF Served

LEMMA ServedRead ==
  ASSUME NEW s \in Scripts, NEW snt \in Nat, snt <= Len(Wire(s)), NEW lc, NEW place, NEW rs,
         NEW rd \in Nat, rd < snt, NEW dep, NEW nd, NEW nds,
         Served(s, snt, lc, "reading", place, rs, rd, dep, nd, nds), NEW c, c = Wire(s)[rd + 1]
  PROVE  /\ c \in Bracket /\ rs = <<>> => Served(s, snt, "", "returned", place, <<c>>, rd + 1, dep, nd, nds)
         /\ c \in Bracket /\ rs # <<>> => Served(s, snt, c, "returned", place, rs, rd + 1, dep, nd, nds)
         /\ c \notin Bracket => Served(s, snt, lc, "reading", place, Append(rs, c), rd + 1, dep, nd, nds)
<1>1. PICK k, w, p \in Nat : /\ Parsed(s, k, nds) /\ At(place, s, k, w, dep, nd, p)
                             /\ TokenAt(Wire(s), snt, lc, "reading", rs, rd, p)
  BY Zenon DEF Served
<1>2. k \in 0..Len(s)
  BY <1>1 DEF Parsed
<1>3. Len(Wire(s)) \in Nat
  <2>1. s \in Seq(Seq(Symbols)) /\ Len(s) \in 0..Len(s)
    BY ScriptIs
  <2> QED BY <2>1, WireIs
<1>4. rd = p \/ rd = p + 1
  BY <1>1 DEF TokenAt, Half
<1>5. p + 1 <= Len(Wire(s))
  BY <1>3, <1>4
<1>6. Wire(s)[p + 1] \in Bracket \/ (p + 2 <= Len(Wire(s)) => Wire(s)[p + 2] \in Bracket)
  BY <1>1, <1>2, <1>3, <1>5, AtBracket
<1>7. p + 2 <= snt => p + 2 <= Len(Wire(s))
  BY <1>3
<1>8. /\ c \in Bracket /\ rs = <<>> => TokenAt(Wire(s), snt, "", "returned", <<c>>, rd + 1, p)
      /\ c \in Bracket /\ rs # <<>> => TokenAt(Wire(s), snt, c, "returned", rs, rd + 1, p)
      /\ c \notin Bracket => TokenAt(Wire(s), snt, lc, "reading", Append(rs, c), rd + 1, p)
  BY <1>1, <1>6, <1>7, ReadToken
<1> QED BY <1>1, <1>8, Zenon DEF Served

LEMMA ServedFail ==
  ASSUME NEW s, NEW snt, NEW lc, NEW place, NEW rs, NEW dep, NEW nd, NEW nds,
         Served(s, snt, lc, "reading", place, rs, snt, dep, nd, nds)
  PROVE  Served(s, snt, lc, "returned", place, <<>>, snt, dep, nd, nds)
<1>1. PICK k, w, p \in Nat : /\ Parsed(s, k, nds) /\ At(place, s, k, w, dep, nd, p)
                             /\ TokenAt(Wire(s), snt, lc, "reading", rs, snt, p)
  BY Zenon DEF Served
<1>2. TokenAt(Wire(s), snt, lc, "returned", <<>>, snt, p)
  BY <1>1, FailToken
<1> QED BY <1>1, <1>2, Zenon DEF Served

\* What a thread has when next_token has returned: nothing, or the next symbol.
LEMMA ServedReturn ==
  ASSUME NEW s, NEW snt, NEW lc, NEW place, NEW rs, NEW rd, NEW dep, NEW nd, NEW nds,
         Served(s, snt, lc, "returned", place, rs, rd, dep, nd, nds)
  PROVE  \E k, w, p \in Nat :
           /\ Parsed(s, k, nds) /\ At(place, s, k, w, dep, nd, p)
           /\ Gone(Wire(s), snt, lc, rs, p) \/ Taken(Wire(s), snt, lc, rs, rd, p)
<1>1. ASSUME NEW p, TokenAt(Wire(s), snt, lc, "returned", rs, rd, p)
      PROVE  Gone(Wire(s), snt, lc, rs, p) \/ Taken(Wire(s), snt, lc, rs, rd, p)
  BY <1>1 DEF TokenAt
<1> QED BY <1>1, Zenon DEF Served

LEMMA OneMore ==
  ASSUME NEW e, NEW w \in Nat
  PROVE  Append(FirstWords(e, w), <<e[w + 1]>>) = FirstWords(e, w + 1)
<1> DEFINE S == {<<e[i]>> : i \in 1..(w + 1)}
<1>1. FirstWords(e, w) \in [1..w -> S] /\ FirstWords(e, w + 1) \in [1..(w + 1) -> S] /\ <<e[w + 1]>> \in S
  BY DEF FirstWords
<1> HIDE DEF S
<1>2. FirstWords(e, w) \in Seq(S) /\ Len(FirstWords(e, w)) = w
  BY <1>1, SequenceIs
<1>3. FirstWords(e, w + 1) \in Seq(S) /\ Len(FirstWords(e, w + 1)) = w + 1
  BY <1>1, SequenceIs
<1>4. \A i \in 1..(w + 1) : Append(FirstWords(e, w), <<e[w + 1]>>)[i] = FirstWords(e, w + 1)[i]
  <2> SUFFICES ASSUME NEW i \in 1..(w + 1)
               PROVE  Append(FirstWords(e, w), <<e[w + 1]>>)[i] = FirstWords(e, w + 1)[i]
    OBVIOUS
  <2>1. CASE i \in 1..w
    <3>1. Append(FirstWords(e, w), <<e[w + 1]>>)[i] = FirstWords(e, w)[i]
      BY <1>1, <1>2, <2>1, AppendIs
    <3>2. FirstWords(e, w)[i] = <<e[i]>>
      BY <2>1, Zenon DEF FirstWords
    <3>3. FirstWords(e, w + 1)[i] = <<e[i]>>
      BY Zenon DEF FirstWords
    <3> QED BY <3>1, <3>2, <3>3, Zenon
  <2>2. CASE i = w + 1
    <3>1. Append(FirstWords(e, w), <<e[w + 1]>>)[i] = <<e[w + 1]>>
      BY <1>1, <1>2, <2>2, AppendIs
    <3> QED BY <2>2, <3>1 DEF FirstWords
  <2>3. i \in 1..w \/ i = w + 1
    OBVIOUS
  <2> QED BY <2>1, <2>2, <2>3, Zenon
<1>5. Append(FirstWords(e, w), <<e[w + 1]>>) \in Seq(S) /\ Len(Append(FirstWords(e, w), <<e[w + 1]>>)) = w + 1
  BY <1>1, <1>2, AppendProperties
<1> QED BY <1>3, <1>4, <1>5, SeqEqual

LEMMA ServedOuter ==
  ASSUME NEW s \in Scripts, NEW snt \in Nat, snt <= Len(Wire(s)), NEW lc, NEW rs, NEW rd, NEW dep, NEW nd, NEW nds,
         Served(s, snt, lc, "returned", "outer", rs, rd, dep, nd, nds), rs # <<>>
  PROVE  /\ rs = <<LT>> => Served(s, snt, lc, "call", "name", rs, rd, dep, nd, nds)
         /\ rs # <<LT>> => Served(s, snt, lc, "call", "outer", rs, rd, dep, IF dep > 0 THEN Append(nd, rs) ELSE nd, nds)
<1>1. PICK k, w, p \in Nat :
        /\ Parsed(s, k, nds) /\ At("outer", s, k, w, dep, nd, p)
        /\ Gone(Wire(s), snt, lc, rs, p) \/ Taken(Wire(s), snt, lc, rs, rd, p)
  BY ServedReturn
<1>2. rs = <<Wire(s)[p + 1]>> /\ Held(Wire(s), lc, rd, p + 1) /\ p + 1 <= snt
  BY <1>1 DEF Gone, Taken
<1>3. k \in 0..Len(s) /\ p + 1 \in Nat /\ w + 1 \in Nat
  BY <1>1 DEF Parsed
<1>4. p + 1 <= Len(Wire(s))
  <2>1. Len(Wire(s)) \in Nat
    <3>1. s \in Seq(Seq(Symbols)) /\ Len(s) \in 0..Len(s)
      BY ScriptIs
    <3> QED BY <3>1, WireIs
  <2> QED BY <1>2, <2>1
<1>5. PICK c : c = Wire(s)[p + 1]
  OBVIOUS
<1>6. (rs = <<LT>>) <=> c = LT
  BY <1>2, <1>5, OneIs
<1>7. TokenAt(Wire(s), snt, lc, "call", rs, rd, p + 1)
  BY <1>2 DEF TokenAt
<1>8. \A place, v, n : At(place, s, k, v, dep, n, p + 1) /\ v \in Nat => Served(s, snt, lc, "call", place, rs, rd, dep, n, nds)
  BY <1>1, <1>3, <1>7, Zenon DEF Served
<1>9. CASE Between(s, k, w, dep, nd, p)
  <2>1. dep = 0
    BY <1>9 DEF Between
  <2>2. \/ c = LT /\ InTag(s, k, w, dep, nd, p + 1)
        \/ c = NL /\ Between(s, k, w, dep, nd, p + 1)
    BY <1>3, <1>4, <1>5, <1>9, BetweenNext
  <2>3. (c = LT /\ At("name", s, k, w, dep, nd, p + 1)) \/ (c # LT /\ At("outer", s, k, w, dep, nd, p + 1))
    BY <2>2, BracketIs DEF At
  <2>4. (IF dep > 0 THEN Append(nd, rs) ELSE nd) = nd
    BY <2>1
  <2> QED BY <1>6, <1>8, <2>3, <2>4
<1>10. CASE Inside(s, k, w, dep, nd, p)
  <2>1. PICK e : e = s[k + 1]
    OBVIOUS
  <2>2. dep > 0 /\ e[w + 1] \notin Bracket
    <3>1. dep \in Nat /\ dep # 0 /\ e[w + 1] \notin Bracket
      BY <1>10, <2>1, InsideNext
    <3> QED BY <3>1
  <2>3. CASE e[w + 1] \notin Text
    <3>1. c = LT /\ InTag(s, k, w, dep, nd, p + 1)
      BY <1>5, <1>10, <2>1, <2>3, InsideNext
    <3>2. At("name", s, k, w, dep, nd, p + 1)
      BY <3>1 DEF At
    <3> QED BY <1>6, <1>8, <3>1, <3>2
  <2>4. CASE e[w + 1] \in Text
    <3>1. c = e[w + 1] /\ Inside(s, k, w + 1, dep, FirstWords(e, w + 1), p + 1)
      BY <1>5, <1>10, <2>1, <2>4, InsideNext
    <3>2. c # LT
      BY <2>2, <3>1, BracketIs
    <3>3. At("outer", s, k, w + 1, dep, FirstWords(e, w + 1), p + 1)
      BY <3>1 DEF At
    <3>4. nd = FirstWords(e, w)
      BY <1>10, <2>1 DEF Inside, Reading
    <3>5. (IF dep > 0 THEN Append(nd, rs) ELSE nd) = FirstWords(e, w + 1)
      BY <1>2, <1>5, <2>2, <3>1, <3>4, OneMore
    <3> QED BY <1>3, <1>6, <1>8, <3>2, <3>3, <3>5
  <2> QED BY <2>3, <2>4
<1> QED BY <1>1, <1>9, <1>10 DEF At

LEMMA ServedName ==
  ASSUME NEW s \in Scripts, NEW snt, NEW lc, NEW rs, NEW rd, NEW dep, NEW nd, NEW nds,
         Served(s, snt, lc, "returned", "name", rs, rd, dep, nd, nds), WellFormed(rs)
  PROVE  Served(s, snt, lc, "call", "bracket", rs, rd, dep + Delta(rs), Append(nd, rs), nds)
<1>1. PICK k, w, p \in Nat :
        /\ Parsed(s, k, nds) /\ At("name", s, k, w, dep, nd, p)
        /\ Gone(Wire(s), snt, lc, rs, p) \/ Taken(Wire(s), snt, lc, rs, rd, p)
  BY ServedReturn
<1>2. rs = <<Wire(s)[p + 1]>> /\ Held(Wire(s), lc, rd, p + 1)
  BY <1>1 DEF Gone, Taken, WellFormed
<1>3. InTag(s, k, w, dep, nd, p)
  BY <1>1 DEF At
<1>4. PICK e, c : e = s[k + 1] /\ c = e[w + 1]
  OBVIOUS
<1>5. Wire(s)[p + 1] = c
  BY <1>3, <1>4, InTagNext
<1>6. c \notin Malformed
  BY <1>2, <1>5, OneIs DEF WellFormed
<1>7. BehindName(s, k, w + 1, DepthBehind(dep, c), FirstWords(e, w + 1), p + 1)
  BY <1>3, <1>4, <1>6, InTagNext
<1>8. DepthBehind(dep, c) = dep + Delta(rs)
  BY <1>2, <1>5 DEF DepthBehind
<1>9. FirstWords(e, w + 1) = Append(nd, rs)
  <2>1. nd = FirstWords(e, w)
    BY <1>3, <1>4 DEF InTag, Reading
  <2> QED BY <1>1, <1>2, <1>4, <1>5, <2>1, OneMore
<1>10. At("bracket", s, k, w + 1, dep + Delta(rs), Append(nd, rs), p + 1)
  BY <1>7, <1>8, <1>9 DEF At
<1>11. TokenAt(Wire(s), snt, lc, "call", rs, rd, p + 1)
  BY <1>2 DEF TokenAt
<1>12. w + 1 \in Nat /\ p + 1 \in Nat
  BY <1>1
<1> QED BY <1>1, <1>10, <1>11, <1>12, Zenon DEF Served

LEMMA ParsedMore ==
  ASSUME NEW s \in Scripts, NEW k \in Nat, NEW nds, Parsed(s, k, nds), k + 1 \in 1..Len(s), Good(s[k + 1])
  PROVE  Parsed(s, k + 1, Append(nds, NodeOf(s[k + 1])))
<1> DEFINE S == {NodeOf(s[i]) : i \in 1..(k + 1)}
<1>1. FirstNodes(s, k) \in [1..k -> S] /\ FirstNodes(s, k + 1) \in [1..(k + 1) -> S] /\ NodeOf(s[k + 1]) \in S
  BY DEF FirstNodes
<1> HIDE DEF S
<1>2. FirstNodes(s, k) \in Seq(S) /\ Len(FirstNodes(s, k)) = k
  BY <1>1, SequenceIs
<1>3. FirstNodes(s, k + 1) \in Seq(S) /\ Len(FirstNodes(s, k + 1)) = k + 1
  BY <1>1, SequenceIs
<1>4. \A i \in 1..(k + 1) : Append(FirstNodes(s, k), NodeOf(s[k + 1]))[i] = FirstNodes(s, k + 1)[i]
  <2> SUFFICES ASSUME NEW i \in 1..(k + 1)
               PROVE  Append(FirstNodes(s, k), NodeOf(s[k + 1]))[i] = FirstNodes(s, k + 1)[i]
    OBVIOUS
  <2>1. CASE i \in 1..k
    <3>1. Append(FirstNodes(s, k), NodeOf(s[k + 1]))[i] = FirstNodes(s, k)[i]
      BY <1>1, <1>2, <2>1, AppendIs
    <3>2. FirstNodes(s, k)[i] = NodeOf(s[i])
      BY <2>1, Zenon DEF FirstNodes
    <3>3. FirstNodes(s, k + 1)[i] = NodeOf(s[i])
      BY Zenon DEF FirstNodes
    <3> QED BY <3>1, <3>2, <3>3, Zenon
  <2>2. CASE i = k + 1
    <3>1. Append(FirstNodes(s, k), NodeOf(s[k + 1]))[i] = NodeOf(s[k + 1])
      BY <1>1, <1>2, <2>2, AppendIs
    <3> QED BY <2>2, <3>1 DEF FirstNodes
  <2>3. i \in 1..k \/ i = k + 1
    OBVIOUS
  <2> QED BY <2>1, <2>2, <2>3, Zenon
<1>5. Append(FirstNodes(s, k), NodeOf(s[k + 1])) \in Seq(S) /\ Len(Append(FirstNodes(s, k), NodeOf(s[k + 1]))) = k + 1
  BY <1>1, <1>2, AppendProperties
<1>6. Append(nds, NodeOf(s[k + 1])) = FirstNodes(s, k + 1)
  <2>1. nds = FirstNodes(s, k)
    BY DEF Parsed
  <2> QED BY <1>3, <1>4, <1>5, <2>1, SeqEqual
<1>7. AreGood(s, k + 1)
  <2>1. \A i \in 1..(k + 1) : i \in 1..k \/ i = k + 1
    OBVIOUS
  <2>2. \A i \in 1..k : Good(s[i])
    BY DEF Parsed, AreGood
  <2> QED BY <2>1, <2>2 DEF AreGood
<1>8. k + 1 \in 0..Len(s)
  OBVIOUS
<1> QED BY <1>6, <1>7, <1>8 DEF Parsed

LEMMA ServedBracket ==
  ASSUME NEW s \in Scripts, NEW snt, NEW lc, NEW rs, NEW rd, NEW dep, NEW nd, NEW nds,
         Served(s, snt, lc, "returned", "bracket", rs, rd, dep, nd, nds), rs = <<GT>>
  PROVE  /\ dep = 0 => Served(s, snt, lc, "call", "outer", rs, rd, dep, <<>>, Append(nds, nd))
         /\ dep # 0 => Served(s, snt, lc, "call", "outer", rs, rd, dep, nd, nds)
<1>1. PICK k, w, p \in Nat :
        /\ Parsed(s, k, nds) /\ At("bracket", s, k, w, dep, nd, p)
        /\ Gone(Wire(s), snt, lc, rs, p) \/ Taken(Wire(s), snt, lc, rs, rd, p)
  BY ServedReturn
<1>2. rs = <<Wire(s)[p + 1]>> /\ Held(Wire(s), lc, rd, p + 1)
  BY <1>1, OneIs DEF Gone, Taken
<1>3. BehindName(s, k, w, dep, nd, p)
  BY <1>1 DEF At
<1>4. PICK e : e = s[k + 1]
  OBVIOUS
<1>5. TokenAt(Wire(s), snt, lc, "call", rs, rd, p + 1)
  BY <1>2 DEF TokenAt
<1>6. p + 1 \in Nat /\ k + 1 \in Nat /\ 0 \in Nat
  BY <1>1
<1>7. ASSUME dep = 0 PROVE Served(s, snt, lc, "call", "outer", rs, rd, dep, <<>>, Append(nds, nd))
  <2>1. nd = NodeOf(e) /\ Good(e) /\ k + 1 \in 1..Len(s) /\ Between(s, k + 1, 0, dep, <<>>, p + 1)
    BY <1>3, <1>4, <1>7, BehindNameNext
  <2>2. Parsed(s, k + 1, Append(nds, nd))
    BY <1>1, <1>4, <2>1, ParsedMore
  <2>3. At("outer", s, k + 1, 0, dep, <<>>, p + 1)
    BY <2>1 DEF At
  <2> QED BY <1>5, <1>6, <2>2, <2>3, Zenon DEF Served
<1>8. ASSUME dep # 0 PROVE Served(s, snt, lc, "call", "outer", rs, rd, dep, nd, nds)
  <2>1. Inside(s, k, w, dep, nd, p + 1)
    BY <1>3, <1>4, <1>8, BehindNameNext
  <2>2. At("outer", s, k, w, dep, nd, p + 1)
    BY <2>1 DEF At
  <2> QED BY <1>1, <1>5, <1>6, <2>2, Zenon DEF Served
<1> QED BY <1>7, <1>8

\* Where read_node gives up.
Fails(place, rs, dep) ==
  \/ place = "outer" /\ rs = <<>>
  \/ place = "name" /\ (~WellFormed(rs) \/ (Closes(rs) /\ dep = 0))
  \/ place = "bracket" /\ rs # <<GT>>

LEMMA ServedEnd ==
  ASSUME NEW t, NEW s \in Scripts, s = script[t], NEW snt \in Nat, snt = sent[t], snt <= Len(Wire(s)),
         NEW lc, NEW place, NEW rs, NEW rd \in Nat, rd <= snt, NEW dep, NEW nd, NEW nds,
         Served(s, snt, lc, "returned", place, rs, rd, dep, nd, nds), Fails(place, rs, dep)
  PROVE  nds = NodesSent(t) /\ lc \in {"", GT}
<1>1. PICK k, w, p \in Nat :
        /\ Parsed(s, k, nds) /\ At(place, s, k, w, dep, nd, p) /\ TokenAt(Wire(s), snt, lc, "returned", rs, rd, p)
  BY Zenon DEF Served
<1>2. Gone(Wire(s), snt, lc, rs, p) \/ Taken(Wire(s), snt, lc, rs, rd, p)
  BY <1>1 DEF TokenAt
<1>3. k \in 0..Len(s) /\ nds = FirstNodes(s, k) /\ AreGood(s, k)
  BY <1>1 DEF Parsed
<1>4. Base(s)[k] <= snt + 1
  BY <1>1, <1>3, Begun
<1>5. ASSUME k = Len(s) \/ (k < Len(s) /\ (~Good(s[k + 1]) \/ Base(s)[k + 1] > snt + 1))
      PROVE  nds = NodesSent(t)
  BY <1>3, <1>4, <1>5, AllSent
<1>6. CASE Gone(Wire(s), snt, lc, rs, p)
  <2>1. k = Len(s) \/ (k < Len(s) /\ Base(s)[k + 1] > snt + 1)
    BY <1>1, <1>3, <1>6, NotYet
  <2>2. lc = ""
    BY <1>6 DEF Gone
  <2> QED BY <1>5, <2>1, <2>2
<1>7. CASE Taken(Wire(s), snt, lc, rs, rd, p)
  <2>1. rs = <<Wire(s)[p + 1]>> /\ Held(Wire(s), lc, rd, p + 1)
    BY <1>7 DEF Taken
  <2>2. PICK c, e : c = Wire(s)[p + 1] /\ e = s[k + 1]
    OBVIOUS
  <2>3. rs = <<c>> /\ rs # <<>> /\ Len(rs) = 1 /\ rs[1] = c
    BY <2>1, <2>2, OneIs
  <2>4. CASE place = "outer"
    BY <2>3, <2>4 DEF Fails
  <2>5. CASE place = "bracket"
    <3>1. BehindName(s, k, w, dep, nd, p)
      BY <1>1, <2>5 DEF At
    <3>2. c = GT
      BY <2>2, <3>1, BehindNameNext
    <3> QED BY <2>3, <2>5, <3>2 DEF Fails
  <2>6. CASE place = "name"
    <3>1. InTag(s, k, w, dep, nd, p)
      BY <1>1, <2>6 DEF At
    <3>2. PICK d : d = e[w + 1]
      OBVIOUS
    <3>3. c = d /\ dep \in Nat /\ (d \in Closing => dep # 0) /\ Ahead(s, p, GT)
      BY <2>2, <3>1, <3>2, InTagNext
    <3>4. c \in Malformed
      <4>1. ~WellFormed(rs) \/ (Closes(rs) /\ dep = 0)
        BY <2>6 DEF Fails
      <4> QED BY <2>3, <3>3, <4>1 DEF WellFormed, Closes
    <3>5. /\ k \in 0..(Len(s) - 1) /\ w \in 0..Len(e) /\ w < Len(e)
      BY <2>2, <3>1 DEF InTag, Reading
    <3>6. k + 1 \in 1..Len(s) /\ k < Len(s)
      BY <3>5, ScriptIs
    <3>7. w + 1 \in 1..Len(e)
      <4>1. Len(e) \in Nat
        BY <2>2, <3>6, ScriptIs
      <4> QED BY <3>5, <4>1
    <3>8. ~Good(e)
      BY <3>2, <3>3, <3>4, <3>7 DEF Good
    <3>9. lc \in {"", GT}
      <4>1. (p + 1) + 1 = p + 2
        BY <1>1
      <4>2. lc = "" \/ lc = Wire(s)[p + 2]
        BY <2>1, <4>1, Zenon DEF Held
      <4> QED BY <3>3, <4>2, Zenon DEF Ahead
    <3> QED BY <1>5, <2>2, <3>6, <3>8, <3>9
  <2> QED BY <2>4, <2>5, <2>6 DEF Fails
<1> QED BY <1>2, <1>6, <1>7

-----------------------------------------------------------------------------
(* One connection is served at a time                                      *)

Busy == {"call", "test", "reading", "returned"}

\* A thread that has got nothing yet, and one that still gets the ">" that a tag that was
\* not well formed left of the connection before.
Blank(t) == nodes[t] = <<>> /\ node[t] = <<>> /\ depth[t] = 0 /\ where[t] = "outer" /\ read[t] = 0
Stale(t) ==
  /\ Blank(t)
  /\ \/ pc[t] = "call" /\ lastChar = GT
     \/ pc[t] = "test" /\ lastChar = GT /\ res[t] = <<GT>>
     \/ pc[t] = "returned" /\ lastChar = "" /\ res[t] = <<GT>>

Serving(t) ==
  Served(script[t], sent[t], lastChar, pc[t], where[t], res[t], read[t], depth[t], node[t], nodes[t])

Claim(t) ==
  \/ pc[t] = "waiting" /\ Blank(t)
  \/ pc[t] = "closed" /\ nodes[t] = NodesSent(t)
  \/ pc[t] \in Busy /\ (Stale(t) \/ Serving(t))

XmlTypes ==
  /\ script \in [Threads -> Scripts] /\ sent \in [Threads -> Nat] /\ read \in [Threads -> Nat]
  /\ \A t \in Threads : read[t] <= sent[t] /\ sent[t] <= Len(Wire(script[t]))
  /\ DOMAIN pc = Threads /\ DOMAIN where = Threads /\ DOMAIN res = Threads
  /\ DOMAIN depth = Threads /\ DOMAIN node = Threads /\ DOMAIN nodes = Threads

OneServed == \A t, u \in Threads : pc[t] \in Busy /\ pc[u] \in Busy => t = u
NoBracketLeft == (\A t \in Threads : pc[t] \notin Busy) => lastChar \in {"", GT}

XmlInv == XmlTypes /\ (\A t \in Threads : Claim(t)) /\ OneServed /\ NoBracketLeft

\* What a step of t leaves as it was.
Same(u) ==
  /\ pc'[u] = pc[u] /\ where'[u] = where[u] /\ res'[u] = res[u] /\ depth'[u] = depth[u]
  /\ node'[u] = node[u] /\ nodes'[u] = nodes[u] /\ read'[u] = read[u]

LEMMA Elsewhere ==
  ASSUME XmlInv, input' = input, NEW t \in Threads, \A u \in Threads \ {t} : Same(u) /\ pc[u] \notin Busy,
         XmlTypes', Claim(t)', pc'[t] \in Busy \/ lastChar' \in {"", GT}
  PROVE  XmlInv'
<1>1. ASSUME NEW u \in Threads PROVE Claim(u)'
  <2>1. CASE u = t
    BY <2>1
  <2>2. CASE u # t
    <3>1. Same(u) /\ pc[u] \notin Busy
      BY <2>2
    <3>2. Claim(u)
      BY DEF XmlInv
    <3>3. CASE pc[u] = "waiting" /\ Blank(u)
      BY <3>1, <3>3, Zenon DEF Claim, Blank, Same
    <3>4. CASE pc[u] = "closed" /\ nodes[u] = NodesSent(u)
      <4>1. NodesSent(u)' = NodesSent(u)
        BY Zenon DEF NodesSent, input
      <4> QED BY <3>1, <3>4, <4>1, Zenon DEF Claim, Same
    <3> QED BY <3>1, <3>2, <3>3, <3>4, Zenon DEF Claim
  <2> QED BY <2>1, <2>2
<1>2. OneServed'
  <2>1. \A u \in Threads : pc'[u] \in Busy => u = t
    BY Zenon DEF Same, Busy
  <2> QED BY <2>1, Zenon DEF OneServed, Busy
<1>3. NoBracketLeft'
  BY DEF NoBracketLeft, Busy
<1> QED BY <1>1, <1>2, <1>3 DEF XmlInv

\* The others are not served while t is.
LEMMA Alone ==
  ASSUME XmlInv, NEW t \in Threads, pc[t] \in Busy, NEW u \in Threads, u # t
  PROVE  pc[u] \notin Busy
BY DEF XmlInv, OneServed

LEMMA BusyIs ==
  /\ "call" \in Busy /\ "test" \in Busy /\ "reading" \in Busy /\ "returned" \in Busy
  /\ "waiting" \notin Busy /\ "closed" \notin Busy
BY DEF Busy

LEMMA TypesOf ==
  ASSUME XmlInv, NEW t \in Threads
  PROVE  /\ script[t] \in Scripts /\ sent[t] \in Nat /\ read[t] \in Nat /\ read[t] <= sent[t]
         /\ sent[t] <= Len(Wire(script[t]))
BY DEF XmlInv, XmlTypes

LEMMA ServedClaim ==
  ASSUME XmlInv, NEW t \in Threads, pc[t] \in Busy
  PROVE  Stale(t) \/ Serving(t)
<1>1. Claim(t)
  BY DEF XmlInv
<1> QED BY <1>1, BusyIs, Zenon DEF Claim

\* The symbols of a connection at its beginning.
LEMMA ServedFirst ==
  ASSUME NEW s \in Scripts, NEW snt, NEW rs
  PROVE  Served(s, snt, "", "call", "outer", rs, 0, 0, <<>>, <<>>)
<1>1. s \in Seq(Seq(Symbols)) /\ Len(s) \in Nat /\ 0 \in 0..Len(s)
  BY ScriptIs
<1>2. Base(s)[0] = 0
  BY <1>1, WireIs
<1>3. FirstNodes(s, 0) = <<>> /\ AreGood(s, 0)
  <2>1. 1..0 = {}
    OBVIOUS
  <2> QED BY <2>1 DEF FirstNodes, AreGood
<1>4. Parsed(s, 0, <<>>)
  BY <1>1, <1>3 DEF Parsed
<1>5. At("outer", s, 0, 0, 0, <<>>, 0)
  BY <1>2 DEF At, Between
<1>6. TokenAt(Wire(s), snt, "", "call", rs, 0, 0)
  BY Zenon DEF TokenAt, Held
<1>7. 0 \in Nat
  OBVIOUS
<1> QED BY <1>4, <1>5, <1>6, <1>7, Zenon DEF Served

-----------------------------------------------------------------------------
(* The steps                                                               *)

LEMMA AcceptKeeps ==
  ASSUME XmlInv, Concurrent = FALSE, NEW t \in Threads, Accept(t)
  PROVE  XmlInv'
<1>1. /\ pc[t] = "waiting" /\ (\A u \in Threads : pc[u] \in {"waiting", "closed"})
      /\ pc' = [pc EXCEPT ![t] = "call"]
      /\ UNCHANGED <<lastChar, input, read, where, res, depth, node, nodes>>
  BY DEF Accept
<1>2. XmlTypes'
  BY <1>1 DEF XmlInv, XmlTypes, input
<1>3. \A u \in Threads \ {t} : Same(u) /\ pc[u] \notin Busy
  BY <1>1 DEF XmlInv, XmlTypes, Same, Busy
<1>4. pc'[t] = "call"
  BY <1>1 DEF XmlInv, XmlTypes
<1>5. Blank(t) /\ Blank(t)'
  <2>1. Blank(t)
    <3>1. Claim(t)
      BY DEF XmlInv
    <3> QED BY <1>1, <3>1 DEF Claim, Busy
  <2> QED BY <1>1, <2>1 DEF Blank
<1>6. lastChar \in {"", GT}
  BY <1>1, <1>3 DEF XmlInv, NoBracketLeft, Busy
<1>7. CASE lastChar = GT
  <2>1. Stale(t)'
    BY <1>1, <1>4, <1>5, <1>7 DEF Stale
  <2>2. Claim(t)'
    BY <1>4, <2>1, BusyIs, Zenon DEF Claim
  <2> QED BY <1>1, <1>2, <1>3, <1>4, <2>2, BusyIs, Elsewhere
<1>8. CASE lastChar = ""
  <2>1. Served(script[t], sent[t], "", "call", "outer", res[t], 0, 0, <<>>, <<>>)
    BY TypesOf, ServedFirst
  <2>2. Serving(t)'
    BY <1>1, <1>4, <1>5, <1>8, <2>1, Zenon DEF Serving, Blank, input
  <2>3. Claim(t)'
    BY <1>4, <2>2, BusyIs, Zenon DEF Claim
  <2> QED BY <1>1, <1>2, <1>3, <1>4, <2>3, BusyIs, Elsewhere
<1> QED BY <1>6, <1>7, <1>8

LEMMA TakeKeeps ==
  ASSUME XmlInv, NEW t \in Threads, TakeLastChar(t)
  PROVE  XmlInv'
<1>1. /\ pc[t] = "call"
      /\ res' = [res EXCEPT ![t] = IF lastChar = "" THEN <<>> ELSE <<lastChar>>]
      /\ pc' = [pc EXCEPT ![t] = "test"]
      /\ UNCHANGED <<lastChar, input, read, where, depth, node, nodes>>
  BY DEF TakeLastChar
<1>2. XmlTypes'
  BY <1>1 DEF XmlInv, XmlTypes, input
<1>3. \A u \in Threads \ {t} : Same(u) /\ pc[u] \notin Busy
  BY <1>1, Alone, BusyIs DEF XmlInv, XmlTypes, Same
<1>4. pc'[t] = "test" /\ res'[t] = IF lastChar = "" THEN <<>> ELSE <<lastChar>>
  BY <1>1 DEF XmlInv, XmlTypes
<1>5. Stale(t)' \/ Serving(t)'
  <2>1. CASE Stale(t)
    <3>1. Blank(t)' /\ lastChar = GT
      BY <1>1, <2>1, Zenon DEF Stale, Blank
    <3>2. GT # ""
      BY DEF GT
    <3> QED BY <1>1, <1>4, <3>1, <3>2, Zenon DEF Stale
  <2>2. CASE Serving(t)
    <3>1. Served(script[t], sent[t], lastChar, "call", where[t], res[t], read[t], depth[t], node[t], nodes[t])
      BY <1>1, <2>2, Zenon DEF Serving
    <3>2. Served(script[t], sent[t], lastChar, "test", where[t], IF lastChar = "" THEN <<>> ELSE <<lastChar>>,
                 read[t], depth[t], node[t], nodes[t])
      BY <3>1, ServedTake, Zenon
    <3> QED BY <1>1, <1>4, <3>2, Zenon DEF Serving, input
  <2> QED BY <1>1, <2>1, <2>2, ServedClaim, BusyIs
<1>6. Claim(t)'
  BY <1>4, <1>5, BusyIs, Zenon DEF Claim
<1> QED BY <1>1, <1>2, <1>3, <1>4, <1>6, BusyIs, Elsewhere

LEMMA TestKeeps ==
  ASSUME XmlInv, NEW t \in Threads, TestLastChar(t)
  PROVE  XmlInv'
<1>1. /\ pc[t] = "test"
      /\ pc' = [pc EXCEPT ![t] = IF lastChar = "" THEN "reading" ELSE "returned"]
      /\ lastChar' = ""
      /\ UNCHANGED <<input, read, where, res, depth, node, nodes>>
  BY DEF TestLastChar
<1>2. XmlTypes'
  BY <1>1 DEF XmlInv, XmlTypes, input
<1>3. \A u \in Threads \ {t} : Same(u) /\ pc[u] \notin Busy
  BY <1>1, Alone, BusyIs DEF XmlInv, XmlTypes, Same
<1>4. pc'[t] = IF lastChar = "" THEN "reading" ELSE "returned"
  BY <1>1 DEF XmlInv, XmlTypes
<1>5. Stale(t)' \/ Serving(t)'
  <2>1. CASE Stale(t)
    <3>1. Blank(t)' /\ lastChar = GT /\ res[t] = <<GT>>
      BY <1>1, <2>1, Zenon DEF Stale, Blank
    <3>2. GT # ""
      BY DEF GT
    <3> QED BY <1>1, <1>4, <3>1, <3>2, Zenon DEF Stale
  <2>2. CASE Serving(t)
    <3>1. Served(script[t], sent[t], lastChar, "test", where[t], res[t], read[t], depth[t], node[t], nodes[t])
      BY <1>1, <2>2, Zenon DEF Serving
    <3>2. Served(script[t], sent[t], "", IF lastChar = "" THEN "reading" ELSE "returned", where[t], res[t],
                 read[t], depth[t], node[t], nodes[t])
      BY <3>1, TypesOf, ServedTest, Zenon
    <3> QED BY <1>1, <1>4, <3>2, Zenon DEF Serving, input
  <2> QED BY <1>1, <2>1, <2>2, ServedClaim, BusyIs
<1>6. pc'[t] \in Busy
  BY <1>4, BusyIs
<1>7. Claim(t)'
  BY <1>5, <1>6, Zenon DEF Claim
<1> QED BY <1>1, <1>2, <1>3, <1>6, <1>7, Elsewhere

LEMMA ReadKeeps ==
  ASSUME XmlInv, NEW t \in Threads, ReadChar(t)
  PROVE  XmlInv'
<1> DEFINE s == script[t]
           c == Wire(s)[read[t] + 1]
<1>1. /\ pc[t] = "reading" /\ read[t] < sent[t] /\ read' = [read EXCEPT ![t] = read[t] + 1]
      /\ UNCHANGED <<input, where, depth, node, nodes>>
  BY DEF ReadChar
<1>2. \/ /\ c \in Bracket /\ res[t] = <<>> /\ res' = [res EXCEPT ![t] = <<c>>]
         /\ lastChar' = "" /\ pc' = [pc EXCEPT ![t] = "returned"]
      \/ /\ c \in Bracket /\ res[t] # <<>> /\ res' = res
         /\ lastChar' = c /\ pc' = [pc EXCEPT ![t] = "returned"]
      \/ /\ c \notin Bracket /\ res' = [res EXCEPT ![t] = Append(res[t], c)]
         /\ lastChar' = lastChar /\ pc' = pc
  BY Zenon DEF ReadChar
<1> HIDE DEF c
<1>3. DOMAIN pc' = Threads /\ DOMAIN res' = Threads
  BY <1>2 DEF XmlInv, XmlTypes
<1>4. XmlTypes'
  <2>1. read' \in [Threads -> Nat] /\ read'[t] <= sent[t] /\ \A u \in Threads : u # t => read'[u] = read[u]
    BY <1>1, TypesOf DEF XmlInv, XmlTypes
  <2>2. \A u \in Threads : read'[u] <= sent[u]
    BY <2>1, TypesOf
  <2> QED BY <1>1, <1>3, <2>1, <2>2 DEF XmlInv, XmlTypes, input
<1>5. \A u \in Threads \ {t} : Same(u) /\ pc[u] \notin Busy
  <2>1. \A u \in Threads \ {t} : pc[u] \notin Busy
    BY <1>1, Alone, BusyIs
  <2>2. \A u \in Threads \ {t} : pc'[u] = pc[u] /\ res'[u] = res[u] /\ read'[u] = read[u]
    BY <1>1, <1>2 DEF XmlInv, XmlTypes
  <2> QED BY <1>1, <2>1, <2>2, Zenon DEF Same
<1>6. Serving(t)
  <2>1. ~Stale(t)
    BY <1>1 DEF Stale
  <2> QED BY <1>1, <2>1, ServedClaim, BusyIs
<1>7. Served(s, sent[t], lastChar, "reading", where[t], res[t], read[t], depth[t], node[t], nodes[t])
  BY <1>1, <1>6, Zenon DEF Serving
<1>8. /\ c \in Bracket /\ res[t] = <<>> =>
           Served(s, sent[t], "", "returned", where[t], <<c>>, read[t] + 1, depth[t], node[t], nodes[t])
      /\ c \in Bracket /\ res[t] # <<>> =>
           Served(s, sent[t], c, "returned", where[t], res[t], read[t] + 1, depth[t], node[t], nodes[t])
      /\ c \notin Bracket =>
           Served(s, sent[t], lastChar, "reading", where[t], Append(res[t], c), read[t] + 1, depth[t], node[t], nodes[t])
  BY <1>1, <1>7, TypesOf, ServedRead DEF c
<1>9. read'[t] = read[t] + 1 /\ script' = script /\ sent' = sent
  BY <1>1 DEF XmlInv, XmlTypes, input
<1>10. \/ /\ c \in Bracket /\ res[t] = <<>> /\ res'[t] = <<c>> /\ lastChar' = "" /\ pc'[t] = "returned"
       \/ /\ c \in Bracket /\ res[t] # <<>> /\ res'[t] = res[t] /\ lastChar' = c /\ pc'[t] = "returned"
       \/ /\ c \notin Bracket /\ res'[t] = Append(res[t], c) /\ lastChar' = lastChar /\ pc'[t] = "reading"
  BY <1>1, <1>2 DEF XmlInv, XmlTypes
<1>11. Serving(t)' /\ pc'[t] \in Busy
  BY <1>1, <1>8, <1>9, <1>10, BusyIs, Zenon DEF Serving
<1>12. Claim(t)'
  BY <1>11, Zenon DEF Claim
<1> QED BY <1>1, <1>4, <1>5, <1>11, <1>12, Elsewhere

LEMMA ReadFailsKeeps ==
  ASSUME XmlInv, NEW t \in Threads, ReadFails(t)
  PROVE  XmlInv'
<1>1. /\ pc[t] = "reading" /\ read[t] = sent[t]
      /\ res' = [res EXCEPT ![t] = <<>>]
      /\ pc' = [pc EXCEPT ![t] = "returned"]
      /\ UNCHANGED <<lastChar, input, read, where, depth, node, nodes>>
  BY DEF ReadFails
<1>2. XmlTypes'
  BY <1>1 DEF XmlInv, XmlTypes, input
<1>3. \A u \in Threads \ {t} : Same(u) /\ pc[u] \notin Busy
  BY <1>1, Alone, BusyIs DEF XmlInv, XmlTypes, Same
<1>4. pc'[t] = "returned" /\ res'[t] = <<>>
  BY <1>1 DEF XmlInv, XmlTypes
<1>5. Serving(t)
  <2>1. ~Stale(t)
    BY <1>1 DEF Stale
  <2> QED BY <1>1, <2>1, ServedClaim, BusyIs
<1>6. Served(script[t], sent[t], lastChar, "reading", where[t], res[t], sent[t], depth[t], node[t], nodes[t])
  BY <1>1, <1>5, Zenon DEF Serving
<1>7. Served(script[t], sent[t], lastChar, "returned", where[t], <<>>, sent[t], depth[t], node[t], nodes[t])
  BY <1>6, ServedFail, Zenon
<1>8. Serving(t)'
  BY <1>1, <1>4, <1>7, Zenon DEF Serving, input
<1>9. Claim(t)'
  BY <1>4, <1>8, BusyIs, Zenon DEF Claim
<1> QED BY <1>1, <1>2, <1>3, <1>4, <1>9, BusyIs, Elsewhere

LEMMA OuterKeeps ==
  ASSUME XmlInv, NEW t \in Threads, ParseOuter(t)
  PROVE  XmlInv'
<1>1. /\ pc[t] = "returned" /\ where[t] = "outer" /\ res[t] # <<>>
      /\ pc' = [pc EXCEPT ![t] = "call"]
      /\ UNCHANGED <<lastChar, input, read, res, depth, nodes>>
  BY Zenon DEF ParseOuter, Returned, Continue
<1>2. \/ res[t] = <<LT>> /\ where' = [where EXCEPT ![t] = "name"] /\ node' = node
      \/ /\ res[t] # <<LT>> /\ where' = [where EXCEPT ![t] = "outer"]
         /\ node' = IF depth[t] > 0 THEN [node EXCEPT ![t] = Append(node[t], res[t])] ELSE node
  BY Zenon DEF ParseOuter, Continue, LT
<1>3. DOMAIN pc' = Threads /\ DOMAIN where' = Threads /\ DOMAIN node' = Threads
  BY <1>1, <1>2 DEF XmlInv, XmlTypes
<1>4. XmlTypes'
  BY <1>1, <1>3 DEF XmlInv, XmlTypes, input
<1>5. \A u \in Threads \ {t} : Same(u) /\ pc[u] \notin Busy
  <2>1. \A u \in Threads \ {t} : pc[u] \notin Busy
    BY <1>1, Alone, BusyIs
  <2>2. \A u \in Threads \ {t} : pc'[u] = pc[u] /\ where'[u] = where[u] /\ node'[u] = node[u]
    BY <1>1, <1>2 DEF XmlInv, XmlTypes
  <2> QED BY <1>1, <2>1, <2>2, Zenon DEF Same
<1>6. /\ pc'[t] = "call"
      /\ res[t] = <<LT>> => where'[t] = "name" /\ node'[t] = node[t]
      /\ res[t] # <<LT>> =>
           where'[t] = "outer" /\ node'[t] = IF depth[t] > 0 THEN Append(node[t], res[t]) ELSE node[t]
  BY <1>1, <1>2 DEF XmlInv, XmlTypes
<1>7. Serving(t)'
  <2>1. CASE Stale(t)
    <3>1. lastChar = "" /\ res[t] = <<GT>> /\ Blank(t)
      BY <1>1, <2>1 DEF Stale
    <3>2. res[t] # <<LT>>
      BY <3>1, BracketIs, OneIs
    <3>3. depth[t] = 0 /\ node[t] = <<>> /\ nodes[t] = <<>> /\ read[t] = 0
      BY <3>1 DEF Blank
    <3>4. node'[t] = <<>>
      BY <1>6, <3>2, <3>3
    <3>5. Served(script[t], sent[t], "", "call", "outer", res[t], 0, 0, <<>>, <<>>)
      BY TypesOf, ServedFirst
    <3> QED BY <1>1, <1>6, <3>1, <3>2, <3>3, <3>4, <3>5, Zenon DEF Serving, input
  <2>2. CASE Serving(t)
    <3>1. Served(script[t], sent[t], lastChar, "returned", "outer", res[t], read[t], depth[t], node[t], nodes[t])
      BY <1>1, <2>2, Zenon DEF Serving
    <3>2. /\ res[t] = <<LT>> =>
               Served(script[t], sent[t], lastChar, "call", "name", res[t], read[t], depth[t], node[t], nodes[t])
          /\ res[t] # <<LT>> =>
               Served(script[t], sent[t], lastChar, "call", "outer", res[t], read[t], depth[t],
                      IF depth[t] > 0 THEN Append(node[t], res[t]) ELSE node[t], nodes[t])
      BY <1>1, <3>1, TypesOf, ServedOuter
    <3> QED BY <1>1, <1>6, <3>2, Zenon DEF Serving, input
  <2> QED BY <1>1, <2>1, <2>2, ServedClaim, BusyIs
<1>8. Claim(t)'
  BY <1>6, <1>7, BusyIs, Zenon DEF Claim
<1> QED BY <1>1, <1>4, <1>5, <1>6, <1>8, BusyIs, Elsewhere

LEMMA NameKeeps ==
  ASSUME XmlInv, NEW t \in Threads, ParseName(t)
  PROVE  XmlInv'
<1>1. /\ pc[t] = "returned" /\ where[t] = "name" /\ WellFormed(res[t])
      /\ node' = [node EXCEPT ![t] = Append(node[t], res[t])]
      /\ depth' = [depth EXCEPT ![t] = depth[t] + Delta(res[t])]
      /\ where' = [where EXCEPT ![t] = "bracket"]
      /\ pc' = [pc EXCEPT ![t] = "call"]
      /\ UNCHANGED <<lastChar, input, read, res, nodes>>
  BY Zenon DEF ParseName, Returned, Continue
<1>2. XmlTypes'
  BY <1>1 DEF XmlInv, XmlTypes, input
<1>3. \A u \in Threads \ {t} : Same(u) /\ pc[u] \notin Busy
  BY <1>1, Alone, BusyIs DEF XmlInv, XmlTypes, Same
<1>4. /\ pc'[t] = "call" /\ where'[t] = "bracket"
      /\ node'[t] = Append(node[t], res[t]) /\ depth'[t] = depth[t] + Delta(res[t])
  BY <1>1 DEF XmlInv, XmlTypes
<1>5. Serving(t)
  <2>1. ~Stale(t)
    BY <1>1 DEF Stale, Blank
  <2> QED BY <1>1, <2>1, ServedClaim, BusyIs
<1>6. Served(script[t], sent[t], lastChar, "returned", "name", res[t], read[t], depth[t], node[t], nodes[t])
  BY <1>1, <1>5, Zenon DEF Serving
<1>7. Served(script[t], sent[t], lastChar, "call", "bracket", res[t], read[t],
             depth[t] + Delta(res[t]), Append(node[t], res[t]), nodes[t])
  BY <1>1, <1>6, TypesOf, ServedName
<1>8. Serving(t)'
  BY <1>1, <1>4, <1>7, Zenon DEF Serving, input
<1>9. Claim(t)'
  BY <1>4, <1>8, BusyIs, Zenon DEF Claim
<1> QED BY <1>1, <1>2, <1>3, <1>4, <1>9, BusyIs, Elsewhere

LEMMA BracketKeeps ==
  ASSUME XmlInv, NEW t \in Threads, ParseBracket(t)
  PROVE  XmlInv'
<1>1. /\ pc[t] = "returned" /\ where[t] = "bracket" /\ res[t] = <<GT>>
      /\ where' = [where EXCEPT ![t] = "outer"]
      /\ pc' = [pc EXCEPT ![t] = "call"]
      /\ UNCHANGED <<lastChar, input, read, res, depth>>
  BY Zenon DEF ParseBracket, Returned, Continue, GT
<1>2. \/ /\ depth[t] = 0 /\ nodes' = [nodes EXCEPT ![t] = Append(nodes[t], node[t])]
         /\ node' = [node EXCEPT ![t] = <<>>]
      \/ depth[t] # 0 /\ nodes' = nodes /\ node' = node
  BY Zenon DEF ParseBracket
<1>3. DOMAIN node' = Threads /\ DOMAIN nodes' = Threads
  BY <1>2 DEF XmlInv, XmlTypes
<1>4. XmlTypes'
  BY <1>1, <1>3 DEF XmlInv, XmlTypes, input
<1>5. \A u \in Threads \ {t} : Same(u) /\ pc[u] \notin Busy
  <2>1. \A u \in Threads \ {t} : pc[u] \notin Busy
    BY <1>1, Alone, BusyIs
  <2>2. \A u \in Threads \ {t} : pc'[u] = pc[u] /\ where'[u] = where[u]
    BY <1>1 DEF XmlInv, XmlTypes
  <2>3. \A u \in Threads \ {t} : node'[u] = node[u] /\ nodes'[u] = nodes[u]
    BY <1>2 DEF XmlInv, XmlTypes
  <2> QED BY <1>1, <2>1, <2>2, <2>3, Zenon DEF Same
<1>6. /\ pc'[t] = "call" /\ where'[t] = "outer"
      /\ depth[t] = 0 => nodes'[t] = Append(nodes[t], node[t]) /\ node'[t] = <<>>
      /\ depth[t] # 0 => nodes'[t] = nodes[t] /\ node'[t] = node[t]
  BY <1>1, <1>2 DEF XmlInv, XmlTypes
<1>7. Serving(t)
  <2>1. ~Stale(t)
    BY <1>1 DEF Stale, Blank
  <2> QED BY <1>1, <2>1, ServedClaim, BusyIs
<1>8. Served(script[t], sent[t], lastChar, "returned", "bracket", res[t], read[t], depth[t], node[t], nodes[t])
  BY <1>1, <1>7, Zenon DEF Serving
<1>9. /\ depth[t] = 0 =>
           Served(script[t], sent[t], lastChar, "call", "outer", res[t], read[t], depth[t], <<>>, Append(nodes[t], node[t]))
      /\ depth[t] # 0 =>
           Served(script[t], sent[t], lastChar, "call", "outer", res[t], read[t], depth[t], node[t], nodes[t])
  BY <1>1, <1>8, TypesOf, ServedBracket
<1>10. Serving(t)'
  BY <1>1, <1>6, <1>9, Zenon DEF Serving, input
<1>11. Claim(t)'
  BY <1>6, <1>10, BusyIs, Zenon DEF Claim
<1> QED BY <1>1, <1>4, <1>5, <1>6, <1>11, BusyIs, Elsewhere

LEMMA FailsKeeps ==
  ASSUME XmlInv, NEW t \in Threads, ParseFails(t)
  PROVE  XmlInv'
<1>1. /\ pc[t] = "returned" /\ Fails(where[t], res[t], depth[t])
      /\ pc' = [pc EXCEPT ![t] = "closed"]
      /\ UNCHANGED <<lastChar, input, read, where, res, depth, node, nodes>>
  BY Zenon DEF ParseFails, Returned, Fails, GT
<1>2. XmlTypes'
  BY <1>1 DEF XmlInv, XmlTypes, input
<1>3. \A u \in Threads \ {t} : Same(u) /\ pc[u] \notin Busy
  BY <1>1, Alone, BusyIs DEF XmlInv, XmlTypes, Same
<1>4. pc'[t] = "closed"
  BY <1>1 DEF XmlInv, XmlTypes
<1>5. Serving(t)
  <2>1. ~Stale(t)
    BY <1>1, OneIs DEF Stale, Blank, Fails
  <2> QED BY <1>1, <2>1, ServedClaim, BusyIs
<1>6. Served(script[t], sent[t], lastChar, "returned", where[t], res[t], read[t], depth[t], node[t], nodes[t])
  BY <1>1, <1>5, Zenon DEF Serving
<1>7. nodes[t] = NodesSent(t) /\ lastChar \in {"", GT}
  BY <1>1, <1>6, TypesOf, ServedEnd
<1>8. nodes'[t] = NodesSent(t)'
  <2>1. NodesSent(t)' = NodesSent(t)
    BY <1>1, Zenon DEF NodesSent, input
  <2> QED BY <1>1, <1>7, <2>1
<1>9. Claim(t)'
  BY <1>4, <1>8, Zenon DEF Claim
<1> QED BY <1>1, <1>2, <1>3, <1>7, <1>9, Elsewhere

LEMMA XmlStep ==
  ASSUME XmlInv, Concurrent = FALSE, [Next]_vars
  PROVE  XmlInv'
<1>1. CASE UNCHANGED vars
  <2>1. /\ lastChar' = lastChar /\ script' = script /\ sent' = sent /\ read' = read /\ pc' = pc /\ where' = where
        /\ res' = res /\ depth' = depth /\ node' = node /\ nodes' = nodes
    BY <1>1 DEF vars, input
  <2>2. XmlTypes' /\ OneServed' /\ NoBracketLeft'
    BY <2>1, Zenon DEF XmlInv, XmlTypes, OneServed, NoBracketLeft
  <2>3. ASSUME NEW t \in Threads PROVE Claim(t)'
    <3>1. Claim(t)
      BY DEF XmlInv
    <3>2. /\ NodesSent(t)' = NodesSent(t) /\ (Blank(t) => Blank(t)') /\ (Stale(t) => Stale(t)')
          /\ (Serving(t) => Serving(t)')
      BY <2>1, Zenon DEF NodesSent, Blank, Stale, Serving
    <3> QED BY <2>1, <3>1, <3>2, Zenon DEF Claim
  <2> QED BY <2>2, <2>3 DEF XmlInv
<1>2. CASE Finished
  BY <1>1, <1>2 DEF Finished
<1>3. ASSUME NEW t \in Threads,
             \/ Accept(t) \/ TakeLastChar(t) \/ TestLastChar(t) \/ ReadChar(t) \/ ReadFails(t)
             \/ ParseOuter(t) \/ ParseName(t) \/ ParseBracket(t) \/ ParseFails(t)
      PROVE  XmlInv'
  BY <1>3, AcceptKeeps, TakeKeeps, TestKeeps, ReadKeeps, ReadFailsKeeps, OuterKeeps, NameKeeps, BracketKeeps, FailsKeeps
<1> QED BY <1>1, <1>2, <1>3 DEF Next

LEMMA XmlBegins ==
  ASSUME Init
  PROVE  XmlInv
<1>1. PICK f \in [Threads -> Inputs] : script = [t \in Threads |-> f[t][1]] /\ sent = [t \in Threads |-> f[t][2]]
  BY Zenon DEF Init
<1>2. ASSUME NEW t \in Threads
      PROVE  script[t] \in Scripts /\ sent[t] \in Nat /\ sent[t] <= Len(Wire(script[t]))
  <2>1. PICK s \in Scripts : f[t] \in {s} \X (0..Len(Wire(s)))
    BY DEF Inputs
  <2>2. script[t] = s /\ sent[t] \in 0..Len(Wire(s))
    BY <1>1, <2>1
  <2>3. Len(Wire(s)) \in Nat
    <3>1. s \in Seq(Seq(Symbols)) /\ Len(s) \in 0..Len(s)
      BY ScriptIs
    <3> QED BY <3>1, WireIs
  <2> QED BY <2>2, <2>3
<1>3. script \in [Threads -> Scripts] /\ sent \in [Threads -> Nat]
  BY <1>1, <1>2
<1>4. read = [t \in Threads |-> 0]
  BY DEF Init
<1>5. read \in [Threads -> Nat] /\ \A t \in Threads : read[t] <= sent[t]
  BY <1>3, <1>4
<1>6. XmlTypes
  BY <1>2, <1>3, <1>5 DEF Init, XmlTypes
<1>7. ASSUME NEW t \in Threads PROVE Claim(t)
  <2>1. pc[t] = "waiting"
    BY DEF Init
  <2>2. Blank(t)
    BY DEF Init, Blank
  <2> QED BY <2>1, <2>2, Zenon DEF Claim
<1>8. OneServed /\ NoBracketLeft
  BY DEF Init, OneServed, NoBracketLeft, Busy
<1> QED BY <1>6, <1>7, <1>8 DEF XmlInv

LEMMA XmlTells ==
  ASSUME XmlInv
  PROVE  ReadsWhatWasSent
<1> SUFFICES ASSUME NEW t \in Threads
             PROVE  /\ IsPrefix(nodes[t], NodesSent(t))
                    /\ pc[t] = "closed" => nodes[t] = NodesSent(t)
  BY DEF ReadsWhatWasSent
<1>1. PICK s \in Scripts, snt \in Nat, rd \in Nat : s = script[t] /\ snt = sent[t] /\ rd = read[t] /\ rd <= snt
  BY TypesOf
<1>2. \A k \in 0..Len(s) : AreGood(s, k) /\ Base(s)[k] <= sent[t] + 1 => IsPrefix(FirstNodes(s, k), NodesSent(t))
  BY <1>1, AllSent
<1>3. 0 \in 0..Len(s) /\ FirstNodes(s, 0) = <<>> /\ AreGood(s, 0) /\ Base(s)[0] <= sent[t] + 1
  <2>1. s \in Seq(Seq(Symbols)) /\ Len(s) \in Nat /\ 1..0 = {}
    BY ScriptIs
  <2>2. Base(s)[0] = 0
    BY <2>1, WireIs
  <2> QED BY <1>1, <2>1, <2>2 DEF FirstNodes, AreGood
<1>4. CASE Blank(t) /\ pc[t] # "closed"
  <2>1. nodes[t] = FirstNodes(s, 0)
    BY <1>3, <1>4 DEF Blank
  <2> QED BY <1>2, <1>3, <1>4, <2>1
<1>5. CASE Serving(t) /\ pc[t] \in Busy
  <2>1. PICK k, w, p \in Nat : /\ Parsed(s, k, nodes[t]) /\ At(where[t], s, k, w, depth[t], node[t], p)
                               /\ TokenAt(Wire(s), snt, lastChar, pc[t], res[t], rd, p)
    BY <1>1, <1>5, Zenon DEF Serving, Served
  <2>2. k \in 0..Len(s) /\ nodes[t] = FirstNodes(s, k) /\ AreGood(s, k)
    BY <2>1 DEF Parsed
  <2>3. Base(s)[k] <= snt + 1
    BY <1>1, <2>1, <2>2, Begun
  <2>4. IsPrefix(nodes[t], NodesSent(t))
    BY <1>1, <1>2, <2>2, <2>3
  <2>5. pc[t] # "closed"
    BY <1>5, BusyIs
  <2> QED BY <2>4, <2>5
<1>6. CASE pc[t] = "closed" /\ nodes[t] = NodesSent(t)
  <2>1. IsPrefix(NodesSent(t), NodesSent(t))
    BY <1>1, <1>3, AllSent
  <2> QED BY <1>6, <2>1
<1>7. Claim(t)
  BY DEF XmlInv
<1> QED BY <1>4, <1>5, <1>6, <1>7, BusyIs DEF Claim, Stale

\* A thread whose connection is the only one that is served reads what its client has
\* sent: read_node returns the elements sent, in order, whole, and no other, up to the
\* first that is not well formed; and no bracket left by another connection is in them.
THEOREM ReadsWhatWasSentAlone ==
  ASSUME Concurrent = FALSE
  PROVE  Spec => []ReadsWhatWasSent
<1>1. XmlInv /\ [Next]_vars => XmlInv'
  BY XmlStep
<1> QED BY <1>1, XmlBegins, XmlTells, PTL DEF Spec

=============================================================================

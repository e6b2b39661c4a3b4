-------------------------- MODULE Recursion_proof ---------------------------
(***************************************************************************)
(* Facts about recursive functions on the natural numbers and about        *)
(* sequences, which the proofs of several components need.                 *)
(***************************************************************************)
EXTENDS Integers, Sequences, SequencesExt, WellFoundedInduction, TLAPS

LEMMA LeastOf == ASSUME NEW T \in SUBSET Nat, T # {}
                 PROVE  \E x \in T : \A y \in T : x <= y
<1> DEFINE R == OpToRel(<, Nat)
<1>1. IsWellFoundedOn(R, Nat)
  BY NatLessThanWellFounded
<1>2. PICK x \in T : \A y \in T : ~(<<y, x>> \in R)
  <2> HIDE DEF R
  <2> QED BY <1>1, WFMin
<1>3. \A y \in T : ~(y < x)
  BY <1>2 DEF OpToRel
<1> QED BY <1>3

\* What is true of 0 and of the successor of every index it is true of is true of all.
LEMMA UpTo == ASSUME NEW n \in Nat, NEW T, 0 \in T,
                     \A i \in 1..n : i - 1 \in T => i \in T
              PROVE  0..n \subseteq T
<1> DEFINE bad == {i \in 0..n : i \notin T}
<1>1. SUFFICES ASSUME bad # {} PROVE FALSE
  OBVIOUS
<1>2. PICK i \in bad : \A k \in bad : i <= k
  <2>1. bad \in SUBSET Nat
    OBVIOUS
  <2> HIDE DEF bad
  <2> QED BY <1>1, <2>1, LeastOf
<1>3. i \in 1..n /\ i - 1 \in 0..n /\ ~(i <= i - 1)
  OBVIOUS
<1>4. i - 1 \notin bad
  <2> HIDE DEF bad
  <2> QED BY <1>2, <1>3
<1> QED BY <1>3, <1>4

\* The greatest of a set of indices.
LEMMA GreatestIn ==
  ASSUME NEW n \in Nat, NEW S \in SUBSET (1..n), S # {}
  PROVE  \E x \in S : \A y \in S : x >= y
<1> DEFINE T == {n - i : i \in S}
<1>1. T \in SUBSET Nat /\ T # {}
  <2>1. \A i \in 1..n : n - i \in Nat
    OBVIOUS
  <2> QED BY <2>1
<1>2. PICK m \in T : \A y \in T : m <= y
  <2> HIDE DEF T
  <2> QED BY <1>1, LeastOf
<1>3. PICK x \in S : m = n - x
  OBVIOUS
<1>4. \A y \in S : n - x <= n - y
  BY <1>2, <1>3
<1>5. \A y \in S : y \in 1..n /\ x \in 1..n
  BY <1>3
<1> QED BY <1>3, <1>4, <1>5

\* A step function applied to the value before defines a function on 0..n.
Steps(n, D) == [(1..n) \X D -> D]
Traces(n, D, z, F) ==
  {f \in [0..n -> D] : f[0] = z /\ \A i \in 1..n : f[i] = F[<<i, f[i - 1]>>]}

LEMMA RecursionExists ==
  ASSUME NEW n \in Nat, NEW D, NEW z \in D, NEW F \in Steps(n, D)
  PROVE  \E f : f \in Traces(n, D, z, F)
<1> USE DEF Steps
<1> DEFINE Upto(m) == \E f \in [0..m -> D] : f[0] = z /\ \A i \in 1..m : f[i] = F[<<i, f[i - 1]>>]
           T == {m \in Nat : m <= n => Upto(m)}
<1>1. 0 \in T
  <2>1. [i \in 0..0 |-> z] \in [0..0 -> D] /\ [i \in 0..0 |-> z][0] = z /\ 1..0 = {}
    OBVIOUS
  <2> QED BY <2>1
<1>2. ASSUME NEW m \in 1..n, m - 1 \in T PROVE m \in T
  <2>1. PICK f \in [0..(m - 1) -> D] :
               f[0] = z /\ \A i \in 1..(m - 1) : f[i] = F[<<i, f[i - 1]>>]
    BY <1>2
  <2> DEFINE g == [i \in 0..m |-> IF i = m THEN F[<<m, f[m - 1]>>] ELSE f[i]]
  <2>2. g \in [0..m -> D]
    BY <2>1
  <2>3. g[0] = z
    BY <2>1
  <2>4. ASSUME NEW i \in 1..m PROVE g[i] = F[<<i, g[i - 1]>>]
    <3>1. i - 1 \in 0..m /\ i - 1 # m /\ g[i - 1] = f[i - 1]
      OBVIOUS
    <3>2. CASE i = m
      BY <3>1, <3>2
    <3>3. CASE i # m
      BY <3>1, <3>3, <2>1
    <3> QED BY <3>2, <3>3
  <2>5. Upto(m)
    <3> HIDE DEF g
    <3> QED BY <2>2, <2>3, <2>4
  <2> QED BY <2>5
<1>3. n \in T
  <2> HIDE DEF T
  <2> QED BY <1>1, <1>2, UpTo
<1> QED BY <1>3 DEF Traces

-----------------------------------------------------------------------------
(* Sequences and their elements. *)

LEMMA ElementsOf == ASSUME NEW S, NEW q \in Seq(S)
                    PROVE  Len(q) \in Nat /\ \A i \in 1..Len(q) : q[i] \in S
OBVIOUS

LEMMA SetOf == ASSUME NEW S, NEW q \in Seq(S)
               PROVE  ToSet(q) = {q[i] : i \in 1..Len(q)} /\ ToSet(q) \in SUBSET S
BY DEF ToSet

Distinct(q) == \A i, j \in 1..Len(q) : q[i] = q[j] => i = j

LEMMA EmptySet == ASSUME NEW S
                  PROVE  <<>> \in Seq(S) /\ ToSet(<<>>) = {} /\ Distinct(<<>>)
BY DEF ToSet, Distinct

LEMMA FrontOf ==
  ASSUME NEW S, NEW q \in Seq(S), NEW x \in S
  PROVE  /\ <<x>> \o q \in Seq(S)
         /\ ToSet(<<x>> \o q) = {x} \cup ToSet(q)
         /\ Distinct(q) /\ x \notin ToSet(q) => Distinct(<<x>> \o q)
<1> DEFINE r == <<x>> \o q
<1>1. r \in Seq(S) /\ Len(r) = Len(q) + 1 /\ Len(q) \in Nat
  OBVIOUS
<1>2. r[1] = x /\ \A i \in 1..Len(q) : r[i + 1] = q[i]
  OBVIOUS
<1> HIDE DEF r
<1>3. ToSet(r) = {x} \cup ToSet(q)
  <2>1. ASSUME NEW i \in 1..Len(r) PROVE r[i] \in {x} \cup ToSet(q)
    <3>1. CASE i = 1
      BY <3>1, <1>2
    <3>2. CASE i # 1
      <4>1. i - 1 \in 1..Len(q) /\ i = (i - 1) + 1
        BY <1>1, <3>2
      <4>2. q[i - 1] \in ToSet(q)
        BY <4>1, SetOf
      <4> QED BY <1>2, <4>1, <4>2
    <3> QED BY <3>1, <3>2
  <2>2. x \in ToSet(r)
    BY <1>1, <1>2, SetOf
  <2>3. ASSUME NEW i \in 1..Len(q) PROVE q[i] \in ToSet(r)
    <3>1. i + 1 \in 1..Len(r)
      BY <1>1
    <3> QED BY <1>1, <1>2, <3>1, SetOf
  <2>4. ToSet(r) = {r[i] : i \in 1..Len(r)} /\ ToSet(q) = {q[i] : i \in 1..Len(q)}
    BY <1>1, SetOf
  <2> QED BY <2>1, <2>2, <2>3, <2>4
<1>4. ASSUME Distinct(q), x \notin ToSet(q) PROVE Distinct(r)
  <2>1. SUFFICES ASSUME NEW i \in 1..Len(r), NEW j \in 1..Len(r), r[i] = r[j], i # j PROVE FALSE
    BY DEF Distinct
  <2>2. ASSUME NEW k \in 1..Len(r), k # 1 PROVE k - 1 \in 1..Len(q) /\ r[k] = q[k - 1] /\ r[k] \in ToSet(q)
    <3>1. k - 1 \in 1..Len(q) /\ k = (k - 1) + 1
      BY <1>1, <2>2
    <3> QED BY <1>2, <3>1, SetOf
  <2>3. i # 1 /\ j # 1
    BY <1>2, <1>4, <2>1, <2>2
  <2> QED BY <1>4, <2>1, <2>2, <2>3 DEF Distinct
<1> QED BY <1>1, <1>3, <1>4 DEF r

LEMMA BackOf ==
  ASSUME NEW S, NEW q \in Seq(S), NEW x \in S
  PROVE  /\ Append(q, x) \in Seq(S)
         /\ ToSet(Append(q, x)) = ToSet(q) \cup {x}
         /\ Distinct(q) /\ x \notin ToSet(q) => Distinct(Append(q, x))
<1> DEFINE r == Append(q, x)
<1>1. /\ r \in Seq(S) /\ Len(r) = Len(q) + 1 /\ Len(q) \in Nat /\ r[Len(q) + 1] = x
      /\ \A i \in 1..Len(q) : r[i] = q[i]
  OBVIOUS
<1> HIDE DEF r
<1>2. ToSet(r) = {r[i] : i \in 1..Len(r)} /\ ToSet(q) = {q[i] : i \in 1..Len(q)}
  BY <1>1, SetOf
<1>3. ToSet(r) = ToSet(q) \cup {x}
  <2>1. ASSUME NEW i \in 1..Len(r) PROVE r[i] \in ToSet(q) \cup {x}
    <3>1. i = Len(q) + 1 \/ i \in 1..Len(q)
      BY <1>1
    <3> QED BY <1>1, <1>2, <3>1
  <2>2. ASSUME NEW i \in 1..Len(q) PROVE q[i] \in ToSet(r)
    <3>1. i \in 1..Len(r) /\ r[i] = q[i]
      BY <1>1
    <3> QED BY <1>2, <3>1
  <2>3. x \in ToSet(r)
    <3>1. Len(q) + 1 \in 1..Len(r)
      BY <1>1
    <3> QED BY <1>1, <1>2, <3>1
  <2> QED BY <1>2, <2>1, <2>2, <2>3
<1>4. ASSUME Distinct(q), x \notin ToSet(q) PROVE Distinct(r)
  <2>1. ASSUME NEW i \in 1..Len(r), NEW j \in 1..Len(r), r[i] = r[j] PROVE i = j
    <3>1. (i = Len(q) + 1 \/ i \in 1..Len(q)) /\ (j = Len(q) + 1 \/ j \in 1..Len(q))
      BY <1>1
    <3>2. \A k \in 1..Len(q) : r[k] = q[k] /\ q[k] # x
      BY <1>1, <1>2, <1>4
    <3> QED BY <1>1, <1>4, <2>1, <3>1, <3>2 DEF Distinct
  <2> QED BY <2>1 DEF Distinct
<1> QED BY <1>1, <1>3, <1>4 DEF r

LEMMA ReverseOf ==
  ASSUME NEW S, NEW q \in Seq(S)
  PROVE  /\ Reverse(q) \in Seq(S) /\ ToSet(Reverse(q)) = ToSet(q)
         /\ Distinct(q) => Distinct(Reverse(q))
<1> DEFINE r == Reverse(q)
           n == Len(q)
<1>1. n \in Nat /\ r = [i \in 1..n |-> q[n - i + 1]]
  BY DEF Reverse
<1>2. \A i \in 1..n : n - i + 1 \in 1..n /\ n - (n - i + 1) + 1 = i
  BY <1>1
<1>3. \A i \in 1..n : q[i] \in S
  BY ElementsOf
<1> HIDE DEF r, n
<1>4. r \in Seq(S) /\ Len(r) = n /\ \A i \in 1..n : r[i] = q[n - i + 1]
  <2>1. \A i \in 1..n : r[i] = q[n - i + 1] /\ r[i] \in S
    BY <1>1, <1>2, <1>3
  <2>2. r \in [1..n -> S]
    BY <1>1, <2>1
  <2> QED BY <1>1, <2>1, <2>2
<1>5. ToSet(r) = {r[i] : i \in 1..n} /\ ToSet(q) = {q[i] : i \in 1..n}
  BY <1>4, SetOf DEF n
<1>6. ToSet(r) = ToSet(q)
  <2>1. ASSUME NEW i \in 1..n PROVE r[i] \in ToSet(q)
    BY <1>2, <1>4, <1>5
  <2>2. ASSUME NEW i \in 1..n PROVE q[i] \in ToSet(r)
    <3>1. r[n - i + 1] = q[i] /\ n - i + 1 \in 1..n
      BY <1>2, <1>4
    <3> QED BY <1>5, <3>1
  <2> QED BY <1>5, <2>1, <2>2
<1>7. ASSUME Distinct(q) PROVE Distinct(r)
  <2>1. ASSUME NEW i \in 1..n, NEW j \in 1..n, r[i] = r[j] PROVE i = j
    <3>1. n - i + 1 = n - j + 1
      BY <1>2, <1>4, <1>7, <2>1 DEF Distinct, n
    <3> QED BY <1>1, <3>1
  <2> QED BY <1>4, <2>1 DEF Distinct
<1> QED BY <1>4, <1>6, <1>7 DEF r

LEMMA OneOf == ASSUME NEW S, NEW x \in S
               PROVE  <<x>> \in Seq(S) /\ ToSet(<<x>>) = {x} /\ Distinct(<<x>>)
BY DEF ToSet, Distinct

LEMMA HeadOf ==
  ASSUME NEW S, NEW q \in Seq(S), q # <<>>
  PROVE  /\ Head(q) \in S /\ Tail(q) \in Seq(S)
         /\ ToSet(q) = {Head(q)} \cup ToSet(Tail(q))
         /\ Distinct(q) => Distinct(Tail(q)) /\ Head(q) \notin ToSet(Tail(q))
<1> DEFINE x == Head(q)
           r == Tail(q)
<1>1. x \in S /\ r \in Seq(S) /\ Len(q) = Len(r) + 1 /\ Len(r) \in Nat
  OBVIOUS
<1>2. q[1] = x /\ \A i \in 1..Len(r) : q[i + 1] = r[i]
  OBVIOUS
<1> HIDE DEF x, r
<1>3. q = <<x>> \o r
  <2>1. <<x>> \o r \in Seq(S) /\ Len(<<x>> \o r) = Len(q)
    BY <1>1
  <2>2. ASSUME NEW i \in 1..Len(q) PROVE q[i] = (<<x>> \o r)[i]
    BY <1>1, <1>2
  <2> QED BY <2>1, <2>2
<1>4. ToSet(q) = {x} \cup ToSet(r)
  BY <1>1, <1>3, FrontOf
<1>5. ASSUME Distinct(q) PROVE Distinct(r) /\ x \notin ToSet(r)
  <2>1. ASSUME NEW i \in 1..Len(r) PROVE i + 1 \in 1..Len(q) /\ i + 1 # 1 /\ 1 \in 1..Len(q)
    BY <1>1
  <2>2. x \notin ToSet(r)
    BY <1>1, <1>2, <1>5, <2>1, SetOf DEF Distinct
  <2>3. ASSUME NEW i \in 1..Len(r), NEW j \in 1..Len(r), r[i] = r[j] PROVE i = j
    <3>1. i + 1 = j + 1
      BY <1>2, <1>5, <2>1, <2>3 DEF Distinct
    <3> QED BY <3>1
  <2> QED BY <2>2, <2>3 DEF Distinct
<1> QED BY <1>1, <1>4, <1>5 DEF x, r

\* Sequences of whatever there is.
IsList(q) == \E S : q \in Seq(S)

LEMMA ListIs == ASSUME NEW q, IsList(q) PROVE Len(q) \in Nat /\ DOMAIN q = 1..Len(q)
BY DEF IsList

LEMMA ListEmpty == IsList(<<>>) /\ Len(<<>>) = 0
<1>1. <<>> \in Seq({})
  OBVIOUS
<1> QED BY <1>1 DEF IsList

LEMMA ListAppended ==
  ASSUME NEW q, IsList(q), NEW x
  PROVE  /\ IsList(Append(q, x)) /\ Len(Append(q, x)) = Len(q) + 1
         /\ Append(q, x)[Len(q) + 1] = x /\ \A i \in 1..Len(q) : Append(q, x)[i] = q[i]
<1>1. PICK S : q \in Seq(S)
  BY DEF IsList
<1>2. q \in Seq(S \cup {x})
  BY <1>1
<1>3. Append(q, x) \in Seq(S \cup {x})
  BY <1>2
<1> QED BY <1>2, <1>3 DEF IsList

-----------------------------------------------------------------------------
(* The totals of a sequence of numbers, and sequences put together *)

Totals(a) ==
  LET t[i \in 0..Len(a)] == IF i = 0 THEN 0 ELSE t[i - 1] + a[i]
  IN  t

LEMMA TotalsAre ==
  ASSUME NEW D \in {Nat, Int}, NEW a \in Seq(D)
  PROVE  /\ Totals(a) \in [0..Len(a) -> D] /\ Totals(a)[0] = 0
         /\ \A i \in 1..Len(a) : Totals(a)[i] = Totals(a)[i - 1] + a[i]
<1> DEFINE n == Len(a)
           F == [p \in (1..n) \X D |-> p[2] + a[p[1]]]
           IsTotal(f) == f = [i \in 0..n |-> IF i = 0 THEN 0 ELSE f[i - 1] + a[i]]
<1>1. n \in Nat /\ 0 \in D /\ (\A x, y \in D : x + y \in D) /\ \A i \in 1..n : a[i] \in D
  OBVIOUS
<1>2. F \in Steps(n, D)
  BY <1>1 DEF Steps
<1>3. PICK f : f \in Traces(n, D, 0, F)
  <2> HIDE DEF F, n
  <2> QED BY <1>1, <1>2, RecursionExists
<1>4. f \in [0..n -> D] /\ f[0] = 0 /\ \A i \in 1..n : f[i] = F[<<i, f[i - 1]>>]
  BY <1>3 DEF Traces
<1>5. ASSUME NEW i \in 0..n PROVE f[i] = IF i = 0 THEN 0 ELSE f[i - 1] + a[i]
  <2>1. CASE i = 0
    BY <1>4, <2>1
  <2>2. CASE i # 0
    <3>1. i \in 1..n /\ i - 1 \in 0..n
      BY <1>1, <2>2
    <3>2. f[i - 1] \in D
      BY <1>4, <3>1
    <3>3. F[<<i, f[i - 1]>>] = f[i - 1] + a[i]
      BY <3>1, <3>2
    <3> QED BY <1>4, <2>2, <3>1, <3>3
  <2> QED BY <2>1, <2>2
<1>6. IsTotal(f)
  <2>1. f = [i \in 0..n |-> f[i]]
    BY <1>4
  <2> HIDE DEF n
  <2> QED BY <1>5, <2>1
<1>7. Totals(a) = CHOOSE g : IsTotal(g)
  BY DEF Totals
<1> DEFINE g == Totals(a)
<1>8. IsTotal(g)
  <2> HIDE DEF IsTotal
  <2> QED BY <1>6, <1>7
<1>9. g[0] = 0 /\ \A i \in 1..n : g[i] = g[i - 1] + a[i]
  <2> HIDE DEF g, n
  <2>1. \A i \in 0..n : g[i] = IF i = 0 THEN 0 ELSE g[i - 1] + a[i]
    BY <1>8
  <2>2. 0 \in 0..n /\ \A i \in 1..n : i \in 0..n /\ i # 0
    BY <1>1
  <2> QED BY <2>1, <2>2
<1>10. 0..n \subseteq {i \in 0..n : g[i] \in D}
  <2> DEFINE T == {i \in 0..n : g[i] \in D}
  <2> HIDE DEF g, n
  <2>1. 0 \in T
    BY <1>1, <1>9
  <2>2. ASSUME NEW i \in 1..n, i - 1 \in T PROVE i \in T
    <3>1. g[i] = g[i - 1] + a[i] /\ a[i] \in D
      BY <1>1, <1>9
    <3>2. g[i - 1] \in D /\ i \in 0..n
      BY <1>1, <2>2
    <3>3. g[i] \in D
      BY <1>1, <3>1, <3>2
    <3> QED BY <3>2, <3>3
  <2> HIDE DEF T
  <2>3. 0..n \subseteq T
    BY <1>1, <2>1, <2>2, UpTo
  <2> QED BY <2>3 DEF T
<1>11. g \in [0..n -> D]
  <2> HIDE DEF g, n
  <2>1. g = [i \in 0..n |-> g[i]]
    BY <1>8
  <2>2. \A i \in 0..n : g[i] \in D
    BY <1>10
  <2> QED BY <2>1, <2>2
<1> QED BY <1>9, <1>11

LEMMA SumsGrow ==
  ASSUME NEW n \in Nat, NEW xs, \A i \in 1..n : xs[i] \in Nat, NEW f, f[0] = 0, \A i \in 1..n : f[i] = f[i - 1] + xs[i]
  PROVE  \A i \in 0..n : f[i] \in Nat /\ f[i] <= f[n]
<1>1. PICK T : T = {i \in 0..n : f[i] \in Nat}
  OBVIOUS
<1>2. 0..n \subseteq T
  <2>1. 0 \in T
    BY <1>1
  <2>2. ASSUME NEW i \in 1..n, i - 1 \in T PROVE i \in T
    BY <1>1, <2>2
  <2> QED BY <2>1, <2>2, UpTo
<1>3. PICK R : R = {i \in 0..n : f[n - i] <= f[n]}
  OBVIOUS
<1>4. \A i \in 0..n : f[i] \in Nat
  BY <1>1, <1>2
<1>5. 0..n \subseteq R
  <2>1. 0 \in R
    BY <1>3, <1>4
  <2>2. ASSUME NEW i \in 1..n, i - 1 \in R PROVE i \in R
    <3>1. PICK k \in 1..n : k = n - (i - 1)
      OBVIOUS
    <3>2. k - 1 = n - i /\ k - 1 \in 0..n
      BY <3>1
    <3>3. f[k] = f[k - 1] + xs[k] /\ xs[k] \in Nat /\ f[k - 1] \in Nat /\ f[k] <= f[n] /\ f[n] \in Nat
      BY <1>3, <1>4, <2>2, <3>1, <3>2
    <3>4. f[k - 1] <= f[n]
      BY <3>3
    <3> QED BY <1>3, <3>2, <3>4
  <2> QED BY <2>1, <2>2, UpTo
<1>6. ASSUME NEW i \in 0..n PROVE f[i] <= f[n]
  <2>1. n - i \in R /\ n - (n - i) = i
    BY <1>5
  <2> QED BY <1>3, <2>1
<1> QED BY <1>4, <1>6

\* Where each sequence stands when they are put together.
EndsOf(ss) == Totals([i \in 1..Len(ss) |-> Len(ss[i])])

LEMMA EndsAre ==
  ASSUME NEW D, NEW ss \in Seq(Seq(D))
  PROVE  /\ EndsOf(ss) \in [0..Len(ss) -> Nat] /\ EndsOf(ss)[0] = 0
         /\ \A i \in 1..Len(ss) : EndsOf(ss)[i] = EndsOf(ss)[i - 1] + Len(ss[i]) /\ Len(ss[i]) \in Nat
<1> DEFINE n == Len(ss)
           a == [i \in 1..n |-> Len(ss[i])]
<1>1. n \in Nat /\ \A i \in 1..n : ss[i] \in Seq(D)
  OBVIOUS
<1>2. \A i \in 1..n : Len(ss[i]) \in Nat
  <2> HIDE DEF n
  <2> QED BY <1>1
<1>3. a \in Seq(Nat) /\ Len(a) = n /\ \A i \in 1..n : a[i] = Len(ss[i])
  <2> HIDE DEF n
  <2> QED BY <1>1, <1>2
<1>4. EndsOf(ss) = Totals(a)
  BY DEF EndsOf
<1> HIDE DEF a, n
<1>5. /\ Totals(a) \in [0..Len(a) -> Nat] /\ Totals(a)[0] = 0
      /\ \A i \in 1..Len(a) : Totals(a)[i] = Totals(a)[i - 1] + a[i]
  BY <1>3, TotalsAre
<1> QED BY <1>2, <1>3, <1>4, <1>5 DEF n

LEMMA FlattenIs ==
  ASSUME NEW D, NEW ss \in Seq(Seq(D))
  PROVE  /\ FlattenSeq(ss) \in Seq(D) /\ Len(FlattenSeq(ss)) = EndsOf(ss)[Len(ss)]
         /\ \A i \in 1..Len(ss) : \A j \in 1..Len(ss[i]) :
              FlattenSeq(ss)[EndsOf(ss)[i - 1] + j] = ss[i][j]
<1> DEFINE n == Len(ss)
           e == EndsOf(ss)
           IsFlat(f) == f = [i \in 1..n |-> IF i = 1 THEN ss[i] ELSE f[i - 1] \o ss[i]]
<1>1. n \in Nat /\ \A i \in 1..n : ss[i] \in Seq(D)
  OBVIOUS
<1>2. e \in [0..n -> Nat] /\ e[0] = 0 /\ \A i \in 1..n : e[i] = e[i - 1] + Len(ss[i]) /\ Len(ss[i]) \in Nat
  <2> HIDE DEF e, n
  <2> QED BY EndsAre DEF e, n
<1>3. CASE n = 0
  <2>1. FlattenSeq(ss) = ss /\ ss = <<>>
    BY <1>3 DEF FlattenSeq
  <2>2. ss \in Seq(D) /\ Len(ss) = 0
    BY <2>1
  <2> QED BY <1>2, <1>3, <2>1, <2>2
<1>4. CASE n # 0
  <2>1. FlattenSeq(ss) = (CHOOSE f : IsFlat(f))[n]
    BY <1>4 DEF FlattenSeq
  <2>2. \E f : IsFlat(f)
    <3> DEFINE F == [p \in (1..n) \X Seq(D) |-> IF p[1] = 1 THEN ss[1] ELSE p[2] \o ss[p[1]]]
    <3>1. F \in Steps(n, Seq(D))
      <4>1. ASSUME NEW p \in (1..n) \X Seq(D) PROVE (IF p[1] = 1 THEN ss[1] ELSE p[2] \o ss[p[1]]) \in Seq(D)
        <5>1. p[1] \in 1..n /\ p[2] \in Seq(D)
          OBVIOUS
        <5>2. ss[1] \in Seq(D) /\ ss[p[1]] \in Seq(D)
          BY <1>1, <1>4, <5>1
        <5> HIDE DEF n
        <5> QED BY <5>1, <5>2
      <4> HIDE DEF n
      <4> QED BY <4>1 DEF Steps
    <3>2. <<>> \in Seq(D)
      OBVIOUS
    <3>3. PICK g : g \in Traces(n, Seq(D), <<>>, F)
      <4> HIDE DEF F, n
      <4> QED BY <1>1, <3>1, <3>2, RecursionExists
    <3>4. g \in [0..n -> Seq(D)] /\ \A i \in 1..n : g[i] = F[<<i, g[i - 1]>>]
      BY <3>3 DEF Traces
    <3> DEFINE f == [i \in 1..n |-> g[i]]
    <3>5. ASSUME NEW i \in 1..n PROVE f[i] = IF i = 1 THEN ss[i] ELSE f[i - 1] \o ss[i]
      <4>1. i - 1 \in 0..n /\ g[i - 1] \in Seq(D)
        <5>1. i - 1 \in 0..n
          <6> HIDE DEF n
          <6> QED BY <1>1
        <5> HIDE DEF n
        <5> QED BY <3>4, <5>1
      <4>2. f[i] = F[<<i, g[i - 1]>>]
        BY <3>4
      <4>3. F[<<i, g[i - 1]>>] = IF i = 1 THEN ss[1] ELSE g[i - 1] \o ss[i]
        BY <4>1
      <4>4. i # 1 => f[i - 1] = g[i - 1]
        BY <1>1
      <4> QED BY <4>2, <4>3, <4>4
    <3>6. f = [i \in 1..n |-> f[i]]
      OBVIOUS
    <3>7. IsFlat(f)
      <4> HIDE DEF f, n
      <4> QED BY <3>5, <3>6
    <3> QED BY <3>7
  <2>3. PICK f : IsFlat(f) /\ FlattenSeq(ss) = f[n]
    <3> HIDE DEF IsFlat, n
    <3> QED BY <2>1, <2>2
  <2>4. f[1] = ss[1] /\ \A i \in 2..n : f[i] = f[i - 1] \o ss[i]
    <3> HIDE DEF n
    <3>1. \A i \in 1..n : f[i] = IF i = 1 THEN ss[i] ELSE f[i - 1] \o ss[i]
      BY <2>3
    <3>2. 1 \in 1..n /\ \A i \in 2..n : i \in 1..n /\ i # 1
      BY <1>1, <1>4
    <3> QED BY <3>1, <3>2
  <2> DEFINE Good(m) == /\ f[m] \in Seq(D) /\ Len(f[m]) = e[m]
                        /\ \A i \in 1..m : \A j \in 1..Len(ss[i]) : f[m][e[i - 1] + j] = ss[i][j]
             T == {m \in 0..n : m = 0 \/ Good(m)}
  <2> HIDE DEF e, n
  <2>5. 0 \in T
    BY <1>1
  <2>6. ASSUME NEW m \in 1..n, m - 1 \in T PROVE m \in T
    <3>1. m \in 0..n /\ e[m] = e[m - 1] + Len(ss[m]) /\ Len(ss[m]) \in Nat /\ ss[m] \in Seq(D) /\ e[m - 1] \in Nat
      BY <1>1, <1>2
    <3>2. CASE m = 1
      <4>1. e[0] = 0 /\ f[1] = ss[1] /\ e[1] = Len(ss[1]) /\ 1 - 1 = 0
        BY <1>2, <2>4, <3>1, <3>2
      <4>2. \A i \in 1..1 : i = 1
        OBVIOUS
      <4>3. Good(1)
        BY <3>1, <3>2, <4>1, <4>2
      <4> QED BY <3>1, <3>2, <4>3
    <3>3. CASE m # 1
      <4>1. f[m] = f[m - 1] \o ss[m] /\ Good(m - 1)
        <5>1. m \in 2..n /\ m - 1 # 0
          BY <1>1, <3>3
        <5>2. m - 1 \in T
          BY <2>6
        <5>3. Good(m - 1)
          <6> HIDE DEF Good
          <6> QED BY <5>1, <5>2
        <5> QED BY <2>4, <5>1, <5>3
      <4> DEFINE x == f[m - 1]
                 y == ss[m]
      <4>2. x \in Seq(D) /\ y \in Seq(D) /\ Len(x) = e[m - 1] /\ f[m] = x \o y
        BY <3>1, <4>1
      <4> HIDE DEF x, y
      <4>3. /\ x \o y \in Seq(D) /\ Len(x \o y) = Len(x) + Len(y)
            /\ (\A k \in 1..Len(x) : (x \o y)[k] = x[k]) /\ \A k \in 1..Len(y) : (x \o y)[Len(x) + k] = y[k]
        <5>1. x \in Seq(D) /\ y \in Seq(D)
          BY <4>2
        <5>2. Len(x) \in Nat /\ Len(y) \in Nat /\ x \o y \in Seq(D) /\ Len(x \o y) = Len(x) + Len(y)
          BY <5>1
        <5>3. \A k \in 1..Len(x) : (x \o y)[k] = x[k]
          BY <5>1
        <5>4. ASSUME NEW k \in 1..Len(y) PROVE (x \o y)[Len(x) + k] = y[k]
          <6>1. Len(x) + k \in 1..(Len(x) + Len(y)) /\ Len(x) + k > Len(x) /\ (Len(x) + k) - Len(x) = k
            BY <5>2
          <6> QED BY <5>1, <5>2, <6>1
        <5> QED BY <5>2, <5>3, <5>4
      <4>4. ASSUME NEW i \in 1..m, NEW j \in 1..Len(ss[i]) PROVE f[m][e[i - 1] + j] = ss[i][j]
        <5>1. CASE i = m
          BY <4>2, <4>3, <4>4, <5>1 DEF y
        <5>2. CASE i # m
          <6>1. i \in 1..(m - 1) /\ i \in 1..n
            BY <1>1, <5>2
          <6>2. x[e[i - 1] + j] = ss[i][j]
            BY <4>1, <4>4, <6>1 DEF x
          <6>3. e[i] = e[i - 1] + Len(ss[i]) /\ e[i - 1] \in Nat /\ e[i] <= e[m - 1] /\ Len(ss[i]) \in Nat
            <7> DEFINE U == {q \in 0..(m - 1) : q >= i => e[i] <= e[q]}
            <7>1. 0 \in U
              BY <6>1
            <7>2. ASSUME NEW q \in 1..(m - 1), q - 1 \in U PROVE q \in U
              <8>1. q \in 1..n /\ e[q] = e[q - 1] + Len(ss[q]) /\ Len(ss[q]) \in Nat /\ e[q - 1] \in Nat
                BY <1>1, <1>2
              <8>2. e[i] \in Nat
                BY <1>2, <6>1
              <8>3. q = i \/ q < i \/ q - 1 >= i
                BY <6>1
              <8> QED BY <7>2, <8>1, <8>2, <8>3
            <7>3. m - 1 \in Nat
              BY <1>1
            <7> HIDE DEF U
            <7>4. 0..(m - 1) \subseteq U
              BY <7>1, <7>2, <7>3, UpTo
            <7>5. m - 1 \in U
              BY <7>3, <7>4
            <7> QED BY <1>1, <1>2, <6>1, <7>5 DEF U
          <6>4. e[i - 1] + j \in 1..Len(x)
            BY <4>2, <4>4, <6>3
          <6> QED BY <4>2, <4>3, <6>2, <6>4
        <5> QED BY <5>1, <5>2
      <4>5. Good(m)
        BY <3>1, <4>2, <4>3, <4>4 DEF y
      <4> QED BY <3>1, <4>5
    <3> QED BY <3>2, <3>3
  <2>7. n \in T
    <3> HIDE DEF T
    <3>1. 0..n \subseteq T
      BY <1>1, <2>5, <2>6, UpTo
    <3> QED BY <1>1, <3>1
  <2>8. Good(n)
    BY <1>4, <2>7
  <2> QED BY <2>3, <2>8 DEF e, n
<1> QED BY <1>3, <1>4

=============================================================================

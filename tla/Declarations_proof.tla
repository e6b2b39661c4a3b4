-------------------------- MODULE Declarations_proof -------------------------
(*****************************************************************************)
(* What the parsers of mdpsim and of mini-gpt make of a file, for every file. *)
(*****************************************************************************)
EXTENDS Declarations, Recursion_proof, FiniteSetTheorems, SequenceTheorems

-----------------------------------------------------------------------------
(* Types: the table is a strict order, and the least one that contains what *)
(* has been declared.                                                       *)

Transitive(R) == \A x, y, z : <<x, y>> \in R /\ <<y, z>> \in R => <<x, z>> \in R

Order(T) ==
  /\ \A p \in T : p = <<p[1], p[2]>> /\ p[1] # OBJECT /\ p[2] # OBJECT /\ p[1] # p[2]
  /\ Transitive(T)

\* Putting t below u puts all that is below t below all that is above u.
LEMMA LinkedIs ==
  ASSUME NEW T, Order(T), NEW t, NEW u, t # OBJECT, u # OBJECT, ~Below(T, t, u), ~Below(T, u, t)
  PROVE  /\ \A x, y : <<x, y>> \in Linked(T, t, u) <=>
                \/ <<x, y>> \in T
                \/ (x = t \/ <<x, t>> \in T) /\ (y = u \/ <<u, y>> \in T)
         /\ Order(Linked(T, t, u))
<1> DEFINE L == Linked(T, t, u)
<1>1. \A k \in Names(T) : k # OBJECT
  BY DEF Names, Order
<1>2. \A x, y : <<x, y>> \in T => x \in Names(T) /\ y \in Names(T)
  BY DEF Names
<1>3. t # u /\ <<t, u>> \notin T /\ <<u, t>> \notin T
  BY DEF Below
<1>4. ASSUME NEW x, NEW y
      PROVE  <<x, y>> \in L <=>
                \/ <<x, y>> \in T
                \/ (x = t \/ <<x, t>> \in T) /\ (y = u \/ <<u, y>> \in T)
  BY <1>1, <1>2, <1>3 DEF Linked, Below, Order, Transitive
<1>5. \A p \in L : p = <<p[1], p[2]>> /\ p[1] # OBJECT /\ p[2] # OBJECT
  BY <1>1 DEF Linked, Order
<1> HIDE DEF L
<1>6. Transitive(L)
  BY <1>3, <1>4 DEF Order, Transitive
<1>7. \A x : <<x, x>> \notin L
  BY <1>3, <1>4 DEF Order, Transitive
<1>8. Order(L)
  BY <1>5, <1>6, <1>7 DEF Order
<1> QED BY <1>4, <1>8 DEF L

LEMMA PairIs == ASSUME NEW S, NEW p \in S \X S PROVE p = <<p[1], p[2]>>
OBVIOUS

LEMMA SequenceOfSet ==
  ASSUME NEW S, IsFiniteSet(S)
  PROVE  SetToSeq(S) \in Seq(S) /\ ToSet(SetToSeq(S)) = S
<1> DEFINE n == Cardinality(S)
           q == SetToSeq(S)
<1>1. n \in Nat /\ ExistsBijection(1..n, S)
  BY FS_CardinalityType
<1>2. \E f \in [1..n -> S] : IsInjective(f)
  BY <1>1 DEF ExistsBijection, Bijection, Injection
<1>3. q \in [1..n -> S] /\ IsInjective(q)
  BY <1>2 DEF SetToSeq
<1>4. q \in Injection(1..n, S)
  BY <1>3 DEF Injection
<1>5. IsFiniteSet(1..n) /\ Cardinality(1..n) = n
  BY <1>1, FS_Interval
<1> HIDE DEF q
<1>6. q \in Surjection(1..n, S)
  BY <1>4, <1>5, FS_Injection
<1>7. q \in Seq(S) /\ Len(q) = n
  BY <1>1, <1>3
<1>8. ToSet(q) = S
  <2>1. ToSet(q) = {q[i] : i \in 1..n}
    BY <1>7, SetOf
  <2> QED BY <1>3, <1>6, <2>1 DEF Surjection
<1> QED BY <1>7, <1>8 DEF q

\* What adding the components of B above t, one by one, has come to with W.
Raised(T, W, t, us) ==
  /\ Order(W)
  /\ T \subseteq W
  /\ \A x : <<x, t>> \in W => <<x, t>> \in T
  /\ \A u \in us : u \in {t, OBJECT} \/ <<t, u>> \in W
  /\ \A R : /\ Transitive(R) /\ T \subseteq R
            /\ \A u \in us \ {OBJECT} : <<t, u>> \in R
            => W \subseteq R

LEMMA RaiseOne ==
  ASSUME NEW T, NEW t, t # OBJECT, NEW W, NEW us, Raised(T, W, t, us), NEW u, Acyclic(T, t, u)
  PROVE  Raised(T, AddSupertype(W, t, u), t, us \cup {u})
<1>1. Below(T, t, u) => Below(W, t, u)
  BY DEF Raised, Below
<1>2. Below(W, u, t) => Below(T, u, t)
  BY DEF Raised, Below
<1>3. CASE Below(W, t, u)
  <2>1. AddSupertype(W, t, u) = W
    BY <1>3 DEF AddSupertype
  <2>2. u \in {t, OBJECT} \/ <<t, u>> \in W
    BY <1>3 DEF Below
  <2> QED BY <2>1, <2>2 DEF Raised
<1>4. CASE ~Below(W, t, u)
  <2>1. ~Below(W, u, t)
    BY <1>1, <1>2, <1>4 DEF Acyclic
  <2>2. AddSupertype(W, t, u) = Linked(W, t, u)
    BY <1>4, <2>1 DEF AddSupertype
  <2>3. u # OBJECT /\ u # t
    BY <1>4 DEF Below
  <2>4. Order(W)
    BY DEF Raised
  <2>5. PICK L : L = Linked(W, t, u)
    OBVIOUS
  <2>6. /\ Order(L)
        /\ \A x, y : <<x, y>> \in L <=> \/ <<x, y>> \in W
                                        \/ (x = t \/ <<x, t>> \in W) /\ (y = u \/ <<u, y>> \in W)
    BY <1>4, <2>1, <2>3, <2>4, <2>5, LinkedIs
  <2>7. W \subseteq L
    BY <2>5 DEF Linked
  <2>8. ASSUME NEW x, <<x, t>> \in L PROVE <<x, t>> \in T
    <3>1. <<x, t>> \in W
      BY <2>1, <2>3, <2>6, <2>8 DEF Below
    <3> QED BY <3>1 DEF Raised
  <2>9. <<t, u>> \in L
    BY <2>6
  <2>10. ASSUME NEW R, Transitive(R), T \subseteq R, \A v \in (us \cup {u}) \ {OBJECT} : <<t, v>> \in R
         PROVE  L \subseteq R
    <3>1. W \subseteq R
      BY <2>10 DEF Raised
    <3>2. <<t, u>> \in R
      BY <2>3, <2>10
    <3>3. \A x, y : <<x, y>> \in L => <<x, y>> \in R
      BY <2>6, <2>10, <3>1, <3>2 DEF Transitive
    <3> QED BY <2>6, <3>3 DEF Order
  <2>11. Raised(T, L, t, us \cup {u})
    BY <2>6, <2>7, <2>8, <2>9, <2>10 DEF Raised
  <2> QED BY <2>2, <2>5, <2>11
<1> QED BY <1>3, <1>4

LEMMA RaiseAll ==
  ASSUME NEW T, Order(T), NEW t, t # OBJECT, NEW B, IsFiniteSet(B), AllAcyclic(T, t, B)
  PROVE  Raised(T, AddSupertypes(T, t, B), t, Components(B))
<1> DEFINE us == SetToSeq(Components(B))
           n == Len(us)
           U == Names(T) \cup Components(B) \cup {t}
           D == SUBSET (U \X U)
           F == [p \in (1..n) \X D |-> AddSupertype(p[2], t, us[p[1]])]
           Linkings(f) == f = [i \in 0..n |-> IF i = 0 THEN T ELSE AddSupertype(f[i - 1], t, us[i])]
           table == CHOOSE f : Linkings(f)
<1>1. IsFiniteSet(Components(B))
  BY FS_EmptySet DEF Components
<1>2. us \in Seq(Components(B)) /\ ToSet(us) = Components(B)
  BY <1>1, SequenceOfSet
<1>3. n \in Nat /\ \A i \in 1..n : us[i] \in Components(B)
  BY <1>2, ElementsOf
<1>4. AddSupertypes(T, t, B) = table[n]
  BY DEF AddSupertypes
<1> HIDE DEF us, n
<1>5. T \in D
  BY DEF Order, Names
<1>6. ASSUME NEW W \in D, NEW u \in Components(B) PROVE AddSupertype(W, t, u) \in D
  <2>1. Names(W) \subseteq U
    BY DEF Names
  <2>2. Linked(W, t, u) \in D
    BY <2>1 DEF Linked
  <2> QED BY <2>2 DEF AddSupertype
<1>7. F \in Steps(n, D)
  <2> HIDE DEF D
  <2> QED BY <1>3, <1>6 DEF Steps
<1>8. PICK f \in [0..n -> D] : f[0] = T /\ \A i \in 1..n : f[i] = F[<<i, f[i - 1]>>]
  <2> HIDE DEF D, F
  <2>1. \E f : f \in Traces(n, D, T, F)
    BY <1>3, <1>5, <1>7, RecursionExists
  <2> QED BY <2>1 DEF Traces
<1>9. ASSUME NEW i \in 1..n PROVE f[i - 1] \in D /\ f[i] = AddSupertype(f[i - 1], t, us[i])
  <2> HIDE DEF D
  <2>1. f[i - 1] \in D
    BY <1>3, <1>8
  <2> QED BY <1>8, <2>1
<1>10. Linkings(f)
  <2>1. ASSUME NEW i \in 0..n PROVE f[i] = IF i = 0 THEN T ELSE AddSupertype(f[i - 1], t, us[i])
    BY <1>3, <1>8, <1>9
  <2>2. f = [i \in 0..n |-> f[i]]
    BY <1>8
  <2> QED BY <2>1, <2>2
<1>11. Linkings(table)
  <2> HIDE DEF Linkings
  <2> QED BY <1>10
<1>12. table[0] = T /\ \A i \in 1..n : table[i] = AddSupertype(table[i - 1], t, us[i])
  <2> HIDE DEF table
  <2>1. table = [i \in 0..n |-> IF i = 0 THEN T ELSE AddSupertype(table[i - 1], t, us[i])]
    BY <1>11
  <2> QED BY <1>3, <2>1
<1> HIDE DEF table, Linkings
<1> DEFINE Done == {i \in 0..n : Raised(T, table[i], t, {us[j] : j \in 1..i})}
<1>13. 0 \in Done
  <2>1. Raised(T, T, t, {})
    BY DEF Raised
  <2>2. {us[j] : j \in 1..0} = {}
    OBVIOUS
  <2>3. Raised(T, table[0], t, {us[j] : j \in 1..0})
    BY <1>12, <2>1, <2>2
  <2> QED BY <1>3, <2>3
<1>14. ASSUME NEW i \in 1..n, i - 1 \in Done PROVE i \in Done
  <2>1. Acyclic(T, t, us[i])
    BY <1>3 DEF AllAcyclic
  <2>2. PICK W : W = table[i - 1]
    OBVIOUS
  <2>3. PICK vs : vs = {us[j] : j \in 1..(i - 1)}
    OBVIOUS
  <2>4. {us[j] : j \in 1..i} = vs \cup {us[i]}
    BY <1>3, <2>3
  <2>5. Raised(T, W, t, vs)
    BY <1>14, <2>2, <2>3
  <2>6. Raised(T, AddSupertype(W, t, us[i]), t, vs \cup {us[i]})
    BY <2>1, <2>5, RaiseOne
  <2>7. table[i] = AddSupertype(W, t, us[i])
    BY <1>12, <2>2
  <2>8. Raised(T, table[i], t, {us[j] : j \in 1..i})
    BY <2>4, <2>6, <2>7
  <2> QED BY <1>3, <2>8
<1>15. n \in Done
  <2> HIDE DEF Done
  <2>1. 0..n \subseteq Done
    BY <1>3, <1>13, <1>14, UpTo
  <2> QED BY <1>3, <2>1
<1>16. {us[j] : j \in 1..n} = Components(B)
  BY <1>2, SetOf DEF n
<1> QED BY <1>4, <1>15, <1>16

\* The closure that the property speaks of is the least transitive relation around above.
LEMMA ClosureIs ==
  ASSUME IsFiniteSet(TypeNames), \A p \in above : p = <<p[1], p[2]>>
  PROVE  /\ above \subseteq Closure /\ Closure \subseteq TypeNames \X TypeNames
         /\ Transitive(Closure)
         /\ \A R : Transitive(R) /\ above \subseteq R => Closure \subseteq R
<1> DEFINE names == SetToSeq(TypeNames)
           n == Len(names)
           D == SUBSET (TypeNames \X TypeNames)
           Through(R, k) == R \cup {p \in TypeNames \X TypeNames : <<p[1], k>> \in R /\ <<k, p[2]>> \in R}
           F == [p \in (1..n) \X D |-> Through(p[2], names[p[1]])]
           Closures(f) == f = [i \in 0..n |-> IF i = 0 THEN above ELSE Through(f[i - 1], names[i])]
           closure == CHOOSE f : Closures(f)
<1>1. names \in Seq(TypeNames) /\ ToSet(names) = TypeNames
  BY SequenceOfSet
<1>2. n \in Nat /\ \A i \in 1..n : names[i] \in TypeNames
  BY <1>1, ElementsOf
<1>3. TypeNames = {names[i] : i \in 1..n}
  BY <1>1, SetOf
<1>4. Closure = closure[n]
  BY DEF Closure
<1> HIDE DEF names, n
<1>5. above \in D
  BY DEF TypeNames
<1>6. ASSUME NEW R \in D, NEW k PROVE Through(R, k) \in D
  OBVIOUS
<1>7. F \in Steps(n, D)
  <2> HIDE DEF D, Through
  <2> QED BY <1>2, <1>6 DEF Steps
<1>8. PICK f \in [0..n -> D] : f[0] = above /\ \A i \in 1..n : f[i] = F[<<i, f[i - 1]>>]
  <2> HIDE DEF D, F
  <2>1. \E f : f \in Traces(n, D, above, F)
    BY <1>2, <1>5, <1>7, RecursionExists
  <2> QED BY <2>1 DEF Traces
<1>9. ASSUME NEW i \in 1..n PROVE f[i - 1] \in D /\ f[i] = Through(f[i - 1], names[i])
  <2> HIDE DEF D, Through
  <2>1. f[i - 1] \in D
    BY <1>2, <1>8
  <2> QED BY <1>8, <2>1
<1> HIDE DEF Through
<1>10. Closures(f)
  <2>1. ASSUME NEW i \in 0..n PROVE f[i] = IF i = 0 THEN above ELSE Through(f[i - 1], names[i])
    BY <1>2, <1>8, <1>9
  <2>2. f = [i \in 0..n |-> f[i]]
    BY <1>8
  <2> QED BY <2>1, <2>2
<1>11. Closures(closure)
  <2> HIDE DEF Closures
  <2> QED BY <1>10
<1>12. closure[0] = above /\ \A i \in 1..n : closure[i] = Through(closure[i - 1], names[i])
  <2> HIDE DEF closure
  <2>1. closure = [i \in 0..n |-> IF i = 0 THEN above ELSE Through(closure[i - 1], names[i])]
    BY <1>11
  <2> QED BY <1>2, <2>1
<1> HIDE DEF closure, Closures, F
<1> DEFINE Thus(W, i) ==
             /\ W \in D /\ above \subseteq W
             /\ \A j \in 1..i : \A x, y : <<x, names[j]>> \in W /\ <<names[j], y>> \in W => <<x, y>> \in W
             /\ \A R : Transitive(R) /\ above \subseteq R => W \subseteq R
           Done == {i \in 0..n : Thus(closure[i], i)}
<1>13. 0 \in Done
  <2>1. Thus(above, 0)
    BY <1>5
  <2> HIDE DEF Thus
  <2> QED BY <1>2, <1>12, <2>1
<1>14. ASSUME NEW i \in 1..n, i - 1 \in Done PROVE i \in Done
  <2>1. PICK W : W = closure[i - 1]
    OBVIOUS
  <2>2. PICK k : k = names[i]
    OBVIOUS
  <2>3. Thus(W, i - 1)
    BY <1>14, <2>1
  <2>4. PICK W2 : W2 = Through(W, k)
    OBVIOUS
  <2>5. closure[i] = W2
    BY <1>12, <2>1, <2>2, <2>4
  <2>6. W \in D /\ above \subseteq W
    BY <2>3
  <2>7. \A x, y : <<x, y>> \in W2 <=> <<x, y>> \in W \/ (<<x, k>> \in W /\ <<k, y>> \in W)
    BY <2>4, <2>6 DEF Through
  <2>8. W2 \in D /\ above \subseteq W2
    BY <2>4, <2>6 DEF Through
  <2>9. ASSUME NEW j \in 1..i, NEW x, NEW y, <<x, names[j]>> \in W2, <<names[j], y>> \in W2
        PROVE  <<x, y>> \in W2
    <3>1. CASE names[j] = k
      BY <2>7, <2>9, <3>1
    <3>2. CASE names[j] # k
      <4>1. j \in 1..(i - 1)
        BY <1>2, <2>2, <3>2
      <4>2. \A v, w : <<v, names[j]>> \in W /\ <<names[j], w>> \in W => <<v, w>> \in W
        BY <2>3, <4>1
      <4>3. PICK m : m = names[j]
        OBVIOUS
      <4>4. /\ <<x, m>> \in W \/ (<<x, k>> \in W /\ <<k, m>> \in W)
            /\ <<m, y>> \in W \/ (<<m, k>> \in W /\ <<k, y>> \in W)
        BY <2>7, <2>9, <4>3
      <4>5. \A v, w : <<v, m>> \in W /\ <<m, w>> \in W => <<v, w>> \in W
        BY <4>2, <4>3
      <4>6. <<x, y>> \in W \/ (<<x, k>> \in W /\ <<k, y>> \in W)
        BY <4>4, <4>5
      <4> QED BY <2>7, <4>6
    <3> QED BY <3>1, <3>2
  <2>10. ASSUME NEW R, Transitive(R), above \subseteq R PROVE W2 \subseteq R
    <3>1. W \subseteq R
      BY <2>3, <2>10
    <3>2. \A x, y : <<x, y>> \in W2 => <<x, y>> \in R
      BY <2>7, <2>10, <3>1 DEF Transitive
    <3> QED BY <2>8, <3>2
  <2>11. Thus(W2, i)
    BY <2>8, <2>9, <2>10
  <2> HIDE DEF Thus
  <2> QED BY <1>2, <2>5, <2>11
<1>15. n \in Done
  <2> HIDE DEF Done
  <2>1. 0..n \subseteq Done
    BY <1>2, <1>13, <1>14, UpTo
  <2> QED BY <1>2, <2>1
<1>16. Thus(Closure, n)
  BY <1>4, <1>15
<1>17. Transitive(Closure)
  <2> SUFFICES ASSUME NEW x, NEW y, NEW z, <<x, y>> \in Closure, <<y, z>> \in Closure
               PROVE  <<x, z>> \in Closure
    BY DEF Transitive
  <2>1. y \in TypeNames
    BY <1>16
  <2>2. PICK j \in 1..n : y = names[j]
    BY <1>3, <2>1
  <2> QED BY <1>16, <2>2
<1> QED BY <1>16, <1>17

\* What has been declared is in T, and T is in all that is transitive and holds it; or
\* what is has a cycle.
Least(A, T) ==
  /\ Order(T)
  /\ \A p \in A : p[1] = p[2] \/ p \in T
  /\ \A R : Transitive(R) /\ A \subseteq R => T \subseteq R
Cyclic(A) ==
  \A R : Transitive(R) /\ A \subseteq R => \E x, y : x # y /\ <<x, y>> \in R /\ <<y, x>> \in R

LEMMA DeclaredAbove ==
  ASSUME NEW A, NEW T, Least(A, T), NEW t, t # OBJECT, NEW B, IsFiniteSet(B)
  PROVE  LET more == A \cup {<<t, u>> : u \in B \ {OBJECT}}
         IN  IF AllAcyclic(T, t, B) THEN Least(more, AddSupertypes(T, t, B)) ELSE Cyclic(more)
<1> DEFINE more == A \cup {<<t, u>> : u \in B \ {OBJECT}}
<1>1. Order(T)
  BY DEF Least
<1>2. Components(B) \ {OBJECT} = B \ {OBJECT}
  BY DEF Components
<1>3. ASSUME AllAcyclic(T, t, B) PROVE Least(more, AddSupertypes(T, t, B))
  <2>1. PICK W : W = AddSupertypes(T, t, B)
    OBVIOUS
  <2>2. Raised(T, W, t, Components(B))
    BY <1>1, <1>3, <2>1, RaiseAll
  <2>3. \A p \in more : p[1] = p[2] \/ p \in W
    BY <1>2, <2>2 DEF Raised, Least
  <2>4. ASSUME NEW R, Transitive(R), more \subseteq R PROVE W \subseteq R
    <3>1. T \subseteq R
      BY <2>4 DEF Least
    <3>2. \A u \in Components(B) \ {OBJECT} : <<t, u>> \in R
      BY <1>2, <2>4
    <3> QED BY <2>2, <2>4, <3>1, <3>2 DEF Raised
  <2>5. Least(more, W)
    BY <2>2, <2>3, <2>4 DEF Least, Raised
  <2> QED BY <2>1, <2>5
<1>4. ASSUME ~AllAcyclic(T, t, B) PROVE Cyclic(more)
  <2>1. PICK u \in Components(B) : ~Below(T, t, u) /\ Below(T, u, t)
    BY <1>4 DEF AllAcyclic, Acyclic
  <2>2. u \in B \ {OBJECT} /\ u # t /\ <<u, t>> \in T
    BY <1>2, <2>1 DEF Below
  <2>3. <<t, u>> \in more
    BY <2>2
  <2> SUFFICES ASSUME NEW R, Transitive(R), more \subseteq R
               PROVE  \E x, y : x # y /\ <<x, y>> \in R /\ <<y, x>> \in R
    BY DEF Cyclic
  <2>4. T \subseteq R
    BY DEF Least
  <2> QED BY <2>2, <2>3, <2>4
<1> QED BY <1>3, <1>4

Fields == DOMAIN Sim!Start

Accepted(r) == r.success
Reading(r)  == r.end = ""

\* The table is settled before anything else is declared.
HierarchyInv ==
  /\ text \in Texts /\ section \in 1..12
  /\ section <= 2 => scopes = <<>> /\ DOMAIN sim = Fields
  /\ section = 1 => above = {} /\ sim.types = {} /\ Accepted(sim)
  /\ section = 2 => /\ IsFiniteSet(above)
                    /\ \A p \in above : p = <<p[1], p[2]>> /\ p[1] # OBJECT /\ p[2] # OBJECT
                    /\ Reading(sim) => IF Accepted(sim) THEN Least(above, sim.types)
                                       ELSE Cyclic(above)

LEMMA SameTypes ==
  \A T, t, B : /\ Sim!AddSupertypes(T, t, B) = AddSupertypes(T, t, B)
               /\ Sim!AllAcyclic(T, t, B) = AllAcyclic(T, t, B)
BY DEF Sim!AddSupertypes, AddSupertypes, Sim!AllAcyclic, AllAcyclic, Sim!AddSupertype, AddSupertype,
       Sim!Acyclic, Acyclic, Sim!Linked, Linked, Sim!Below, Below, Sim!Names, Names,
       Sim!Components, Components, Sim!OBJECT, OBJECT, Sim!SetToSeq, SetToSeq, Sim!IsInjective, IsInjective,
       Sim!Cardinality, Cardinality

LEMMA FieldsAre ==
  Fields = {"success", "end", "requirements", "types", "constants", "objects", "problem",
            "predicates", "functions", "static", "variables", "frames", "quantified", "name",
            "parameters", "actions", "head", "terms", "term", "atoms", "lists", "values", "metric"}
BY DEF Fields, Sim!Start

LEMMA SectionsAre ==
  ASSUME section \in 1..12
  PROVE  /\ In({"requirements", "more requirements"}) <=> section \in {1, 7}
         /\ In({"types"}) <=> section = 2
         /\ In({"constants", "objects"}) <=> section \in {3, 8}
         /\ In({"predicates"}) <=> section = 4
         /\ In({"functions"}) <=> section = 5
         /\ In({"actions"}) <=> section = 6
         /\ In({"init"}) <=> section = 9
         /\ In({"goal"}) <=> section = 10
         /\ In({"metric"}) <=> section = 11
         /\ In({"end"}) <=> section = 12
         /\ In({"actions", "metric", "end"}) <=> section \in {6, 11, 12}
<1>1. /\ Sections[1] = "requirements" /\ Sections[2] = "types" /\ Sections[3] = "constants"
      /\ Sections[4] = "predicates" /\ Sections[5] = "functions" /\ Sections[6] = "actions"
      /\ Sections[7] = "more requirements" /\ Sections[8] = "objects" /\ Sections[9] = "init"
      /\ Sections[10] = "goal" /\ Sections[11] = "metric" /\ Sections[12] = "end"
  BY DEF Sections
<1>2. /\ section = 1 \/ section = 2 \/ section = 3 \/ section = 4 \/ section = 5 \/ section = 6
         \/ section = 7 \/ section = 8 \/ section = 9 \/ section = 10 \/ section = 11 \/ section = 12
  OBVIOUS
<1> QED BY <1>1, <1>2 DEF In

\* What is read stays in its section; three actions go on to the next.
LEMMA SectionsFollow ==
  ASSUME section \in 1..12, Next
  PROVE  /\ text' = text
         /\ \/ section' = section
            \/ section' = section + 1 /\ section' \in 1..12 /\ scopes' = scopes
               /\ (NextSection \/ BeginProblem \/ EndProblem)
<1>1. ASSUME ReadRequirement \/ ReadType \/ ReadName \/ ReadPredicate \/ ReadFunction
      PROVE  text' = text /\ section' = section
  BY <1>1 DEF ReadRequirement, ReadType, ReadName, ReadPredicate, ReadFunction, Entry
<1>2. ASSUME OpenAction \/ OpenQuantifier \/ Close
      PROVE  text' = text /\ section' = section
  BY <1>2 DEF OpenAction, OpenQuantifier, Close, Entry
<1>3. ASSUME ReadAtom \/ ReadEqual \/ ReadChange \/ ReadUpdate \/ ReadValue \/ ReadOutcomes
      PROVE  text' = text /\ section' = section
  BY <1>3 DEF ReadAtom, ReadEqual, ReadChange, ReadUpdate, ReadValue, ReadOutcomes, Entry
<1>4. ASSUME NextSection \/ BeginProblem \/ EndProblem
      PROVE  text' = text /\ section' = section + 1 /\ section' \in 1..12 /\ scopes' = scopes
  <2>1. CASE NextSection
    <3>1. section' = section + 1 /\ scopes' = scopes /\ text' = text /\ ~In({"actions", "metric", "end"})
      BY <2>1 DEF NextSection
    <3>2. section \notin {6, 11, 12}
      BY <3>1, SectionsAre
    <3> QED BY <3>1, <3>2
  <2>2. CASE BeginProblem
    <3>1. section' = section + 1 /\ scopes' = scopes /\ text' = text /\ In({"actions"})
      BY <2>2 DEF BeginProblem
    <3>2. section = 6
      BY <3>1, SectionsAre
    <3> QED BY <3>1, <3>2
  <2>3. CASE EndProblem
    <3>1. section' = section + 1 /\ scopes' = scopes /\ text' = text /\ In({"metric"})
      BY <2>3 DEF EndProblem
    <3>2. section = 11
      BY <3>1, SectionsAre
    <3> QED BY <3>1, <3>2
  <2> QED BY <1>4, <2>1, <2>2, <2>3
<1> QED BY <1>1, <1>2, <1>3, <1>4 DEF Next

LEMMA InitHierarchy == ASSUME Init PROVE HierarchyInv
<1>1. text \in Texts /\ section = 1 /\ scopes = <<>> /\ above = {} /\ sim = Sim!Start
  BY DEF Init
<1>2. DOMAIN sim = Fields
  BY <1>1 DEF Fields
<1>3. sim.types = {} /\ Accepted(sim)
  BY <1>1 DEF Sim!Start, Accepted
<1> QED BY <1>1, <1>2, <1>3 DEF HierarchyInv

LEMMA RequirementHierarchy == ASSUME HierarchyInv, ReadRequirement, section <= 2 PROVE HierarchyInv'
<1>1. section = 1 /\ DOMAIN sim = Fields
  <2>1. section \in 1..12 /\ DOMAIN sim = Fields
    BY DEF HierarchyInv
  <2>2. In({"requirements", "more requirements"})
    BY DEF ReadRequirement
  <2>3. section \in {1, 7}
    BY <2>1, <2>2, SectionsAre
  <2> QED BY <2>1, <2>3
<1>2. PICK key : Entry(Sim!RequireKey(sim, key), Plan!RequireKey(plan, key))
  BY DEF ReadRequirement
<1>3. PICK r : r = Sim!RequireKey(sim, key)
  OBVIOUS
<1>4. DOMAIN r = Fields /\ r.types = sim.types /\ (Accepted(r) <=> Accepted(sim))
  BY <1>1, <1>3, FieldsAre DEF Sim!RequireKey, Sim!AddFunction, Sim!Assume, Accepted
<1>5. sim' \in {r, sim} /\ text' = text /\ section' = section
  BY <1>2, <1>3 DEF Entry
<1>6. UNCHANGED <<scopes, above>>
  BY DEF ReadRequirement
<1> QED BY <1>1, <1>4, <1>5, <1>6 DEF HierarchyInv

LEMMA TypeHierarchy == ASSUME HierarchyInv, ReadType PROVE HierarchyInv'
<1>1. section = 2 /\ DOMAIN sim = Fields /\ text \in Texts
  <2>1. section \in 1..12 /\ text \in Texts /\ In({"types"})
    BY DEF HierarchyInv, ReadType
  <2>2. section = 2
    BY <2>1, SectionsAre
  <2> QED BY <2>1, <2>2 DEF HierarchyInv
<1>2. PICK d \in text.types :
        /\ Entry(Sim!AddTypeName(Sim!TypeSpec(sim, d[2]), d[1], d[2]),
                 Plan!AddTypeName(Plan!TypeSpec(plan, d[2]), d[1], d[2]))
        /\ above' = IF d[1] \in {OBJECT, "number"} THEN above
                    ELSE above \cup {<<d[1], u>> : u \in d[2] \ {OBJECT}}
  BY DEF ReadType
<1>3. PICK t, B : t = d[1] /\ B = d[2]
  OBVIOUS
<1>4. IsFiniteSet(B)
  BY <1>1, <1>3, TextsAssumption
<1>5. PICK q : q = Sim!TypeSpec(sim, B)
  OBVIOUS
<1>6. /\ DOMAIN q = Fields /\ q.types = sim.types /\ (Accepted(q) <=> Accepted(sim))
      /\ Reading(q) => Reading(sim)
  BY <1>1, <1>5, FieldsAre DEF Sim!TypeSpec, Sim!Assume, Accepted, Reading
<1>7. PICK r : r = Sim!AddTypeName(q, t, B)
  OBVIOUS
<1>8. /\ section' = section /\ text' = text /\ UNCHANGED scopes
      /\ sim' = IF Reading(sim) THEN r ELSE sim
  BY <1>2, <1>3, <1>5, <1>7 DEF Entry, ReadType, Reading
<1>9. CASE t \in {OBJECT, "number"}
  <2>1. r = q /\ above' = above
    <3>1. r = q
      BY <1>7, <1>9 DEF Sim!AddTypeName, Sim!OBJECT, OBJECT
    <3>2. d[1] \in {OBJECT, "number"}
      BY <1>3, <1>9
    <3>3. above' = above
      BY <1>2, <3>2
    <3> QED BY <3>1, <3>3
  <2>2. /\ DOMAIN sim' = Fields /\ sim'.types = sim.types /\ (Accepted(sim') <=> Accepted(sim))
        /\ Reading(sim') => Reading(sim)
    BY <1>1, <1>6, <1>8, <2>1
  <2> QED BY <1>1, <1>8, <2>1, <2>2 DEF HierarchyInv
<1>10. CASE t \notin {OBJECT, "number"}
  <2>1. PICK more : more = above \cup {<<t, u>> : u \in B \ {OBJECT}}
    OBVIOUS
  <2>2. above' = more
    BY <1>2, <1>3, <1>10, <2>1
  <2>3. IsFiniteSet(more)
    <3>1. PICK C : C = {<<t, u>> : u \in B \ {OBJECT}}
      OBVIOUS
    <3>2. IsFiniteSet(B \ {OBJECT})
      BY <1>4, FS_RemoveElement
    <3>3. [u \in B \ {OBJECT} |-> <<t, u>>] \in Surjection(B \ {OBJECT}, C)
      BY <3>1 DEF Surjection
    <3>4. IsFiniteSet(C)
      BY <3>2, <3>3, FS_Surjection
    <3> QED BY <1>1, <2>1, <3>1, <3>4, FS_Union DEF HierarchyInv
  <2>4. \A p \in more : p = <<p[1], p[2]>> /\ p[1] # OBJECT /\ p[2] # OBJECT
    <3>1. \A p \in above : p = <<p[1], p[2]>> /\ p[1] # OBJECT /\ p[2] # OBJECT
      BY <1>1 DEF HierarchyInv
    <3> QED BY <1>10, <2>1, <3>1
  <2>5. PICK W, ok : W = AddSupertypes(sim.types, t, B) /\ ok = AllAcyclic(sim.types, t, B)
    OBVIOUS
  <2>6. /\ DOMAIN r = Fields /\ r.types = W
        /\ Reading(r) => Reading(q)
        /\ Accepted(r) <=> ok /\ Accepted(q)
    <3>1. PICK w : w = [q EXCEPT !.types = AddSupertypes(@, t, B)]
      OBVIOUS
    <3>2. DOMAIN w = Fields /\ w.end = q.end /\ w.types = W /\ (Accepted(w) <=> Accepted(q))
      BY <1>6, <2>5, <3>1, FieldsAre DEF Accepted
    <3>3. r = IF ok THEN w ELSE [w EXCEPT !.success = FALSE]
      <4>1. r = Sim!Check([q EXCEPT !.types = Sim!AddSupertypes(@, t, B)], Sim!AllAcyclic(q.types, t, B))
        BY <1>7, <1>10 DEF Sim!AddTypeName, Sim!OBJECT, OBJECT
      <4>2. Sim!Check(w, Sim!AllAcyclic(q.types, t, B)) = IF ok THEN w ELSE [w EXCEPT !.success = FALSE]
        BY <1>6, <2>5, SameTypes DEF Sim!Check, Sim!Fail
      <4> QED BY <3>1, <4>1, <4>2, SameTypes
    <3>4. PICK v : v = [w EXCEPT !.success = FALSE]
      OBVIOUS
    <3>5. DOMAIN v = Fields /\ v.end = q.end /\ v.types = W /\ ~Accepted(v)
      BY <3>2, <3>4, FieldsAre DEF Accepted
    <3>6. IF ok THEN r = w ELSE r = v
      BY <3>3, <3>4
    <3> QED BY <3>2, <3>5, <3>6 DEF Reading
  <2>7. ASSUME Reading(sim')
        PROVE  IF Accepted(sim') THEN Least(more, sim'.types) ELSE Cyclic(more)
    <3>1. Reading(sim) /\ sim' = r
      BY <1>6, <1>8, <2>7
    <3>2. CASE Accepted(sim)
      <4>1. Least(above, sim.types)
        BY <1>1, <3>1, <3>2 DEF HierarchyInv
      <4>2. IF ok THEN Least(more, W) ELSE Cyclic(more)
        BY <1>4, <1>10, <2>1, <2>5, <4>1, DeclaredAbove
      <4> QED BY <1>6, <2>6, <3>1, <3>2, <4>2
    <3>3. CASE ~Accepted(sim)
      <4>1. Cyclic(above)
        BY <1>1, <3>1, <3>3 DEF HierarchyInv
      <4>2. Cyclic(more)
        BY <2>1, <4>1 DEF Cyclic
      <4> QED BY <1>6, <2>6, <3>1, <3>3, <4>2
    <3> QED BY <3>2, <3>3
  <2>8. DOMAIN sim' = Fields
    BY <1>1, <1>8, <2>6
  <2>9. scopes' = <<>>
    BY <1>1, <1>8 DEF HierarchyInv
  <2> QED BY <1>1, <1>8, <2>2, <2>3, <2>4, <2>7, <2>8, <2>9 DEF HierarchyInv
<1> QED BY <1>9, <1>10

LEMMA HierarchyStep == ASSUME HierarchyInv, [Next]_vars PROVE HierarchyInv'
<1>1. section \in 1..12 /\ text \in Texts
  BY DEF HierarchyInv
<1>2. CASE UNCHANGED vars
  <2>1. UNCHANGED <<text, section, sim, scopes, above>>
    BY <1>2 DEF vars
  <2> QED BY <2>1 DEF HierarchyInv
<1>3. CASE Next /\ section > 2
  <2>1. text' = text /\ section' \in 1..12 /\ section' > 2
    BY <1>1, <1>3, SectionsFollow
  <2> QED BY <1>1, <2>1 DEF HierarchyInv
<1>4. CASE Next /\ section <= 2
  <2>1. scopes = <<>>
    BY <1>4 DEF HierarchyInv
  <2>2. /\ ~In({"constants", "objects"}) /\ ~In({"predicates"}) /\ ~In({"functions"})
        /\ ~In({"actions"}) /\ ~In({"init"}) /\ ~In({"goal"}) /\ ~In({"metric"})
    <3>1. section = 1 \/ section = 2
      BY <1>1, <1>4
    <3>2. section \notin {3, 8} /\ section # 4 /\ section # 5 /\ section # 6 /\ section # 9
          /\ section # 10 /\ section # 11
      BY <3>1
    <3> QED BY <1>1, <3>2, SectionsAre
  <2>3. ~InFormula
    BY <2>2 DEF InFormula
  <2>4. ~ReadName /\ ~ReadPredicate /\ ~ReadFunction /\ ~OpenAction /\ ~OpenQuantifier /\ ~Close
    BY <2>1, <2>2, <2>3 DEF ReadName, ReadPredicate, ReadFunction, OpenAction, OpenQuantifier, Close
  <2>5. ~ReadAtom /\ ~ReadEqual /\ ~ReadChange /\ ~ReadUpdate /\ ~ReadValue
    BY <2>2, <2>3 DEF ReadAtom, ReadEqual, ReadChange, ReadUpdate, ReadValue
  <2>6. ~ReadOutcomes /\ ~BeginProblem /\ ~EndProblem
    BY <2>2 DEF ReadOutcomes, BeginProblem, EndProblem
  <2>7. ReadRequirement \/ ReadType \/ NextSection
    BY <1>4, <2>4, <2>5, <2>6 DEF Next
  <2>8. CASE NextSection
    <3>1. section' = section + 1 /\ UNCHANGED <<text, sim, scopes, above>>
      BY <2>8 DEF NextSection
    <3>2. Least({}, {}) /\ IsFiniteSet({})
      BY FS_EmptySet DEF Least, Order, Transitive
    <3>3. CASE section = 1
      <4>1. /\ section' = 2 /\ above' = {} /\ sim'.types = {} /\ Accepted(sim')
            /\ scopes' = <<>> /\ DOMAIN sim' = Fields /\ text' \in Texts
        BY <3>1, <3>3 DEF HierarchyInv, Accepted
      <4> QED BY <3>2, <4>1 DEF HierarchyInv
    <3>4. CASE section = 2
      <4>1. section' = 3 /\ text' \in Texts
        BY <1>1, <3>1, <3>4
      <4> QED BY <4>1 DEF HierarchyInv
    <3> QED BY <1>1, <1>4, <3>3, <3>4
  <2> QED BY <1>4, <2>7, <2>8, RequirementHierarchy, TypeHierarchy
<1> QED BY <1>1, <1>2, <1>3, <1>4

\* The table of subtypes, updated with every declaration and in any order of them, is the
\* transitive closure of what has been declared, and a declaration is refused exactly when
\* it closes a cycle.
THEOREM HierarchyIsClosed == Spec => []HierarchyExact
<1>1. HierarchyInv => HierarchyExact
  <2> SUFFICES ASSUME HierarchyInv, In({"types"}), sim.end = ""
               PROVE  IF \E p \in Closure : p[1] # p[2] /\ <<p[2], p[1]>> \in Closure THEN ~sim.success
                      ELSE /\ sim.success
                           /\ \A x, y \in TypeNames :
                                Below(sim.types, x, y) <=> (x = y \/ y = OBJECT \/ <<x, y>> \in Closure)
    BY DEF HierarchyExact
  <2>1. /\ section = 2 /\ IsFiniteSet(above)
        /\ \A p \in above : p = <<p[1], p[2]>> /\ p[1] # OBJECT /\ p[2] # OBJECT
        /\ IF Accepted(sim) THEN Least(above, sim.types) ELSE Cyclic(above)
    BY SectionsAre DEF HierarchyInv, Reading
  <2>2. IsFiniteSet(TypeNames)
    <3>1. [d \in above |-> d[1]] \in Surjection(above, {d[1] : d \in above})
      BY DEF Surjection
    <3>2. [d \in above |-> d[2]] \in Surjection(above, {d[2] : d \in above})
      BY DEF Surjection
    <3>3. IsFiniteSet({d[1] : d \in above}) /\ IsFiniteSet({d[2] : d \in above})
      BY <2>1, <3>1, <3>2, FS_Surjection
    <3>4. IsFiniteSet({d[1] : d \in above} \cup {d[2] : d \in above})
      BY <3>3, FS_Union
    <3> QED BY <3>4, FS_AddElement DEF TypeNames
  <2>3. PICK C : C = Closure
    OBVIOUS
  <2>4. /\ above \subseteq C /\ C \subseteq TypeNames \X TypeNames /\ Transitive(C)
        /\ \A R : Transitive(R) /\ above \subseteq R => C \subseteq R
    BY <2>1, <2>2, <2>3, ClosureIs
  <2>5. CASE ~Accepted(sim)
    <3>1. \E x, y : x # y /\ <<x, y>> \in C /\ <<y, x>> \in C
      BY <2>1, <2>4, <2>5 DEF Cyclic
    <3>2. \E p \in C : p[1] # p[2] /\ <<p[2], p[1]>> \in C
      BY <3>1
    <3> QED BY <2>3, <2>5, <3>2 DEF Accepted
  <2>6. CASE Accepted(sim)
    <3>1. PICK T : T = sim.types
      OBVIOUS
    <3>2. Order(T) /\ (\A p \in above : p[1] = p[2] \/ p \in T) /\ T \subseteq C
      BY <2>1, <2>4, <2>6, <3>1 DEF Least
    <3>3. PICK R : R = T \cup {<<x, x>> : x \in TypeNames}
      OBVIOUS
    <3>4. Transitive(R)
      <4>1. \A x, y : <<x, y>> \in R => <<x, y>> \in T \/ x = y
        BY <3>3
      <4>2. \A x, y, z : <<x, y>> \in T /\ <<y, z>> \in T => <<x, z>> \in T
        BY <3>2 DEF Order, Transitive
      <4>3. T \subseteq R
        BY <3>3
      <4> SUFFICES ASSUME NEW x, NEW y, NEW z, <<x, y>> \in R, <<y, z>> \in R PROVE <<x, z>> \in R
        BY DEF Transitive
      <4>4. CASE <<x, y>> \in T /\ <<y, z>> \in T
        BY <4>2, <4>3, <4>4
      <4> QED BY <4>1, <4>4
    <3>5. above \subseteq R
      BY <2>1, <3>2, <3>3 DEF TypeNames
    <3>6. C \subseteq R
      BY <2>4, <3>4, <3>5
    <3>7. \A x, y : <<x, y>> \in C /\ x # y => <<x, y>> \in T
      BY <3>3, <3>6
    <3>8. ~\E p \in C : p[1] # p[2] /\ <<p[2], p[1]>> \in C
      <4>1. SUFFICES ASSUME NEW p \in C, p[1] # p[2], <<p[2], p[1]>> \in C PROVE FALSE
        OBVIOUS
      <4>2. PICK x, y : x = p[1] /\ y = p[2]
        OBVIOUS
      <4>3. p = <<x, y>>
        <5>1. C \subseteq TypeNames \X TypeNames
          BY <2>4
        <5>2. p \in TypeNames \X TypeNames
          BY <5>1
        <5> QED BY <4>2, <5>2, PairIs
      <4>4. <<x, y>> \in T /\ <<y, x>> \in T
        BY <3>7, <4>1, <4>2, <4>3
      <4>5. <<x, x>> \in T
        BY <3>2, <4>4 DEF Order, Transitive
      <4> QED BY <3>2, <4>5 DEF Order
    <3>9. \A x, y : <<x, y>> \in C => x # OBJECT
      <4>1. PICK S : S = {p \in C : p[1] # OBJECT}
        OBVIOUS
      <4>2. \A x, y : <<x, y>> \in S <=> <<x, y>> \in C /\ x # OBJECT
        BY <4>1
      <4>3. Transitive(S)
        BY <2>4, <4>2 DEF Transitive
      <4>4. above \subseteq S
        BY <2>1, <2>4, <4>1
      <4>5. C \subseteq S
        BY <2>4, <4>3, <4>4
      <4> QED BY <4>2, <4>5
    <3>10. \A x, y : Below(T, x, y) <=> (x = y \/ y = OBJECT \/ <<x, y>> \in C)
      BY <3>2, <3>7, <3>9 DEF Below
    <3> QED BY <2>3, <2>6, <3>1, <3>8, <3>10 DEF Accepted
  <2> QED BY <2>5, <2>6
<1> QED BY <1>1, InitHierarchy, HierarchyStep, PTL DEF Spec

-----------------------------------------------------------------------------
(* Variables: what has no variables of its own leaves the binders alone, or *)
(* the file is refused.                                                     *)

Good(r) == r.success /\ r.end = ""

Kept(r, s) ==
  DOMAIN r = Fields =>
    /\ DOMAIN s = Fields
    /\ Good(s) => /\ Good(r)
                  /\ s.quantified = r.quantified /\ s.lists = r.lists
                  /\ s.parameters = r.parameters /\ s.variables = r.variables

\* What else such a step leaves alone: the functions there are do not become static again,
\* and a problem does not begin to have rewards.
Quiet(r, s) ==
  /\ s.metric = r.metric
  /\ s.end = "" => r.end = ""
  /\ "rewards" \in s.requirements => "rewards" \in r.requirements
  /\ DOMAIN r.functions \subseteq DOMAIN s.functions
  /\ \A f \in DOMAIN r.functions : <<"functions", f>> \in s.static => <<"functions", f>> \in r.static

Calm(r, s) == Kept(r, s) /\ (DOMAIN r = Fields => Quiet(r, s))

LEMMA QuietTwice == ASSUME NEW r, NEW s, NEW u, Quiet(r, s), Quiet(s, u) PROVE Quiet(r, u)
BY DEF Quiet

Alike(r, s) ==
  /\ s.metric = r.metric /\ s.end = r.end /\ s.requirements = r.requirements
  /\ s.functions = r.functions /\ s.static = r.static

LEMMA AlikeIsQuiet == ASSUME NEW r, NEW s, Alike(r, s) PROVE Quiet(r, s)
BY DEF Alike, Quiet

LEMMA KeptSame == ASSUME NEW r PROVE Kept(r, r)
BY DEF Kept

LEMMA KeptTwice == ASSUME NEW r, NEW s, NEW u, Kept(r, s), Kept(s, u) PROVE Kept(r, u)
BY DEF Kept

LEMMA CalmTwice == ASSUME NEW r, NEW s, NEW u, Calm(r, s), Calm(s, u) PROVE Calm(r, u)
BY DEF Kept, Calm, Quiet

LEMMA CalmSame == ASSUME NEW r PROVE Calm(r, r)
BY DEF Kept, Calm, Quiet

\* The fields that have nothing to do with all this.
Apart == Fields \ {"success", "end", "quantified", "lists", "parameters", "variables",
                   "metric", "requirements", "functions", "static"}

LEMMA CalmOne == ASSUME NEW r, NEW f \in Apart, NEW v PROVE Calm(r, [r EXCEPT ![f] = v])
BY FieldsAre DEF Kept, Calm, Quiet, Apart, Good

LEMMA CalmFailed ==
  ASSUME NEW r
  PROVE  /\ Calm(r, Sim!Fail(r)) /\ \A c \in BOOLEAN : Calm(r, Sim!Check(r, c))
         /\ DOMAIN r = Fields => ~Good(Sim!Fail(r))
<1>1. PICK s : s = Sim!Fail(r)
  OBVIOUS
<1>2. DOMAIN r = Fields => /\ DOMAIN s = Fields /\ ~s.success /\ s.end = r.end /\ s.metric = r.metric
                           /\ s.requirements = r.requirements /\ s.functions = r.functions /\ s.static = r.static
  BY <1>1, FieldsAre DEF Sim!Fail
<1>3. DOMAIN r = Fields => ~Good(s)
  BY <1>2 DEF Good
<1>4. Calm(r, s)
  BY <1>2, <1>3 DEF Kept, Calm, Quiet
<1>5. ASSUME NEW c \in BOOLEAN PROVE Calm(r, Sim!Check(r, c))
  BY <1>1, <1>4, CalmSame DEF Sim!Check
<1> QED BY <1>1, <1>3, <1>4, <1>5

\* A requirement.
LEMMA KeptAssumed ==
  ASSUME NEW r, NEW x
  PROVE  /\ Kept(r, Sim!Assume(r, x))
         /\ x # "rewards" => Calm(r, Sim!Assume(r, x))
<1>1. PICK s : s = Sim!Assume(r, x)
  OBVIOUS
<1>2. DOMAIN r = Fields =>
        /\ DOMAIN s = Fields /\ s.success = r.success /\ s.end = r.end
        /\ s.quantified = r.quantified /\ s.lists = r.lists
        /\ s.parameters = r.parameters /\ s.variables = r.variables
        /\ s.requirements = r.requirements \cup {x}
        /\ s.metric = r.metric /\ s.functions = r.functions /\ s.static = r.static
  BY <1>1, FieldsAre DEF Sim!Assume
<1>3. Kept(r, s)
  BY <1>2 DEF Kept, Good
<1>4. x # "rewards" => Calm(r, s)
  BY <1>2, <1>3 DEF Calm, Quiet
<1> QED BY <1>1, <1>3, <1>4

\* A function: one that is there becomes static again.
LEMMA KeptFunction ==
  ASSUME NEW r, NEW f
  PROVE  /\ Kept(r, Sim!AddFunction(r, f))
         /\ f \notin DOMAIN r.functions => Calm(r, Sim!AddFunction(r, f))
<1>1. PICK s : s = Sim!AddFunction(r, f)
  OBVIOUS
<1>2. DOMAIN r = Fields =>
        /\ DOMAIN s = Fields /\ s.success = r.success /\ s.end = r.end
        /\ s.quantified = r.quantified /\ s.lists = r.lists
        /\ s.parameters = r.parameters /\ s.variables = r.variables
        /\ s.requirements = r.requirements /\ s.metric = r.metric
        /\ DOMAIN r.functions \subseteq DOMAIN s.functions
        /\ s.static = r.static \cup {<<"functions", f>>}
  BY <1>1, FieldsAre DEF Sim!AddFunction, Sim!WithEntry
<1>3. Kept(r, s)
  BY <1>2 DEF Kept, Good
<1>4. ASSUME f \notin DOMAIN r.functions, DOMAIN r = Fields PROVE Quiet(r, s)
  <2>1. \A g \in DOMAIN r.functions : <<"functions", g>> # <<"functions", f>>
    BY <1>4
  <2> QED BY <1>2, <1>4, <2>1 DEF Quiet
<1> QED BY <1>1, <1>3, <1>4 DEF Calm

LEMMA CalmNames ==
  ASSUME NEW r, NEW t, NEW x, NEW v
  PROVE  /\ Calm(r, Sim!AddPredicate(r, x))
         /\ Calm(r, Sim!MakeDynamic(r, t, x))
         /\ Calm(r, Sim!AddObject(r, x, v))
         /\ Calm(r, Sim!AddConstantName(r, x, v))
         /\ Calm(r, Sim!AddObjectName(r, x, v))
<1>1. ASSUME NEW s, DOMAIN r = Fields =>
                      /\ DOMAIN s = Fields /\ s.success = r.success /\ s.end = r.end
                      /\ s.quantified = r.quantified /\ s.lists = r.lists
                      /\ s.parameters = r.parameters /\ s.variables = r.variables
                      /\ s.requirements = r.requirements /\ s.metric = r.metric /\ s.functions = r.functions
                      /\ \A f : <<"functions", f>> \in s.static => <<"functions", f>> \in r.static
      PROVE  Calm(r, s)
  BY <1>1 DEF Calm, Kept, Quiet, Good
<1>2. Calm(r, Sim!AddPredicate(r, x))
  <2>1. PICK s : s = Sim!AddPredicate(r, x)
    OBVIOUS
  <2>2. DOMAIN r = Fields =>
          /\ DOMAIN s = Fields /\ s.success = r.success /\ s.end = r.end
          /\ s.quantified = r.quantified /\ s.lists = r.lists
          /\ s.parameters = r.parameters /\ s.variables = r.variables
          /\ s.requirements = r.requirements /\ s.metric = r.metric /\ s.functions = r.functions
          /\ s.static = r.static \cup {<<"predicates", x>>}
    BY <2>1, FieldsAre DEF Sim!AddPredicate
  <2>3. \A f : <<"functions", f>> # <<"predicates", x>>
    OBVIOUS
  <2> QED BY <1>1, <2>1, <2>2, <2>3
<1>3. Calm(r, Sim!MakeDynamic(r, t, x))
  <2>1. PICK s : s = Sim!MakeDynamic(r, t, x)
    OBVIOUS
  <2>2. DOMAIN r = Fields =>
          /\ DOMAIN s = Fields /\ s.success = r.success /\ s.end = r.end
          /\ s.quantified = r.quantified /\ s.lists = r.lists
          /\ s.parameters = r.parameters /\ s.variables = r.variables
          /\ s.requirements = r.requirements /\ s.metric = r.metric /\ s.functions = r.functions
          /\ s.static \subseteq r.static
    BY <2>1, FieldsAre DEF Sim!MakeDynamic
  <2> QED BY <1>1, <2>1, <2>2
<1>4. \A f \in {"objects", "constants"} : \A w : Calm(r, [r EXCEPT ![f] = w])
  BY CalmOne, FieldsAre DEF Apart
<1>5. /\ Calm(r, Sim!AddObject(r, x, v)) /\ Calm(r, Sim!AddConstantName(r, x, v))
      /\ Calm(r, Sim!AddObjectName(r, x, v))
  BY <1>4, CalmSame DEF Sim!AddObject, Sim!AddConstantName, Sim!AddObjectName
<1> QED BY <1>2, <1>3, <1>5

\* What specifications of types make of a record: a requirement, or an exception.
LEMMA SpecifiedIs ==
  \A r, B, types : \E q \in {r, Sim!Assume(r, "typing")}, u \in {r, Sim!Assume(r, "typing")} :
    /\ Sim!TypeSpec(r, B) \in {q, [q EXCEPT !.end = "thrown"]}
    /\ Sim!TypeSpecs(r, types) \in {u, [u EXCEPT !.end = "thrown"]}
BY DEF Sim!TypeSpec, Sim!TypeSpecs

LEMMA CalmTypes ==
  ASSUME NEW r, NEW x, NEW B, NEW table \in {"predicates", "functions"}
  PROVE  /\ Calm(r, Sim!TypeSpec(r, B)) /\ \A types : Calm(r, Sim!TypeSpecs(r, types))
         /\ Calm(r, Sim!AddTypeName(r, x, B))
         /\ Calm(r, Sim!AddParameter(r, table, x, B))
<1>1. Calm(r, Sim!TypeSpec(r, B)) /\ \A types : Calm(r, Sim!TypeSpecs(r, types))
  <2>1. ASSUME NEW q \in {r, Sim!Assume(r, "typing")}, NEW s, s = [q EXCEPT !.end = "thrown"]
        PROVE  Calm(r, q) /\ Calm(r, s)
    <3>1. Calm(r, q)
      BY <2>1, KeptAssumed, CalmSame
    <3>2. Calm(q, s)
      BY <2>1, FieldsAre DEF Kept, Calm, Quiet, Good
    <3> QED BY <3>1, <3>2, CalmTwice
  <2> QED BY <2>1, SpecifiedIs
<1>2. Calm(r, Sim!AddTypeName(r, x, B))
  <2>1. PICK q : q = [r EXCEPT !.types = Sim!AddSupertypes(@, x, B)]
    OBVIOUS
  <2>2. Calm(r, q)
    BY <2>1, CalmOne, FieldsAre DEF Apart
  <2>3. Sim!AllAcyclic(r.types, x, B) \in BOOLEAN
    BY DEF Sim!AllAcyclic
  <2>4. Calm(q, Sim!Check(q, Sim!AllAcyclic(r.types, x, B)))
    BY <2>3, CalmFailed
  <2>5. Sim!AddTypeName(r, x, B) \in {r, Sim!Check(q, Sim!AllAcyclic(r.types, x, B))}
    BY <2>1 DEF Sim!AddTypeName
  <2> QED BY <2>2, <2>4, <2>5, CalmTwice, CalmSame
<1>3. Calm(r, Sim!AddParameter(r, table, x, B))
  <2>1. CASE table = "predicates"
    BY <2>1, CalmOne, FieldsAre DEF Sim!AddParameter, Apart
  <2>2. CASE table = "functions"
    <3>1. PICK s : s = [r EXCEPT !["functions"][x] = Append(@, B)]
      OBVIOUS
    <3>2. DOMAIN r = Fields =>
            /\ DOMAIN s = Fields /\ s.success = r.success /\ s.end = r.end
            /\ s.quantified = r.quantified /\ s.lists = r.lists
            /\ s.parameters = r.parameters /\ s.variables = r.variables
            /\ s.requirements = r.requirements /\ s.metric = r.metric /\ s.static = r.static
            /\ DOMAIN s.functions = DOMAIN r.functions
      BY <3>1, FieldsAre
    <3>3. Calm(r, s)
      BY <3>2 DEF Kept, Calm, Quiet, Good
    <3> QED BY <2>2, <3>1, <3>3 DEF Sim!AddParameter
  <2> QED BY <2>1, <2>2
<1> QED BY <1>1, <1>2, <1>3

\* Requirements leave the binders alone.
LEMMA KeptRequired == ASSUME NEW r, NEW x PROVE Kept(r, Sim!RequireKey(r, x))
<1>1. ASSUME NEW X PROVE Kept(r, [r EXCEPT !.requirements = X])
  BY FieldsAre DEF Kept, Good
<1>2. CASE x = "adl"
  BY <1>1, <1>2 DEF Sim!RequireKey
<1>3. CASE x = "mdp"
  <2>1. PICK q : q = [r EXCEPT !.requirements = @ \cup {"probabilistic-effects", "rewards"}]
    OBVIOUS
  <2>2. Kept(r, q)
    BY <1>1, <2>1
  <2> QED BY <1>3, <2>1, <2>2, KeptFunction, KeptTwice DEF Sim!RequireKey
<1>4. CASE x = "rewards"
  BY <1>4, KeptAssumed, KeptFunction, KeptTwice DEF Sim!RequireKey
<1>5. CASE x \notin {"adl", "mdp", "rewards"}
  BY <1>5, KeptAssumed DEF Sim!RequireKey
<1> QED BY <1>2, <1>3, <1>4, <1>5

\* A name or term that is unknown is entered into a table, or fails the file.
LEMMA CalmPrepared ==
  ASSUME NEW r, NEW x, NEW place
  PROVE  Calm(r, Sim!PrepareAtom(r, x)) /\ Calm(r, Sim!PrepareFluent(r, x, place))
<1>1. ASSUME NEW q, NEW h PROVE Calm(q, [q EXCEPT !.head = h, !.terms = <<>>])
  BY FieldsAre DEF Kept, Calm, Quiet, Good
<1>2. Calm(r, Sim!PrepareAtom(r, x))
  <2>1. PICK q : q = IF x \notin DOMAIN r.predicates THEN Sim!AddPredicate(r, x) ELSE r
    OBVIOUS
  <2>2. Calm(r, q)
    BY <2>1, CalmNames, CalmSame
  <2>3. \E h : Sim!PrepareAtom(r, x) = [q EXCEPT !.head = h, !.terms = <<>>]
    BY <2>1 DEF Sim!PrepareAtom
  <2> QED BY <1>1, <2>2, <2>3, CalmTwice
<1>3. Calm(r, Sim!PrepareFluent(r, x, place))
  <2>1. PICK q : q = IF x \notin DOMAIN r.functions THEN Sim!AddFunction(r, x) ELSE r
    OBVIOUS
  <2>2. Calm(r, q)
    BY <2>1, KeptFunction, CalmSame
  <2>3. PICK s : s = CASE "rewards" \in r.requirements /\ x = "reward" -> Sim!Check(q, place # "formula")
                       [] x \in {"total-time", "goal-achieved"}        -> Sim!Check(q, place = "metric")
                       [] OTHER                                        -> Sim!Assume(q, "fluents")
    OBVIOUS
  <2>4. s \in {Sim!Check(q, place # "formula"), Sim!Check(q, place = "metric"), Sim!Assume(q, "fluents")}
    BY <2>3
  <2>5. Calm(q, s)
    BY <2>4, CalmFailed, KeptAssumed
  <2>6. \E h : Sim!PrepareFluent(r, x, place) = [s EXCEPT !.head = h, !.terms = <<>>]
    BY <2>1, <2>3 DEF Sim!PrepareFluent
  <2>7. Calm(s, Sim!PrepareFluent(r, x, place))
    BY <1>1, <2>6
  <2> QED BY <2>2, <2>5, <2>7, CalmTwice
<1> QED BY <1>2, <1>3

LEMMA CalmTerm ==
  ASSUME NEW r, NEW x
  PROVE  /\ Calm(r, Sim!MakeTerm(r, x))
         /\ DOMAIN r = Fields => Sim!MakeTerm(r, x).head = r.head
<1>1. CASE x \in VariableNames
  <2>1. PICK s : s = Sim!Fail(r)
    OBVIOUS
  <2>2. DOMAIN r = Fields => DOMAIN s = Fields /\ ~s.success /\ s.head = r.head /\ Alike(r, s)
    BY <2>1, FieldsAre DEF Sim!Fail, Alike
  <2>3. \E v, w, f : Sim!MakeTerm(r, x) \in
           {[r EXCEPT !.term = v], [s EXCEPT !.end = "undefined"],
            [s EXCEPT !.variables = w, !.frames = f, !.term = v]}
    <3>1. CASE Sim!Find(r.frames, x) # 0
      BY <1>1, <3>1 DEF Sim!MakeTerm
    <3>2. CASE Sim!Find(r.frames, x) = 0 /\ r.frames = <<>>
      BY <1>1, <2>1, <3>2 DEF Sim!MakeTerm
    <3>3. CASE Sim!Find(r.frames, x) = 0 /\ r.frames # <<>>
      <4>1. \E v : Sim!MakeTerm(r, x) =
                     [s EXCEPT !.variables = Append(@, <<x, {Sim!OBJECT}>>),
                               !.frames = Sim!Insert(@, x, Len(r.variables) + 1), !.term = v]
        BY <1>1, <2>1, <3>3 DEF Sim!MakeTerm
      <4> QED BY <4>1
    <3> QED BY <3>1, <3>2, <3>3
  <2>4. PICK v, w, f : Sim!MakeTerm(r, x) \in
           {[r EXCEPT !.term = v], [s EXCEPT !.end = "undefined"],
            [s EXCEPT !.variables = w, !.frames = f, !.term = v]}
    BY <2>3
  <2>5. PICK m : m = [r EXCEPT !.term = v]
    OBVIOUS
  <2>11. Calm(r, m) /\ (DOMAIN r = Fields => m.head = r.head)
    BY <2>5, CalmOne, FieldsAre DEF Apart
  <2>6. PICK q : q = [s EXCEPT !.end = "undefined"]
    OBVIOUS
  <2>7. DOMAIN r = Fields => DOMAIN q = Fields /\ ~q.success /\ q.head = r.head /\ Quiet(r, q)
    <3>1. DOMAIN s = Fields =>
            /\ DOMAIN q = Fields /\ q.success = s.success /\ q.head = s.head /\ q.end = "undefined"
            /\ q.metric = s.metric /\ q.requirements = s.requirements
            /\ q.functions = s.functions /\ q.static = s.static
      BY <2>6, FieldsAre
    <3> QED BY <2>2, <3>1 DEF Alike, Quiet
  <2>8. PICK u : u = [s EXCEPT !.variables = w, !.frames = f, !.term = v]
    OBVIOUS
  <2>9. DOMAIN r = Fields => DOMAIN u = Fields /\ ~u.success /\ u.head = r.head /\ Quiet(r, u)
    <3>1. DOMAIN s = Fields =>
            DOMAIN u = Fields /\ u.success = s.success /\ u.head = s.head /\ Alike(s, u)
      BY <2>8, FieldsAre DEF Alike
    <3> QED BY <2>2, <3>1, AlikeIsQuiet, QuietTwice
  <2>10. Calm(r, q) /\ Calm(r, u)
    BY <2>7, <2>9 DEF Kept, Calm, Good
  <2>12. Sim!MakeTerm(r, x) \in {m, q, u}
    BY <2>4, <2>5, <2>6, <2>8
  <2> QED BY <2>7, <2>9, <2>10, <2>11, <2>12
<1>2. CASE x \notin VariableNames
  <2>1. PICK type, v : Sim!MakeTerm(r, x) \in
           {[r EXCEPT !.term = v], [Sim!AddObject(r, x, type) EXCEPT !.term = v]}
    BY <1>2 DEF Sim!MakeTerm
  <2>2. PICK q \in {r, Sim!AddObject(r, x, type)} : Sim!MakeTerm(r, x) = [q EXCEPT !.term = v]
    BY <2>1
  <2>3. Calm(r, q)
    BY CalmNames, CalmSame
  <2>4. DOMAIN r = Fields => DOMAIN q = Fields /\ q.head = r.head
    BY FieldsAre DEF Sim!AddObject
  <2>5. PICK s : s = [q EXCEPT !.term = v]
    OBVIOUS
  <2>6. Calm(q, s)
    BY <2>5, CalmOne, FieldsAre DEF Apart
  <2>7. DOMAIN r = Fields => s.head = r.head
    BY <2>4, <2>5, FieldsAre
  <2> QED BY <2>2, <2>3, <2>5, <2>6, <2>7, CalmTwice
<1> QED BY <1>1, <1>2

Headed(r) == r.head.table \in {"predicates", "functions"}

LEMMA CalmAdded ==
  ASSUME NEW r, DOMAIN r = Fields, Headed(r), NEW x
  PROVE  Calm(r, Sim!AddTerm(r, x)) /\ Headed(Sim!AddTerm(r, x)) /\ DOMAIN Sim!AddTerm(r, x) = Fields
<1>1. CASE r.end # ""
  BY <1>1, CalmSame DEF Sim!AddTerm
<1>2. CASE r.end = ""
  <2>1. PICK q : q = Sim!MakeTerm(r, x)
    OBVIOUS
  <2>2. Calm(r, q) /\ DOMAIN q = Fields /\ Headed(q)
    BY <2>1, CalmTerm DEF Kept, Calm, Headed
  <2>3. CASE q.end # ""
    BY <1>2, <2>1, <2>2, <2>3 DEF Sim!AddTerm, Sim!WithTerm
  <2>4. CASE q.end = ""
    <3>1. PICK s : s = Sim!Typed(q)
      OBVIOUS
    <3>2. Calm(q, s) /\ (DOMAIN s = Fields => s.head = q.head)
      <4>1. CASE q.head.fresh
        <5>1. s = Sim!AddParameter(q, q.head.table, q.head.name, Sim!TypeOf(q, q.term))
          BY <3>1, <4>1 DEF Sim!Typed
        <5>2. Calm(q, s)
          BY <2>2, <5>1, CalmTypes DEF Headed
        <5>3. s.head = q.head
          BY <2>2, <5>1, FieldsAre DEF Headed, Sim!AddParameter
        <5> QED BY <5>2, <5>3
      <4>2. CASE ~q.head.fresh
        <5>1. \E c \in BOOLEAN : s \in {q, Sim!Check(q, c)}
          BY <3>1, <4>2 DEF Sim!Typed, Sim!Subtype
        <5>2. PICK c \in BOOLEAN : s \in {q, Sim!Check(q, c)}
          BY <5>1
        <5>3. Calm(q, s)
          BY <5>2, CalmSame, CalmFailed
        <5>4. s.head = q.head
          BY <2>2, <5>2, FieldsAre DEF Sim!Check, Sim!Fail
        <5> QED BY <5>3, <5>4
      <4> QED BY <4>1, <4>2
    <3>3. PICK u : u = [s EXCEPT !.terms = Append(@, q.term)]
      OBVIOUS
    <3>4. Sim!AddTerm(r, x) = u
      BY <1>2, <2>1, <2>4, <3>1, <3>3 DEF Sim!AddTerm, Sim!WithTerm
    <3>5. DOMAIN s = Fields /\ s.head = q.head
      BY <2>2, <3>2 DEF Kept, Calm, Quiet
    <3>6. Calm(s, u)
      BY <3>3, CalmOne, FieldsAre DEF Apart
    <3>7. DOMAIN u = Fields /\ u.head = q.head
      BY <3>3, <3>5, FieldsAre
    <3> QED BY <2>2, <3>2, <3>4, <3>6, <3>7, CalmTwice DEF Headed
  <2> QED BY <2>3, <2>4
<1> QED BY <1>1, <1>2

\* The lists of a text are read one after the other.
LEMMA TermByTerm ==
  ASSUME NEW r, NEW S, NEW xs \in Seq(S)
  PROVE  \E f : /\ f[0] = r /\ f[Len(xs)] = Sim!AddTerms(r, xs)
               /\ \A i \in 1..Len(xs) : f[i] = Sim!AddTerm(f[i - 1], xs[i])
<1> DEFINE n == Len(xs)
           After(f, m) == f = [i \in 0..m |-> IF i = 0 THEN r ELSE Sim!AddTerm(f[i - 1], xs[i])]
           after == CHOOSE f : After(f, n)
           T == {m \in 0..n : \E f : After(f, m)}
<1>1. n \in Nat
  OBVIOUS
<1>2. Sim!AddTerms(r, xs) = after[n]
  BY DEF Sim!AddTerms
<1> HIDE DEF n
<1>3. 0 \in T
  <2>1. PICK f : f = [i \in 0..0 |-> r]
    OBVIOUS
  <2>2. \A i \in 0..0 : f[i] = IF i = 0 THEN r ELSE Sim!AddTerm(f[i - 1], xs[i])
    BY <2>1
  <2>3. f = [i \in 0..0 |-> f[i]]
    BY <2>1
  <2>4. After(f, 0)
    BY <2>2, <2>3
  <2> HIDE DEF After
  <2> QED BY <1>1, <2>4
<1>4. ASSUME NEW m \in 1..n, m - 1 \in T PROVE m \in T
  <2>1. PICK f : After(f, m - 1)
    BY <1>4
  <2>2. PICK g : g = [i \in 0..m |-> IF i = m THEN Sim!AddTerm(f[m - 1], xs[m]) ELSE f[i]]
    OBVIOUS
  <2>3. \A i \in 0..(m - 1) : f[i] = IF i = 0 THEN r ELSE Sim!AddTerm(f[i - 1], xs[i])
    BY <1>1, <2>1
  <2>4. ASSUME NEW i \in 0..m PROVE g[i] = IF i = 0 THEN r ELSE Sim!AddTerm(g[i - 1], xs[i])
    <3>1. CASE i = m
      BY <1>1, <2>2, <3>1
    <3>2. CASE i # m
      <4>1. i \in 0..(m - 1) /\ g[i] = f[i] /\ (i # 0 => g[i - 1] = f[i - 1])
        BY <1>1, <2>2, <3>2
      <4> QED BY <2>3, <4>1
    <3> QED BY <3>1, <3>2
  <2>5. After(g, m)
    <3>1. g = [i \in 0..m |-> g[i]]
      BY <2>2
    <3> QED BY <2>4, <3>1
  <2> HIDE DEF After
  <2> QED BY <1>1, <2>5
<1>5. After(after, n)
  <2> HIDE DEF After
  <2>1. 0..n \subseteq T
    <3> HIDE DEF T
    <3> QED BY <1>1, <1>3, <1>4, UpTo
  <2>2. \E f : After(f, n)
    BY <1>1, <2>1
  <2> QED BY <2>2
<1>6. after[0] = r /\ \A i \in 1..n : after[i] = Sim!AddTerm(after[i - 1], xs[i])
  <2> HIDE DEF after
  <2>1. after = [i \in 0..n |-> IF i = 0 THEN r ELSE Sim!AddTerm(after[i - 1], xs[i])]
    BY <1>5
  <2> QED BY <1>1, <2>1
<1> USE DEF n
<1> HIDE DEF after, After, T
<1> QED BY <1>2, <1>6

LEMMA ParameterByParameter ==
  ASSUME NEW r, NEW t, NEW x, NEW S, NEW xs \in Seq(S)
  PROVE  \E f : /\ f[0] = r /\ f[Len(xs)] = Sim!AddParameters(r, t, x, xs)
               /\ \A i \in 1..Len(xs) : f[i] = Sim!AddParameter(Sim!TypeSpec(f[i - 1], xs[i]), t, x, xs[i])
<1> DEFINE n == Len(xs)
           After(f, m) == f = [i \in 0..m |-> IF i = 0 THEN r ELSE Sim!AddParameter(Sim!TypeSpec(f[i - 1], xs[i]), t, x, xs[i])]
           after == CHOOSE f : After(f, n)
           T == {m \in 0..n : \E f : After(f, m)}
<1>1. n \in Nat
  OBVIOUS
<1>2. Sim!AddParameters(r, t, x, xs) = after[n]
  BY DEF Sim!AddParameters
<1> HIDE DEF n
<1>3. 0 \in T
  <2>1. PICK f : f = [i \in 0..0 |-> r]
    OBVIOUS
  <2>2. \A i \in 0..0 : f[i] = IF i = 0 THEN r ELSE Sim!AddParameter(Sim!TypeSpec(f[i - 1], xs[i]), t, x, xs[i])
    BY <2>1
  <2>3. f = [i \in 0..0 |-> f[i]]
    BY <2>1
  <2>4. After(f, 0)
    BY <2>2, <2>3
  <2> HIDE DEF After
  <2> QED BY <1>1, <2>4
<1>4. ASSUME NEW m \in 1..n, m - 1 \in T PROVE m \in T
  <2>1. PICK f : After(f, m - 1)
    BY <1>4
  <2>2. PICK g : g = [i \in 0..m |-> IF i = m THEN Sim!AddParameter(Sim!TypeSpec(f[m - 1], xs[m]), t, x, xs[m]) ELSE f[i]]
    OBVIOUS
  <2>3. \A i \in 0..(m - 1) : f[i] = IF i = 0 THEN r ELSE Sim!AddParameter(Sim!TypeSpec(f[i - 1], xs[i]), t, x, xs[i])
    BY <1>1, <2>1
  <2>4. ASSUME NEW i \in 0..m PROVE g[i] = IF i = 0 THEN r ELSE Sim!AddParameter(Sim!TypeSpec(g[i - 1], xs[i]), t, x, xs[i])
    <3>1. CASE i = m
      BY <1>1, <2>2, <3>1
    <3>2. CASE i # m
      <4>1. i \in 0..(m - 1) /\ g[i] = f[i] /\ (i # 0 => g[i - 1] = f[i - 1])
        BY <1>1, <2>2, <3>2
      <4> QED BY <2>3, <4>1
    <3> QED BY <3>1, <3>2
  <2>5. After(g, m)
    <3>1. g = [i \in 0..m |-> g[i]]
      BY <2>2
    <3> QED BY <2>4, <3>1
  <2> HIDE DEF After
  <2> QED BY <1>1, <2>5
<1>5. After(after, n)
  <2> HIDE DEF After
  <2>1. 0..n \subseteq T
    <3> HIDE DEF T
    <3> QED BY <1>1, <1>3, <1>4, UpTo
  <2>2. \E f : After(f, n)
    BY <1>1, <2>1
  <2> QED BY <2>2
<1>6. after[0] = r /\ \A i \in 1..n : after[i] = Sim!AddParameter(Sim!TypeSpec(after[i - 1], xs[i]), t, x, xs[i])
  <2> HIDE DEF after
  <2>1. after = [i \in 0..n |-> IF i = 0 THEN r ELSE Sim!AddParameter(Sim!TypeSpec(after[i - 1], xs[i]), t, x, xs[i])]
    BY <1>5
  <2> QED BY <1>1, <2>1
<1> USE DEF n
<1> HIDE DEF after, After, T
<1> QED BY <1>2, <1>6

LEMMA VariableByVariable ==
  ASSUME NEW r, NEW S, NEW xs \in Seq(S)
  PROVE  \E f : /\ f[0] = r /\ f[Len(xs)] = Sim!AddVariables(r, xs)
               /\ \A i \in 1..Len(xs) : f[i] = Sim!AddVariable(Sim!TypeSpec(f[i - 1], xs[i][2]), xs[i][1], xs[i][2])
<1> DEFINE n == Len(xs)
           After(f, m) == f = [i \in 0..m |-> IF i = 0 THEN r ELSE Sim!AddVariable(Sim!TypeSpec(f[i - 1], xs[i][2]), xs[i][1], xs[i][2])]
           after == CHOOSE f : After(f, n)
           T == {m \in 0..n : \E f : After(f, m)}
<1>1. n \in Nat
  OBVIOUS
<1>2. Sim!AddVariables(r, xs) = after[n]
  BY DEF Sim!AddVariables
<1> HIDE DEF n
<1>3. 0 \in T
  <2>1. PICK f : f = [i \in 0..0 |-> r]
    OBVIOUS
  <2>2. \A i \in 0..0 : f[i] = IF i = 0 THEN r ELSE Sim!AddVariable(Sim!TypeSpec(f[i - 1], xs[i][2]), xs[i][1], xs[i][2])
    BY <2>1
  <2>3. f = [i \in 0..0 |-> f[i]]
    BY <2>1
  <2>4. After(f, 0)
    BY <2>2, <2>3
  <2> HIDE DEF After
  <2> QED BY <1>1, <2>4
<1>4. ASSUME NEW m \in 1..n, m - 1 \in T PROVE m \in T
  <2>1. PICK f : After(f, m - 1)
    BY <1>4
  <2>2. PICK g : g = [i \in 0..m |-> IF i = m THEN Sim!AddVariable(Sim!TypeSpec(f[m - 1], xs[m][2]), xs[m][1], xs[m][2]) ELSE f[i]]
    OBVIOUS
  <2>3. \A i \in 0..(m - 1) : f[i] = IF i = 0 THEN r ELSE Sim!AddVariable(Sim!TypeSpec(f[i - 1], xs[i][2]), xs[i][1], xs[i][2])
    BY <1>1, <2>1
  <2>4. ASSUME NEW i \in 0..m PROVE g[i] = IF i = 0 THEN r ELSE Sim!AddVariable(Sim!TypeSpec(g[i - 1], xs[i][2]), xs[i][1], xs[i][2])
    <3>1. CASE i = m
      BY <1>1, <2>2, <3>1
    <3>2. CASE i # m
      <4>1. i \in 0..(m - 1) /\ g[i] = f[i] /\ (i # 0 => g[i - 1] = f[i - 1])
        BY <1>1, <2>2, <3>2
      <4> QED BY <2>3, <4>1
    <3> QED BY <3>1, <3>2
  <2>5. After(g, m)
    <3>1. g = [i \in 0..m |-> g[i]]
      BY <2>2
    <3> QED BY <2>4, <3>1
  <2> HIDE DEF After
  <2> QED BY <1>1, <2>5
<1>5. After(after, n)
  <2> HIDE DEF After
  <2>1. 0..n \subseteq T
    <3> HIDE DEF T
    <3> QED BY <1>1, <1>3, <1>4, UpTo
  <2>2. \E f : After(f, n)
    BY <1>1, <2>1
  <2> QED BY <2>2
<1>6. after[0] = r /\ \A i \in 1..n : after[i] = Sim!AddVariable(Sim!TypeSpec(after[i - 1], xs[i][2]), xs[i][1], xs[i][2])
  <2> HIDE DEF after
  <2>1. after = [i \in 0..n |-> IF i = 0 THEN r ELSE Sim!AddVariable(Sim!TypeSpec(after[i - 1], xs[i][2]), xs[i][1], xs[i][2])]
    BY <1>5
  <2> QED BY <1>1, <2>1
<1> USE DEF n
<1> HIDE DEF after, After, T
<1> QED BY <1>2, <1>6

LEMMA CalmTerms ==
  ASSUME NEW r, DOMAIN r = Fields, Headed(r), NEW S, NEW xs \in Seq(S)
  PROVE  Calm(r, Sim!AddTerms(r, xs))
<1> DEFINE n == Len(xs)
<1>1. PICK after : /\ after[0] = r /\ after[n] = Sim!AddTerms(r, xs)
                   /\ \A i \in 1..n : after[i] = Sim!AddTerm(after[i - 1], xs[i])
  BY TermByTerm
<1>2. n \in Nat
  OBVIOUS
<1> DEFINE Done == {i \in 0..n : DOMAIN after[i] = Fields /\ Headed(after[i]) /\ Calm(r, after[i])}
<1> HIDE DEF n
<1>3. 0 \in Done
  BY <1>1, <1>2, CalmSame
<1>4. ASSUME NEW i \in 1..n, i - 1 \in Done PROVE i \in Done
  <2>1. PICK q, s : q = after[i - 1] /\ s = after[i]
    OBVIOUS
  <2>2. DOMAIN q = Fields /\ Headed(q) /\ Calm(r, q) /\ s = Sim!AddTerm(q, xs[i])
    BY <1>1, <1>4, <2>1
  <2>3. DOMAIN s = Fields /\ Headed(s) /\ Calm(q, s)
    BY <2>2, CalmAdded
  <2>4. Calm(r, s)
    BY <2>2, <2>3, CalmTwice
  <2> QED BY <1>2, <2>1, <2>3, <2>4
<1>5. n \in Done
  <2> HIDE DEF Done
  <2>1. 0..n \subseteq Done
    BY <1>2, <1>3, <1>4, UpTo
  <2> QED BY <1>2, <2>1
<1> QED BY <1>1, <1>5

LEMMA CalmParameters ==
  ASSUME NEW r, NEW t \in {"predicates", "functions"}, NEW x, NEW S, NEW xs \in Seq(S)
  PROVE  Calm(r, Sim!AddParameters(r, t, x, xs))
<1> DEFINE n == Len(xs)
<1>1. PICK after : /\ after[0] = r /\ after[n] = Sim!AddParameters(r, t, x, xs)
                   /\ \A i \in 1..n : after[i] = Sim!AddParameter(Sim!TypeSpec(after[i - 1], xs[i]), t, x, xs[i])
  BY ParameterByParameter
<1>2. n \in Nat
  OBVIOUS
<1> DEFINE Done == {i \in 0..n : Calm(r, after[i])}
<1> HIDE DEF n
<1>3. 0 \in Done
  BY <1>1, <1>2, CalmSame
<1>4. ASSUME NEW i \in 1..n, i - 1 \in Done PROVE i \in Done
  <2>1. PICK q : q = Sim!TypeSpec(after[i - 1], xs[i])
    OBVIOUS
  <2>2. Calm(r, after[i - 1]) /\ Calm(after[i - 1], q)
    BY <1>4, <2>1, CalmTypes
  <2>3. Calm(q, Sim!AddParameter(q, t, x, xs[i]))
    BY CalmTypes
  <2>4. Calm(r, after[i])
    BY <1>1, <2>1, <2>2, <2>3, CalmTwice
  <2> QED BY <1>2, <2>4
<1>5. n \in Done
  <2> HIDE DEF Done
  <2>1. 0..n \subseteq Done
    BY <1>2, <1>3, <1>4, UpTo
  <2> QED BY <1>2, <2>1
<1> QED BY <1>1, <1>5

LEMMA CalmDeclared ==
  ASSUME NEW r, NEW x, NEW S, NEW xs \in Seq(S)
  PROVE  Calm(r, Sim!DeclarePredicate(r, x, xs)) /\ Calm(r, Sim!DeclareFunction(r, x, xs))
<1>1. Calm(r, Sim!DeclarePredicate(r, x, xs))
  <2>1. PICK q : q = Sim!AddPredicate(r, x)
    OBVIOUS
  <2>2. Calm(r, q)
    BY <2>1, CalmNames
  <2>3. Calm(q, Sim!AddParameters(q, "predicates", x, xs))
    BY CalmParameters
  <2>4. Calm(r, Sim!TypeSpecs(r, xs))
    BY CalmTypes
  <2> QED BY <2>1, <2>2, <2>3, <2>4, CalmTwice DEF Sim!DeclarePredicate
<1>2. Calm(r, Sim!DeclareFunction(r, x, xs))
  <2>1. PICK q, s : q = Sim!Assume(r, "fluents") /\ s = Sim!AddFunction(q, x)
    OBVIOUS
  <2>2. Calm(r, q)
    BY <2>1, KeptAssumed
  <2>3. CASE x \in DOMAIN q.functions
    <3>1. Calm(q, Sim!TypeSpecs(q, xs))
      BY CalmTypes
    <3> QED BY <2>1, <2>2, <2>3, <3>1, CalmTwice DEF Sim!DeclareFunction
  <2>4. CASE x \notin DOMAIN q.functions
    <3>1. Calm(q, s)
      BY <2>1, <2>4, KeptFunction
    <3>2. Calm(s, Sim!AddParameters(s, "functions", x, xs))
      BY CalmParameters
    <3> QED BY <2>1, <2>2, <2>4, <3>1, <3>2, CalmTwice DEF Sim!DeclareFunction
  <2> QED BY <2>3, <2>4
<1> QED BY <1>1, <1>2

LEMMA CalmMade == ASSUME NEW r PROVE Calm(r, Sim!MakeAtom(r))
<1>1. CASE r.end # ""
  BY <1>1, CalmSame DEF Sim!MakeAtom
<1>2. CASE r.end = ""
  <2>1. PICK q : q = Sim!Check(r, Len(r.terms) = Len(Sim!Parameters(r)))
    OBVIOUS
  <2>2. Calm(r, q)
    BY <2>1, CalmFailed
  <2>3. PICK a, h : Sim!MakeAtom(r) = [q EXCEPT !.atoms = a, !.head = h]
    BY <1>2, <2>1 DEF Sim!MakeAtom
  <2>4. Calm(q, [q EXCEPT !.atoms = a, !.head = h])
    BY FieldsAre DEF Kept, Calm, Quiet, Good
  <2> QED BY <2>2, <2>3, <2>4, CalmTwice
<1> QED BY <1>1, <1>2

LEMMA CalmRead ==
  ASSUME NEW r, DOMAIN r = Fields, NEW x, NEW S, NEW xs \in Seq(S), NEW place
  PROVE  /\ Calm(r, Sim!ReadAtom(r, x, xs)) /\ Calm(r, Sim!ReadFluent(r, x, xs, place))
         /\ Calm(r, Sim!ReadChange(r, x, xs))
<1>1. ASSUME NEW q, Calm(r, q), Headed(q)
      PROVE  Calm(r, Sim!MakeAtom(Sim!AddTerms(q, xs)))
  <2>1. DOMAIN q = Fields
    BY <1>1 DEF Kept, Calm, Quiet
  <2>2. Calm(q, Sim!AddTerms(q, xs))
    BY <1>1, <2>1, CalmTerms
  <2> QED BY <1>1, <2>2, CalmMade, CalmTwice
<1>2. ASSUME NEW s, NEW h, NEW q, Calm(r, s), q = [s EXCEPT !.head = h, !.terms = <<>>] PROVE q.head = h
  BY <1>2, FieldsAre DEF Kept, Calm, Quiet
<1>3. Headed(Sim!PrepareAtom(r, x))
  <2>1. PICK s : s = IF x \notin DOMAIN r.predicates THEN Sim!AddPredicate(r, x) ELSE r
    OBVIOUS
  <2>2. Calm(r, s)
    BY <2>1, CalmNames, CalmSame
  <2>3. PICK h : h = [table |-> "predicates", name |-> x, fresh |-> x \notin DOMAIN r.predicates]
    OBVIOUS
  <2>4. Sim!PrepareAtom(r, x) = [s EXCEPT !.head = h, !.terms = <<>>]
    BY <2>1, <2>3 DEF Sim!PrepareAtom
  <2>5. Sim!PrepareAtom(r, x).head = h
    BY <1>2, <2>2, <2>4
  <2> QED BY <2>3, <2>5 DEF Headed
<1>4. Headed(Sim!PrepareFluent(r, x, place))
  <2>1. PICK q : q = IF x \notin DOMAIN r.functions THEN Sim!AddFunction(r, x) ELSE r
    OBVIOUS
  <2>2. Calm(r, q)
    BY <2>1, KeptFunction, CalmSame
  <2>3. PICK s : s = CASE "rewards" \in r.requirements /\ x = "reward" -> Sim!Check(q, place # "formula")
                       [] x \in {"total-time", "goal-achieved"}        -> Sim!Check(q, place = "metric")
                       [] OTHER                                        -> Sim!Assume(q, "fluents")
    OBVIOUS
  <2>4. s \in {Sim!Check(q, place # "formula"), Sim!Check(q, place = "metric"), Sim!Assume(q, "fluents")}
    BY <2>3
  <2>5. Calm(q, s)
    BY <2>4, CalmFailed, KeptAssumed
  <2>6. PICK h : h = [table |-> "functions", name |-> x, fresh |-> x \notin DOMAIN r.functions]
    OBVIOUS
  <2>7. Sim!PrepareFluent(r, x, place) = [s EXCEPT !.head = h, !.terms = <<>>]
    BY <2>1, <2>3, <2>6 DEF Sim!PrepareFluent
  <2>8. Calm(r, s)
    BY <2>2, <2>5, CalmTwice
  <2>9. Sim!PrepareFluent(r, x, place).head = h
    BY <1>2, <2>7, <2>8
  <2> QED BY <2>6, <2>9 DEF Headed
<1>5. Calm(r, Sim!ReadAtom(r, x, xs))
  BY <1>1, <1>3, CalmPrepared DEF Sim!ReadAtom
<1>6. Calm(r, Sim!ReadFluent(r, x, xs, place))
  BY <1>1, <1>4, CalmPrepared DEF Sim!ReadFluent
<1>7. Calm(r, Sim!ReadChange(r, x, xs))
  BY <1>5, CalmNames, CalmTwice DEF Sim!ReadChange
<1> QED BY <1>5, <1>6, <1>7

LEMMA CalmUpdated ==
  ASSUME NEW r, DOMAIN r = Fields, NEW op, NEW f, NEW constant \in BOOLEAN
  PROVE  Calm(r, Sim!ReadUpdate(r, op, f, <<>>, constant))
<1>1. PICK q : q = Sim!ReadFluent(r, f, <<>>, "effect")
  OBVIOUS
<1>2. Calm(r, q)
  <2>1. <<>> \in Seq({})
    OBVIOUS
  <2> QED BY <1>1, <2>1, CalmRead
<1>3. PICK c \in BOOLEAN : c = (op \in {"increase", "decrease"} /\ constant)
  OBVIOUS
<1>4. Sim!MakeUpdate(q, op, f, constant) \in {Sim!Check(q, c), Sim!Assume(q, "fluents")}
  BY <1>3 DEF Sim!MakeUpdate
<1>5. Calm(q, Sim!MakeUpdate(q, op, f, constant))
  BY <1>4, CalmFailed, KeptAssumed
<1> QED BY <1>1, <1>2, <1>5, CalmNames, CalmTwice DEF Sim!ReadUpdate

LEMMA CalmEqual ==
  ASSUME NEW r, DOMAIN r = Fields, NEW x, NEW y
  PROVE  Calm(r, Sim!ReadEqual(r, x, y))
<1>1. ASSUME NEW q, DOMAIN q = Fields, NEW z PROVE Calm(q, Sim!ReadEqualTerm(q, z))
  <2>1. <<>> \in Seq({})
    OBVIOUS
  <2>2. Calm(q, Sim!ReadFluent(q, z, <<>>, "formula"))
    BY <1>1, <2>1, CalmRead
  <2>3. Sim!ReadEqualTerm(q, z) \in {q, Sim!ReadFluent(q, z, <<>>, "formula"), Sim!MakeTerm(q, z)}
    BY DEF Sim!ReadEqualTerm
  <2> QED BY <2>2, <2>3, CalmSame, CalmTerm
<1>2. ASSUME NEW q, NEW t, NEW fluents PROVE Calm(q, Sim!MakeEqual(q, t, fluents))
  <2>1. PICK a : Sim!MakeEqual(q, t, fluents) \in {q, Sim!Fail(q), [q EXCEPT !.atoms = a]}
    BY DEF Sim!MakeEqual
  <2>2. Calm(q, [q EXCEPT !.atoms = a])
    BY CalmOne, FieldsAre DEF Apart
  <2> QED BY <2>1, <2>2, CalmSame, CalmFailed
<1>3. PICK q, s, u : /\ q = Sim!Assume(r, "equality") /\ s = Sim!ReadEqualTerm(q, x)
                     /\ u = Sim!ReadEqualTerm(s, y)
  OBVIOUS
<1>4. Calm(r, q) /\ DOMAIN q = Fields
  BY <1>3, KeptAssumed DEF Kept
<1>5. Calm(q, s) /\ DOMAIN s = Fields
  BY <1>1, <1>3, <1>4 DEF Kept, Calm, Quiet
<1>6. Calm(s, u)
  BY <1>1, <1>3, <1>5
<1>7. \E t, fluents : Sim!ReadEqual(r, x, y) = Sim!MakeEqual(u, t, fluents)
  BY <1>3 DEF Sim!ReadEqual, Sim!ReadSecond
<1> QED BY <1>2, <1>4, <1>5, <1>6, <1>7, CalmTwice

LEMMA CalmRest ==
  ASSUME NEW r, NEW weights, NEW unit
  PROVE  /\ Calm(r, Sim!ReadOutcomes(r, weights, unit))
         /\ Calm(r, Sim!MakeProblem(r, TRUE))
         /\ Calm(r, Sim!SetGoalReward(r)) /\ Kept(r, Sim!Instantiate(r))
<1>1. Calm(r, Sim!ReadOutcomes(r, weights, unit))
  <2>1. PICK q : q = Sim!Assume(r, "probabilistic-effects")
    OBVIOUS
  <2>2. PICK c \in BOOLEAN :
           c = ((\A i \in DOMAIN weights : weights[i] <= unit) /\ Sim!SumOf(weights) <= unit)
    OBVIOUS
  <2>3. Sim!ReadOutcomes(r, weights, unit) = Sim!Check(q, c)
    BY <2>1, <2>2 DEF Sim!ReadOutcomes
  <2>4. Calm(r, q) /\ Calm(q, Sim!Check(q, c))
    BY <2>1, KeptAssumed, CalmFailed
  <2> QED BY <2>3, <2>4, CalmTwice
<1>2. Calm(r, Sim!MakeProblem(r, TRUE))
  BY FieldsAre DEF Kept, Calm, Quiet, Good, Sim!MakeProblem
<1>3. Calm(r, Sim!SetGoalReward(r))
  BY CalmNames, CalmFailed DEF Sim!SetGoalReward
<1>4. Kept(r, Sim!Instantiate(r))
  <2>1. PICK m, e : Sim!Instantiate(r) = [r EXCEPT !.metric = m, !.end = e] /\ e \in {"thrown", r.end}
    BY DEF Sim!Instantiate
  <2> QED BY <2>1, FieldsAre DEF Kept, Good
<1> QED BY <1>1, <1>2, <1>3, <1>4

-----------------------------------------------------------------------------
(* Binders: the one list of quantified variables is a stack of segments,    *)
(* each behind a mark.                                                      *)

Variables == Seq(VariableNames \X SUBSET STRING)
Indices   == Seq(Nat)

\* What r is made of the variables that have been added, with the list that got them.
Added(r, s, xs, list, other) ==
  /\ DOMAIN s = Fields /\ s.lists = r.lists /\ s[other] = r[other] /\ (Good(s) => Good(r))
  /\ s.variables \in Variables /\ Len(s.variables) = Len(r.variables) + Len(xs)
  /\ \A i \in 1..Len(r.variables) : s.variables[i] = r.variables[i]
  /\ \A j \in 1..Len(xs) : s.variables[Len(r.variables) + j][1] = xs[j][1]
  /\ s[list] \in Indices /\ Len(s[list]) = Len(r[list]) + Len(xs)
  /\ \A i \in 1..Len(r[list]) : s[list][i] = r[list][i]
  /\ \A j \in 1..Len(xs) : s[list][Len(r[list]) + j] = Len(r.variables) + j

\* Which list gets the variables, and which does not.
Gets(r, list, other) ==
  IF r.quantified # <<>> THEN list = "quantified" /\ other = "parameters"
                         ELSE list = "parameters" /\ other = "quantified"

One(r, s, x, B, list, other) ==
  /\ DOMAIN s = Fields /\ s.lists = r.lists /\ s[other] = r[other] /\ (Good(s) => Good(r))
  /\ s.variables = Append(r.variables, <<x, B>>)
  /\ s[list] = Append(r[list], Len(r.variables) + 1)
  /\ Quiet(r, s)

\* One more variable.
LEMMA AddedOne ==
  ASSUME NEW r, DOMAIN r = Fields, NEW x, NEW B, NEW list, NEW other, Gets(r, list, other),
         NEW s, s = Sim!AddVariable(Sim!TypeSpec(r, B), x, B)
  PROVE  One(r, s, x, B, list, other)
<1>1. PICK q : q = Sim!TypeSpec(r, B)
  OBVIOUS
<1>2. /\ DOMAIN q = Fields /\ q.lists = r.lists /\ q.quantified = r.quantified
      /\ q.parameters = r.parameters /\ q.variables = r.variables
  BY <1>1, FieldsAre DEF Sim!TypeSpec, Sim!Assume
<1>3. (Good(q) => Good(r)) /\ Quiet(r, q)
  BY <1>1, CalmTypes DEF Calm, Kept
<1>4. PICK c \in BOOLEAN : c = (x \notin DOMAIN Sim!Last(q.frames))
  OBVIOUS
<1>5. PICK u : u = Sim!Check(q, c)
  OBVIOUS
<1>6. /\ DOMAIN u = Fields /\ u.lists = r.lists /\ u.quantified = r.quantified
      /\ u.parameters = r.parameters /\ u.variables = r.variables
  BY <1>2, <1>5, FieldsAre DEF Sim!Check, Sim!Fail
<1>7. (Good(u) => Good(r)) /\ Quiet(r, u)
  <2>1. (Good(u) => Good(q)) /\ Quiet(q, u)
    BY <1>2, <1>5, CalmFailed DEF Calm, Kept
  <2> QED BY <1>3, <2>1, QuietTwice
<1>8. PICK v : v = Len(r.variables) + 1
  OBVIOUS
<1>9. PICK w : w = [u EXCEPT !.variables = Append(@, <<x, B>>), !.frames = Sim!Insert(@, x, v)]
  OBVIOUS
<1>10. /\ DOMAIN w = Fields /\ w.lists = r.lists /\ w.quantified = r.quantified
       /\ w.parameters = r.parameters /\ w.variables = Append(r.variables, <<x, B>>)
       /\ w.success = u.success /\ w.end = u.end /\ Alike(u, w)
  BY <1>6, <1>9, FieldsAre DEF Alike
<1>11. (Good(w) => Good(r)) /\ Quiet(r, w)
  BY <1>7, <1>10, AlikeIsQuiet, QuietTwice DEF Good
<1>12. s = IF w.quantified # <<>> THEN [w EXCEPT !.quantified = Append(@, v)]
                                  ELSE [w EXCEPT !.parameters = Append(@, v)]
  BY <1>1, <1>2, <1>4, <1>5, <1>8, <1>9 DEF Sim!AddVariable
<1>13. CASE r.quantified # <<>>
  <2>1. s = [w EXCEPT !.quantified = Append(@, v)]
    BY <1>10, <1>12, <1>13
  <2>2. /\ DOMAIN s = Fields /\ s.lists = r.lists /\ s.parameters = r.parameters
        /\ s.variables = w.variables /\ s.quantified = Append(r.quantified, v)
        /\ s.success = w.success /\ s.end = w.end /\ Alike(w, s)
    BY <1>10, <2>1, FieldsAre DEF Alike
  <2>3. (Good(s) => Good(r)) /\ Quiet(r, s)
    BY <1>11, <2>2, AlikeIsQuiet, QuietTwice DEF Good
  <2> QED BY <1>8, <1>10, <1>13, <2>2, <2>3 DEF Gets, One
<1>14. CASE r.quantified = <<>>
  <2>1. s = [w EXCEPT !.parameters = Append(@, v)]
    BY <1>10, <1>12, <1>14
  <2>2. /\ DOMAIN s = Fields /\ s.lists = r.lists /\ s.quantified = r.quantified
        /\ s.variables = w.variables /\ s.parameters = Append(r.parameters, v)
        /\ s.success = w.success /\ s.end = w.end /\ Alike(w, s)
    BY <1>10, <2>1, FieldsAre DEF Alike
  <2>3. (Good(s) => Good(r)) /\ Quiet(r, s)
    BY <1>11, <2>2, AlikeIsQuiet, QuietTwice DEF Good
  <2> QED BY <1>8, <1>10, <1>14, <2>2, <2>3 DEF Gets, One
<1> QED BY <1>13, <1>14

LEMMA AddedAll ==
  ASSUME NEW r, DOMAIN r = Fields, NEW xs \in Variables,
         r.variables \in Variables, r.quantified \in Indices, r.parameters \in Indices,
         NEW list, NEW other, Gets(r, list, other)
  PROVE  Added(r, Sim!AddVariables(r, xs), xs, list, other)
<1> DEFINE n == Len(xs)
           v == Len(r.variables)
           l == Len(r[list])
<1>1. PICK after : /\ after[0] = r /\ after[n] = Sim!AddVariables(r, xs)
                   /\ \A i \in 1..n : after[i] = Sim!AddVariable(Sim!TypeSpec(after[i - 1], xs[i][2]),
                                                                xs[i][1], xs[i][2])
  BY VariableByVariable DEF Variables
<1>2. n \in Nat /\ v \in Nat /\ l \in Nat /\ r[list] \in Indices
  BY DEF Variables, Indices, Gets
<1>3. \A i \in 1..n : xs[i] = <<xs[i][1], xs[i][2]>> /\ xs[i] \in VariableNames \X SUBSET STRING
  <2>1. \A i \in 1..n : xs[i] \in VariableNames \X SUBSET STRING
    BY DEF Variables
  <2> QED BY <2>1, PairIs
<1> DEFINE Thus(s, i) ==
             /\ DOMAIN s = Fields /\ s.lists = r.lists /\ s[other] = r[other] /\ (Good(s) => Good(r))
             /\ s.quantified # <<>> <=> r.quantified # <<>>
             /\ s.variables \in Variables /\ Len(s.variables) = v + i
             /\ \A k \in 1..v : s.variables[k] = r.variables[k]
             /\ \A j \in 1..i : s.variables[v + j] = xs[j]
             /\ s[list] \in Indices /\ Len(s[list]) = l + i
             /\ \A k \in 1..l : s[list][k] = r[list][k]
             /\ \A j \in 1..i : s[list][l + j] = v + j
           Done == {i \in 0..n : Thus(after[i], i)}
<1>4. 0 \in Done
  BY <1>1, <1>2
<1>5. ASSUME NEW i \in 1..n, i - 1 \in Done PROVE i \in Done
  <2>1. PICK q, s : q = after[i - 1] /\ s = after[i]
    OBVIOUS
  <2>2. Thus(q, i - 1)
    BY <1>5, <2>1
  <2>3. PICK x, B : xs[i] = <<x, B>> /\ x = xs[i][1] /\ B = xs[i][2]
    BY <1>3
  <2>4. s = Sim!AddVariable(Sim!TypeSpec(q, B), x, B)
    BY <1>1, <2>1, <2>3
  <2>5. /\ DOMAIN s = Fields /\ s.lists = q.lists /\ s[other] = q[other] /\ (Good(s) => Good(q))
        /\ s.variables = Append(q.variables, <<x, B>>)
        /\ s[list] = Append(q[list], Len(q.variables) + 1)
    <3>1. DOMAIN q = Fields
      BY <2>2
    <3>2. Gets(q, list, other)
      BY <2>2 DEF Gets
    <3>3. One(q, s, x, B, list, other)
      <4> HIDE DEF Thus
      <4> QED BY <2>4, <3>1, <3>2, AddedOne
    <3> HIDE DEF Thus
    <3> QED BY <3>3 DEF One
  <2>6. Len(q.variables) + 1 = v + i /\ Len(q[list]) + 1 = l + i
    BY <1>2, <2>2
  <2>7. /\ s.variables \in Variables /\ Len(s.variables) = v + i
        /\ \A k \in 1..(v + i - 1) : s.variables[k] = q.variables[k]
        /\ s.variables[v + i] = xs[i]
    <3>1. q.variables \in Variables /\ <<x, B>> \in VariableNames \X SUBSET STRING
      BY <1>3, <2>2, <2>3
    <3> QED BY <1>2, <2>3, <2>5, <2>6, <3>1 DEF Variables
  <2>8. /\ s[list] \in Indices /\ Len(s[list]) = l + i
        /\ \A k \in 1..(l + i - 1) : s[list][k] = q[list][k]
        /\ s[list][l + i] = v + i
    <3>1. PICK a, b, m : a = q[list] /\ b = s[list] /\ m = v + i
      OBVIOUS
    <3>2. a \in Seq(Nat) /\ m \in Nat /\ Len(a) + 1 = l + i /\ b = Append(a, m)
      BY <1>2, <2>2, <2>5, <2>6, <3>1 DEF Indices
    <3>3. /\ b \in Seq(Nat) /\ Len(b) = Len(a) + 1 /\ b[Len(a) + 1] = m
          /\ \A k \in 1..Len(a) : b[k] = a[k]
      BY <3>2
    <3>4. Len(a) = l + i - 1
      BY <1>2, <3>2
    <3> QED BY <3>1, <3>2, <3>3, <3>4 DEF Indices
  <2>9. s.quantified # <<>> <=> r.quantified # <<>>
    <3>1. CASE r.quantified # <<>>
      <4>1. Len(s.quantified) = l + i
        BY <2>8, <3>1 DEF Gets
      <4>2. s.quantified # <<>>
        BY <1>2, <4>1
      <4> QED BY <3>1, <4>2
    <3>2. CASE r.quantified = <<>>
      BY <2>2, <2>5, <3>2 DEF Gets
    <3> QED BY <3>1, <3>2
  <2>10. /\ \A k \in 1..v : s.variables[k] = r.variables[k]
         /\ \A j \in 1..i : s.variables[v + j] = xs[j]
    <3>1. \A k \in 1..v : k \in 1..(v + i - 1)
      BY <1>2
    <3>2. \A j \in 1..i : j = i \/ (j \in 1..(i - 1) /\ v + j \in 1..(v + i - 1))
      BY <1>2
    <3> QED BY <2>2, <2>7, <3>1, <3>2
  <2>11. /\ \A k \in 1..l : s[list][k] = r[list][k]
         /\ \A j \in 1..i : s[list][l + j] = v + j
    <3>1. \A k \in 1..l : k \in 1..(l + i - 1)
      BY <1>2
    <3>2. \A j \in 1..i : j = i \/ (j \in 1..(i - 1) /\ l + j \in 1..(l + i - 1))
      BY <1>2
    <3> QED BY <2>2, <2>8, <3>1, <3>2
  <2>12. Thus(s, i)
    BY <2>2, <2>5, <2>7, <2>8, <2>9, <2>10, <2>11
  <2> HIDE DEF Thus
  <2> QED BY <2>1, <2>12
<1>6. Thus(after[n], n)
  <2> HIDE DEF Thus
  <2>1. 0..n \subseteq Done
    <3> HIDE DEF Done, n
    <3> QED BY <1>2, <1>4, <1>5, UpTo
  <2> HIDE DEF n
  <2> QED BY <1>2, <2>1
<1> QED BY <1>1, <1>6 DEF Added

\* The fields survive, and what has failed stays so.
LEMMA AddedAny ==
  ASSUME NEW r, DOMAIN r = Fields, NEW S, NEW xs \in Seq(S)
  PROVE  /\ DOMAIN Sim!AddVariables(r, xs) = Fields
         /\ Good(Sim!AddVariables(r, xs)) => Good(r)
         /\ Quiet(r, Sim!AddVariables(r, xs))
<1> DEFINE n == Len(xs)
<1>1. PICK after : /\ after[0] = r /\ after[n] = Sim!AddVariables(r, xs)
                   /\ \A i \in 1..n : after[i] = Sim!AddVariable(Sim!TypeSpec(after[i - 1], xs[i][2]),
                                                                xs[i][1], xs[i][2])
  BY VariableByVariable
<1>2. n \in Nat
  OBVIOUS
<1> DEFINE Done == {i \in 0..n : DOMAIN after[i] = Fields /\ (Good(after[i]) => Good(r)) /\ Quiet(r, after[i])}
<1> HIDE DEF n
<1>3. 0 \in Done
  BY <1>1, <1>2, AlikeIsQuiet DEF Alike
<1>4. ASSUME NEW i \in 1..n, i - 1 \in Done PROVE i \in Done
  <2>1. PICK q, s, x, B : q = after[i - 1] /\ s = after[i] /\ x = xs[i][1] /\ B = xs[i][2]
    OBVIOUS
  <2>2. DOMAIN q = Fields /\ (Good(q) => Good(r)) /\ Quiet(r, q) /\ s = Sim!AddVariable(Sim!TypeSpec(q, B), x, B)
    BY <1>1, <1>4, <2>1
  <2>3. \E list, other : Gets(q, list, other)
    BY DEF Gets
  <2>4. \E list, other : One(q, s, x, B, list, other)
    BY <2>2, <2>3, AddedOne
  <2>5. DOMAIN s = Fields /\ (Good(s) => Good(q)) /\ Quiet(q, s)
    BY <2>4 DEF One
  <2>6. DOMAIN after[i] = Fields /\ (Good(after[i]) => Good(r)) /\ Quiet(r, after[i])
    BY <2>1, <2>2, <2>5, QuietTwice
  <2> QED BY <1>2, <2>6
<1>5. n \in Done
  <2> HIDE DEF Done
  <2>1. 0..n \subseteq Done
    BY <1>2, <1>3, <1>4, UpTo
  <2> QED BY <1>2, <2>1
<1> QED BY <1>1, <1>5

\* The variables V in a list are those that xs declares.
Spells(V, list, xs) ==
  /\ Len(list) = Len(xs)
  /\ \A i \in 1..Len(xs) : list[i] \in 1..Len(V) /\ V[list[i]][1] = xs[i][1]

Segment(V, q, a, xs) ==
  /\ q[a] = Sim!MARK
  /\ \A j \in 1..Len(xs) : q[a + j] \in 1..Len(V) /\ V[q[a + j]][1] = xs[j][1]

\* q is made of one segment for each of qs: the marks are at m.
Marked(V, q, qs, m) ==
  /\ m \in [1..(Len(qs) + 1) -> Nat] /\ m[1] = 1 /\ m[Len(qs) + 1] = Len(q) + 1
  /\ \A i \in 1..Len(qs) : /\ m[i] >= 1 /\ m[i + 1] = m[i] + 1 + Len(qs[i])
                           /\ Segment(V, q, m[i], qs[i])
  /\ \A i \in 1..Len(qs), j \in 1..(Len(qs) + 1) : i < j => m[i] + 1 + Len(qs[i]) <= m[j]

Extends(V, W) ==
  /\ Len(V) <= Len(W)
  /\ \A i \in 1..Len(V) : W[i] = V[i]

LEMMA StillSpells ==
  ASSUME NEW V \in Variables, NEW W \in Variables, Extends(V, W), NEW list, NEW xs, Spells(V, list, xs)
  PROVE  Spells(W, list, xs)
<1>1. Len(V) \in Nat /\ Len(W) \in Nat /\ Len(V) <= Len(W)
  BY DEF Variables, Extends
<1> QED BY <1>1 DEF Spells, Extends

LEMMA Pushed ==
  ASSUME NEW V \in Variables, NEW W \in Variables, Extends(V, W),
         NEW q \in Indices, NEW p \in Indices, NEW qs \in Seq(Variables), NEW xs \in Variables,
         Len(p) = Len(q) + 1 + Len(xs), \A i \in 1..Len(q) : p[i] = q[i],
         Segment(W, p, Len(q) + 1, xs), NEW m, Marked(V, q, qs, m)
  PROVE  \E w : Marked(W, p, Append(qs, xs), w)
<1> DEFINE k == Len(qs)
           n == Len(q)
           rs == Append(qs, xs)
<1>1. /\ k \in Nat /\ n \in Nat /\ Len(xs) \in Nat /\ Len(V) \in Nat /\ Len(W) \in Nat
      /\ \A i \in 1..k : Len(qs[i]) \in Nat
  BY DEF Variables, Indices
<1>2. Len(rs) = k + 1 /\ rs[k + 1] = xs /\ \A i \in 1..k : rs[i] = qs[i]
  OBVIOUS
<1> HIDE DEF k, n, rs
<1>3. /\ m \in [1..(k + 1) -> Nat] /\ m[1] = 1 /\ m[k + 1] = n + 1
      /\ \A i \in 1..k : m[i] >= 1 /\ m[i + 1] = m[i] + 1 + Len(qs[i]) /\ Segment(V, q, m[i], qs[i])
      /\ \A i \in 1..k, j \in 1..(k + 1) : i < j => m[i] + 1 + Len(qs[i]) <= m[j]
  BY DEF Marked, k, n
<1>4. PICK w : w = [i \in 1..(k + 2) |-> IF i <= k + 1 THEN m[i] ELSE Len(p) + 1]
  OBVIOUS
<1>5. Len(p) = n + 1 + Len(xs) /\ Len(p) \in Nat
  BY <1>1 DEF n
<1>6. /\ w \in [1..(k + 2) -> Nat] /\ w[1] = 1 /\ w[k + 2] = Len(p) + 1 /\ w[k + 1] = n + 1
      /\ \A i \in 1..(k + 1) : w[i] = m[i]
  BY <1>1, <1>3, <1>4, <1>5
<1>7. ASSUME NEW i \in 1..(k + 1)
      PROVE  w[i] >= 1 /\ w[i + 1] = w[i] + 1 + Len(rs[i]) /\ Segment(W, p, w[i], rs[i])
  <2>1. CASE i = k + 1
    BY <1>1, <1>2, <1>5, <1>6, <2>1 DEF n
  <2>2. CASE i # k + 1
    <3>1. i \in 1..k /\ i + 1 \in 1..(k + 1) /\ k + 1 \in 1..(k + 1) /\ i < k + 1
      BY <1>1, <2>2
    <3>2. w[i] = m[i] /\ w[i + 1] = m[i + 1] /\ rs[i] = qs[i] /\ m[i] \in Nat
      BY <1>2, <1>3, <1>6, <3>1
    <3>3. m[i] >= 1 /\ m[i] + 1 + Len(qs[i]) <= n + 1
      BY <1>3, <3>1
    <3>4. m[i] \in 1..n /\ \A j \in 1..Len(qs[i]) : m[i] + j \in 1..n
      <4>1. PICK x, y : x = m[i] /\ y = Len(qs[i])
        OBVIOUS
      <4>2. x \in Nat /\ y \in Nat /\ x >= 1 /\ x + 1 + y <= n + 1
        BY <1>1, <3>1, <3>2, <3>3, <4>1
      <4>3. x \in 1..n /\ \A j \in 1..y : x + j \in 1..n
        BY <1>1, <4>2
      <4> QED BY <4>1, <4>3
    <3>5. Segment(V, q, m[i], qs[i])
      BY <1>3, <3>1
    <3>6. p[m[i]] = Sim!MARK
      BY <3>4, <3>5 DEF Segment, n
    <3>7. ASSUME NEW j \in 1..Len(qs[i])
          PROVE  p[m[i] + j] \in 1..Len(W) /\ W[p[m[i] + j]][1] = qs[i][j][1]
      <4>1. p[m[i] + j] = q[m[i] + j]
        BY <3>4 DEF n
      <4>2. q[m[i] + j] \in 1..Len(V) /\ V[q[m[i] + j]][1] = qs[i][j][1]
        BY <3>5 DEF Segment
      <4>3. W[q[m[i] + j]] = V[q[m[i] + j]] /\ Len(V) <= Len(W)
        BY <4>2 DEF Extends
      <4> QED BY <1>1, <4>1, <4>2, <4>3
    <3>8. Segment(W, p, m[i], qs[i])
      BY <3>6, <3>7 DEF Segment
    <3> QED BY <1>3, <3>1, <3>2, <3>8
  <2> QED BY <2>1, <2>2
<1>8. ASSUME NEW i \in 1..(k + 1), NEW j \in 1..(k + 2), i < j
      PROVE  w[i] + 1 + Len(rs[i]) <= w[j]
  <2>1. CASE i = k + 1
    BY <1>1, <1>2, <1>5, <1>6, <1>8, <2>1
  <2>2. CASE i # k + 1 /\ j # k + 2
    <3>1. i \in 1..k /\ j \in 1..(k + 1)
      BY <1>1, <2>2
    <3> QED BY <1>2, <1>3, <1>6, <1>8, <3>1
  <2>3. CASE i # k + 1 /\ j = k + 2
    <3>1. i \in 1..k /\ k + 1 \in 1..(k + 1) /\ i < k + 1
      BY <1>1, <2>3
    <3>2. m[i] + 1 + Len(qs[i]) <= n + 1 /\ w[i] = m[i] /\ rs[i] = qs[i] /\ m[i] \in Nat
      BY <1>2, <1>3, <1>6, <3>1
    <3> QED BY <1>1, <1>5, <1>6, <2>3, <3>1, <3>2
  <2> QED BY <2>1, <2>2, <2>3
<1>9. Marked(W, p, rs, w)
  <2>1. k + 1 + 1 = k + 2
    BY <1>1
  <2> QED BY <1>2, <1>6, <1>7, <1>8, <2>1 DEF Marked
<1> QED BY <1>9 DEF rs

LEMMA Popped ==
  ASSUME NEW V \in Variables, NEW q \in Indices, NEW qs \in Seq(Variables), qs # <<>>,
         NEW m, Marked(V, q, qs, m), NEW n, n = Sim!LastMark(q)
  PROVE  /\ \E w : Marked(V, SubSeq(q, 1, n - 1), Front(qs), w)
         /\ SubSeq(q, 1, n - 1) \in Indices /\ SubSeq(q, n + 1, Len(q)) \in Indices
         /\ Spells(V, SubSeq(q, n + 1, Len(q)), Last(qs))
<1>1. PICK k, xs, a, l : k = Len(qs) /\ xs = qs[k] /\ a = m[k] /\ l = Len(q)
  OBVIOUS
<1>2. k \in Nat /\ k >= 1 /\ l \in Nat /\ Len(V) \in Nat /\ \A i \in 1..k : Len(qs[i]) \in Nat
  BY <1>1 DEF Variables, Indices
<1>3. k \in 1..k /\ k \in 1..(k + 1) /\ xs \in Variables /\ Len(xs) \in Nat
  BY <1>1, <1>2
<1>4. /\ m \in [1..(k + 1) -> Nat] /\ m[1] = 1 /\ m[k + 1] = l + 1
      /\ \A i \in 1..k : m[i] >= 1 /\ m[i + 1] = m[i] + 1 + Len(qs[i]) /\ Segment(V, q, m[i], qs[i])
      /\ \A i \in 1..k, j \in 1..(k + 1) : i < j => m[i] + 1 + Len(qs[i]) <= m[j]
  BY <1>1 DEF Marked
<1>5. a \in Nat /\ a >= 1 /\ a + Len(xs) = l /\ Segment(V, q, a, xs)
  BY <1>1, <1>2, <1>3, <1>4
<1>6. n = a
  <2> DEFINE marks == {i \in DOMAIN q : q[i] = Sim!MARK}
  <2>1. DOMAIN q = 1..l
    BY <1>1 DEF Indices
  <2>2. a \in marks
    BY <1>2, <1>3, <1>5, <2>1 DEF Segment
  <2>3. ASSUME NEW i \in marks PROVE i <= a
    <3>1. SUFFICES ASSUME i > a PROVE FALSE
      BY <1>5, <2>1
    <3>2. i \in 1..l /\ q[i] = 0
      BY <2>1 DEF Sim!MARK
    <3>3. PICK j \in 1..Len(xs) : i = a + j
      <4>1. i - a \in 1..Len(xs) /\ i = a + (i - a)
        BY <1>3, <1>5, <3>1, <3>2
      <4> QED BY <4>1
    <3>4. q[i] \in 1..Len(V)
      BY <1>5, <3>3 DEF Segment
    <3> QED BY <1>2, <3>2, <3>4
  <2>4. marks \subseteq Nat
    BY <2>1
  <2> HIDE DEF marks
  <2>5. \E x \in marks : \A y \in marks : x >= y
    BY <1>5, <2>2, <2>3, <2>4
  <2>6. PICK x : x = CHOOSE z \in marks : \A y \in marks : z >= y
    OBVIOUS
  <2>7. x \in marks /\ x >= a
    BY <2>2, <2>5, <2>6
  <2>8. x = a
    BY <1>5, <2>3, <2>4, <2>7
  <2>9. n = x
    BY <2>6 DEF Sim!LastMark, Sim!Max, marks
  <2> QED BY <2>8, <2>9
<1>7. PICK p, u : p = SubSeq(q, 1, n - 1) /\ u = SubSeq(q, n + 1, l)
  OBVIOUS
<1>8. p \in Indices /\ Len(p) = a - 1 /\ \A i \in 1..(a - 1) : p[i] = q[i]
  <2>1. a - 1 \in Nat /\ a - 1 <= l /\ q \in Seq(Nat) /\ p = SubSeq(q, 1, a - 1)
    BY <1>3, <1>5, <1>6, <1>7 DEF Indices
  <2>2. p \in Seq(Nat) /\ Len(p) = a - 1 /\ \A i \in 1..(a - 1) : p[i] = q[i]
    BY <1>1, <2>1
  <2> QED BY <2>2 DEF Indices
<1>9. u \in Indices /\ Len(u) = Len(xs) /\ \A j \in 1..Len(xs) : u[j] = q[a + j]
  <2>1. q \in Seq(Nat) /\ u = SubSeq(q, a + 1, l) /\ l - a = Len(xs)
    BY <1>3, <1>5, <1>6, <1>7 DEF Indices
  <2>2. u \in Seq(Nat) /\ Len(u) = l - a /\ \A j \in 1..(l - a) : u[j] = q[a + j]
    <3>1. a + 1 \in Int /\ l \in Int /\ \A i \in (a + 1)..l : q[i] \in Nat
      <4>1. \A i \in 1..l : q[i] \in Nat
        BY <1>1 DEF Indices
      <4>2. \A i \in (a + 1)..l : i \in 1..l
        BY <1>2, <1>5
      <4> QED BY <1>2, <1>5, <4>1, <4>2
    <3>2. /\ u \in Seq(Nat) /\ Len(u) = IF a + 1 <= l THEN l - (a + 1) + 1 ELSE 0
          /\ \A j \in 1..(l - (a + 1) + 1) : u[j] = q[(a + 1) + j - 1]
      BY <2>1, <3>1, SubSeqProperties
    <3>3. /\ l - (a + 1) + 1 = l - a /\ \A j \in 1..(l - a) : (a + 1) + j - 1 = a + j
          /\ (IF a + 1 <= l THEN l - (a + 1) + 1 ELSE 0) = l - a
      BY <1>2, <1>3, <1>5
    <3> QED BY <3>2, <3>3
  <2> QED BY <2>1, <2>2 DEF Indices
<1>10. Spells(V, u, xs)
  BY <1>5, <1>9 DEF Spells, Segment
<1>11. PICK f : f = Front(qs)
  OBVIOUS
<1>12. Len(f) = k - 1 /\ \A i \in 1..(k - 1) : f[i] = qs[i]
  BY <1>1, <1>2, <1>11 DEF Front
<1>13. PICK w : w = [i \in 1..k |-> m[i]]
  OBVIOUS
<1>14. Marked(V, p, f, w)
  <2>1. w \in [1..k -> Nat] /\ w[1] = 1 /\ w[k] = Len(p) + 1 /\ \A i \in 1..k : w[i] = m[i] /\ m[i] \in Nat
    <3>1. \A i \in 1..k : w[i] = m[i] /\ m[i] \in Nat
      BY <1>2, <1>4, <1>13
    <3>2. 1 \in 1..k /\ w[1] = m[1] /\ w[k] = m[k]
      BY <1>2, <1>3, <3>1
    <3>3. w \in [1..k -> Nat]
      BY <1>13, <3>1
    <3>4. Len(p) + 1 = a
      BY <1>5, <1>8
    <3> QED BY <1>1, <1>4, <3>1, <3>2, <3>3, <3>4
  <2>2. ASSUME NEW i \in 1..(k - 1)
        PROVE  /\ w[i] >= 1 /\ w[i + 1] = w[i] + 1 + Len(f[i])
               /\ Segment(V, p, w[i], f[i])
    <3>1. i \in 1..k /\ i + 1 \in 1..k /\ i < k /\ f[i] = qs[i]
      BY <1>2, <1>12
    <3>2. m[i] >= 1 /\ m[i + 1] = m[i] + 1 + Len(qs[i]) /\ Segment(V, q, m[i], qs[i])
          /\ m[i] + 1 + Len(qs[i]) <= a
      BY <1>1, <1>3, <1>4, <3>1
    <3>3. m[i] \in 1..(a - 1) /\ \A j \in 1..Len(qs[i]) : m[i] + j \in 1..(a - 1)
      <4>1. PICK x, y : x = m[i] /\ y = Len(qs[i])
        OBVIOUS
      <4>2. x \in Nat /\ y \in Nat /\ x >= 1 /\ x + 1 + y <= a
        BY <1>2, <2>1, <3>1, <3>2, <4>1
      <4>3. x \in 1..(a - 1) /\ \A j \in 1..y : x + j \in 1..(a - 1)
        BY <1>5, <4>2
      <4> QED BY <4>1, <4>3
    <3>4. Segment(V, p, m[i], qs[i])
      <4>1. p[m[i]] = q[m[i]] /\ \A j \in 1..Len(qs[i]) : p[m[i] + j] = q[m[i] + j]
        BY <1>8, <3>3
      <4> QED BY <3>2, <4>1 DEF Segment
    <3> QED BY <2>1, <3>1, <3>2, <3>4
  <2>3. ASSUME NEW i \in 1..(k - 1), NEW j \in 1..k, i < j PROVE w[i] + 1 + Len(f[i]) <= w[j]
    <3>1. i \in 1..k /\ j \in 1..(k + 1) /\ f[i] = qs[i]
      BY <1>2, <1>12
    <3> QED BY <1>4, <2>1, <2>3, <3>1
  <2>4. Len(f) + 1 = k /\ Len(f) = k - 1
    BY <1>2, <1>12
  <2> QED BY <2>1, <2>2, <2>3, <2>4 DEF Marked
<1>15. Last(qs) = xs
  BY <1>1 DEF Last
<1> QED BY <1>1, <1>7, <1>8, <1>9, <1>10, <1>11, <1>14, <1>15

-----------------------------------------------------------------------------
(* Opening and closing.                                                     *)

\* r has kept the variables cs of the closed quantifiers and qs of the open ones.
Binds(r, cs, qs) ==
  /\ r.variables \in Variables /\ r.quantified \in Indices /\ r.parameters \in Indices
  /\ r.lists \in Seq(Indices) /\ Len(r.lists) = Len(cs)
  /\ \A i \in 1..Len(cs) : Spells(r.variables, r.lists[i], cs[i])
  /\ \E m : Marked(r.variables, r.quantified, qs, m)

LEMMA KeptBinds ==
  ASSUME NEW r, DOMAIN r = Fields, NEW s, Kept(r, s), Good(s), NEW cs, NEW qs, Binds(r, cs, qs)
  PROVE  Binds(s, cs, qs) /\ s.parameters = r.parameters /\ s.variables = r.variables
BY DEF Kept, Binds

\* Behind a new mark.
LEMMA QuantifierOpened ==
  ASSUME NEW r, DOMAIN r = Fields, NEW requirement, NEW xs \in Variables,
         NEW s, s = Sim!AddVariables(Sim!Prepare(r, requirement), xs)
  PROVE  /\ DOMAIN s = Fields /\ (Good(s) => Good(r))
         /\ \A cs, qs \in Seq(Variables) : Binds(r, cs, qs) =>
              /\ Binds(s, cs, Append(qs, xs))
              /\ s.parameters = r.parameters /\ Extends(r.variables, s.variables)
<1>1. PICK q : q = Sim!Prepare(r, requirement)
  OBVIOUS
<1>2. PICK u : u = Sim!Assume(r, requirement)
  OBVIOUS
<1>3. Kept(r, u) /\ DOMAIN u = Fields
  BY <1>2, KeptAssumed DEF Kept
<1>4. /\ u.quantified = r.quantified /\ u.lists = r.lists /\ u.parameters = r.parameters
      /\ u.variables = r.variables
  BY <1>2, FieldsAre DEF Sim!Assume
<1>5. PICK t : t = [u EXCEPT !.quantified = Append(@, Sim!MARK)]
  OBVIOUS
<1>6. q = [t EXCEPT !.frames = Append(@, Sim!None)]
  BY <1>1, <1>2, <1>5 DEF Sim!Prepare, Sim!PushFrame
<1>7. /\ DOMAIN t = Fields /\ t.quantified = Append(r.quantified, Sim!MARK) /\ t.lists = r.lists
      /\ t.parameters = r.parameters /\ t.variables = r.variables /\ t.success = u.success /\ t.end = u.end
  BY <1>3, <1>4, <1>5, FieldsAre
<1>8. /\ DOMAIN q = Fields /\ q.quantified = Append(r.quantified, Sim!MARK) /\ q.lists = r.lists
      /\ q.parameters = r.parameters /\ q.variables = r.variables /\ q.success = u.success /\ q.end = u.end
  BY <1>6, <1>7, FieldsAre
<1>9. Good(q) => Good(r)
  BY <1>3, <1>8 DEF Kept, Good
<1>10. DOMAIN s = Fields /\ (Good(s) => Good(q))
  BY <1>1, <1>8, AddedAny DEF Variables
<1>11. ASSUME NEW cs \in Seq(Variables), NEW qs \in Seq(Variables), Binds(r, cs, qs)
       PROVE  /\ Binds(s, cs, Append(qs, xs))
              /\ s.parameters = r.parameters /\ Extends(r.variables, s.variables)
  <2>1. /\ r.variables \in Variables /\ r.quantified \in Indices /\ r.parameters \in Indices
        /\ r.lists \in Seq(Indices) /\ Len(r.lists) = Len(cs)
        /\ \A i \in 1..Len(cs) : Spells(r.variables, r.lists[i], cs[i])
    BY <1>11 DEF Binds
  <2>2. PICK m : Marked(r.variables, r.quantified, qs, m)
    BY <1>11 DEF Binds
  <2>3. PICK n, v, l : n = Len(r.quantified) /\ v = Len(r.variables) /\ l = Len(xs)
    OBVIOUS
  <2>4. n \in Nat /\ v \in Nat /\ l \in Nat
    BY <2>1, <2>3 DEF Variables, Indices
  <2>5. /\ q.quantified \in Indices /\ Len(q.quantified) = n + 1 /\ q.quantified[n + 1] = Sim!MARK
        /\ \A i \in 1..n : q.quantified[i] = r.quantified[i]
    BY <1>8, <2>1, <2>3 DEF Indices, Sim!MARK
  <2>6. Gets(q, "quantified", "parameters")
    <3>1. q.quantified # <<>>
      BY <2>4, <2>5
    <3> QED BY <3>1 DEF Gets
  <2>7. Added(q, s, xs, "quantified", "parameters")
    BY <1>1, <1>8, <2>1, <2>5, <2>6, AddedAll
  <2>8. /\ s.lists = r.lists /\ s.parameters = r.parameters
        /\ s.variables \in Variables /\ Len(s.variables) = v + l
        /\ \A i \in 1..v : s.variables[i] = r.variables[i]
        /\ \A j \in 1..l : s.variables[v + j][1] = xs[j][1]
        /\ s.quantified \in Indices /\ Len(s.quantified) = n + 1 + l
        /\ \A i \in 1..(n + 1) : s.quantified[i] = q.quantified[i]
        /\ \A j \in 1..l : s.quantified[n + 1 + j] = v + j
    BY <1>8, <2>3, <2>5, <2>7 DEF Added
  <2>9. Extends(r.variables, s.variables)
    BY <2>3, <2>4, <2>8 DEF Extends
  <2>10. Segment(s.variables, s.quantified, n + 1, xs)
    <3>1. n + 1 \in 1..(n + 1)
      BY <2>4
    <3>2. s.quantified[n + 1] = Sim!MARK
      BY <2>5, <2>8, <3>1
    <3>3. ASSUME NEW j \in 1..l
          PROVE  s.quantified[n + 1 + j] \in 1..Len(s.variables)
                 /\ s.variables[s.quantified[n + 1 + j]][1] = xs[j][1]
      <4>1. v + j \in 1..(v + l)
        BY <2>4
      <4> QED BY <2>8, <4>1
    <3> QED BY <2>3, <3>2, <3>3 DEF Segment
  <2>11. \A i \in 1..n : s.quantified[i] = r.quantified[i]
    <3>1. \A i \in 1..n : i \in 1..(n + 1)
      BY <2>4
    <3> QED BY <2>5, <2>8, <3>1
  <2>12. \E w : Marked(s.variables, s.quantified, Append(qs, xs), w)
    BY <2>1, <2>2, <2>3, <2>8, <2>9, <2>10, <2>11, Pushed
  <2>13. \A i \in 1..Len(cs) : Spells(s.variables, s.lists[i], cs[i])
    BY <2>1, <2>8, <2>9, StillSpells
  <2>14. s.parameters \in Indices /\ s.lists \in Seq(Indices) /\ Len(s.lists) = Len(cs)
    BY <2>1, <2>8
  <2> QED BY <2>8, <2>9, <2>12, <2>13, <2>14 DEF Binds
<1> QED BY <1>9, <1>10, <1>11

\* With no quantifier open the parameters of the action are declared.
LEMMA ActionOpened ==
  ASSUME NEW r, DOMAIN r = Fields, NEW a, NEW xs \in Variables,
         NEW s, s = Sim!AddVariables(Sim!MakeAction(r, a), xs)
  PROVE  /\ DOMAIN s = Fields /\ (Good(s) => Good(r))
         /\ \A cs \in Seq(Variables) : Binds(r, cs, <<>>) =>
              Binds(s, cs, <<>>) /\ Spells(s.variables, s.parameters, xs)
<1>1. PICK q : q = Sim!MakeAction(r, a)
  OBVIOUS
<1>2. PICK u : u = Sim!PushFrame(r)
  OBVIOUS
<1>3. /\ DOMAIN u = Fields /\ u.quantified = r.quantified /\ u.lists = r.lists
      /\ u.variables = r.variables /\ u.success = r.success /\ u.end = r.end
  BY <1>2, FieldsAre DEF Sim!PushFrame
<1>4. q = [u EXCEPT !.name = a, !.parameters = <<>>]
  BY <1>1, <1>2 DEF Sim!MakeAction
<1>5. /\ DOMAIN q = Fields /\ q.quantified = r.quantified /\ q.lists = r.lists /\ q.parameters = <<>>
      /\ q.variables = r.variables /\ q.success = r.success /\ q.end = r.end
  BY <1>3, <1>4, FieldsAre
<1>6. Good(q) <=> Good(r)
  BY <1>5 DEF Good
<1>7. DOMAIN s = Fields /\ (Good(s) => Good(q))
  BY <1>1, <1>5, AddedAny DEF Variables
<1>8. ASSUME NEW cs \in Seq(Variables), Binds(r, cs, <<>>)
      PROVE  Binds(s, cs, <<>>) /\ Spells(s.variables, s.parameters, xs)
  <2>1. /\ r.variables \in Variables /\ r.quantified \in Indices
        /\ r.lists \in Seq(Indices) /\ Len(r.lists) = Len(cs)
        /\ \A i \in 1..Len(cs) : Spells(r.variables, r.lists[i], cs[i])
    BY <1>8 DEF Binds
  <2>2. PICK m : Marked(r.variables, r.quantified, <<>>, m)
    BY <1>8 DEF Binds
  <2>3. r.quantified = <<>>
    <3>1. m[1] = 1 /\ m[0 + 1] = Len(r.quantified) + 1
      BY <2>2 DEF Marked
    <3>2. Len(r.quantified) = 0
      BY <2>1, <3>1 DEF Indices
    <3> QED BY <2>1, <3>2 DEF Indices
  <2>4. PICK v, l : v = Len(r.variables) /\ l = Len(xs)
    OBVIOUS
  <2>5. v \in Nat /\ l \in Nat
    BY <2>1, <2>4 DEF Variables
  <2>6. <<>> \in Indices /\ Gets(q, "parameters", "quantified")
    BY <1>5, <2>3 DEF Gets, Indices
  <2>7. Added(q, s, xs, "parameters", "quantified")
    BY <1>1, <1>5, <2>1, <2>6, AddedAll
  <2>8. /\ s.lists = r.lists /\ s.quantified = r.quantified
        /\ s.variables \in Variables /\ Len(s.variables) = v + l
        /\ \A i \in 1..v : s.variables[i] = r.variables[i]
        /\ \A j \in 1..l : s.variables[v + j][1] = xs[j][1]
        /\ s.parameters \in Indices /\ Len(s.parameters) = l
        /\ \A j \in 1..l : s.parameters[j] = v + j
    <3>1. Len(q.parameters) = 0 /\ \A j \in 1..l : 0 + j = j
      BY <1>5, <2>5
    <3> QED BY <1>5, <2>4, <2>5, <2>7, <3>1 DEF Added
  <2>9. Extends(r.variables, s.variables)
    BY <2>4, <2>5, <2>8 DEF Extends
  <2>10. Spells(s.variables, s.parameters, xs)
    <3>1. \A j \in 1..l : v + j \in 1..(v + l)
      BY <2>5
    <3> QED BY <2>4, <2>8, <3>1 DEF Spells
  <2>11. \A i \in 1..Len(cs) : Spells(s.variables, s.lists[i], cs[i])
    BY <2>1, <2>8, <2>9, StillSpells
  <2>12. Marked(s.variables, s.quantified, <<>>, m)
    BY <2>2, <2>8 DEF Marked
  <2> QED BY <2>1, <2>8, <2>10, <2>11, <2>12 DEF Binds
<1> QED BY <1>6, <1>7, <1>8

\* The last segment becomes a list, and its mark goes with it.
LEMMA QuantifierClosed ==
  ASSUME NEW r, DOMAIN r = Fields, NEW s, s = Sim!MakeQuantified(r)
  PROVE  /\ DOMAIN s = Fields /\ (Good(s) => Good(r))
         /\ \A cs, qs \in Seq(Variables) : Binds(r, cs, qs) /\ qs # <<>> =>
              /\ Binds(s, Append(cs, Last(qs)), Front(qs))
              /\ s.parameters = r.parameters /\ s.variables = r.variables
<1>1. PICK n, p, u : /\ n = Sim!LastMark(r.quantified) /\ p = SubSeq(r.quantified, 1, n - 1)
                     /\ u = SubSeq(r.quantified, n + 1, Len(r.quantified))
  OBVIOUS
<1>2. PICK q : q = Sim!PopFrame(r)
  OBVIOUS
<1>3. /\ DOMAIN q = Fields /\ q.quantified = r.quantified /\ q.lists = r.lists
      /\ q.parameters = r.parameters /\ q.variables = r.variables /\ q.success = r.success /\ q.end = r.end
  BY <1>2, FieldsAre DEF Sim!PopFrame
<1>4. s = [q EXCEPT !.lists = Append(@, u), !.quantified = p]
  BY <1>1, <1>2, <1>3 DEF Sim!MakeQuantified
<1>5. /\ DOMAIN s = Fields /\ s.quantified = p /\ s.lists = Append(r.lists, u)
      /\ s.parameters = r.parameters /\ s.variables = r.variables /\ s.success = r.success /\ s.end = r.end
  BY <1>3, <1>4, FieldsAre
<1>6. Good(s) => Good(r)
  BY <1>5 DEF Good
<1>7. ASSUME NEW cs \in Seq(Variables), NEW qs \in Seq(Variables), Binds(r, cs, qs), qs # <<>>
      PROVE  Binds(s, Append(cs, Last(qs)), Front(qs))
  <2>1. /\ r.variables \in Variables /\ r.quantified \in Indices /\ r.parameters \in Indices
        /\ r.lists \in Seq(Indices) /\ Len(r.lists) = Len(cs)
        /\ \A i \in 1..Len(cs) : Spells(r.variables, r.lists[i], cs[i])
    BY <1>7 DEF Binds
  <2>2. PICK m : Marked(r.variables, r.quantified, qs, m)
    BY <1>7 DEF Binds
  <2>3. /\ \E w : Marked(r.variables, p, Front(qs), w)
        /\ p \in Indices /\ u \in Indices /\ Spells(r.variables, u, Last(qs))
    BY <1>1, <1>7, <2>1, <2>2, Popped
  <2>4. PICK x, ds, ls : x = Last(qs) /\ ds = Append(cs, x) /\ ls = Append(r.lists, u)
    OBVIOUS
  <2>5. /\ ls \in Seq(Indices) /\ Len(ls) = Len(ds) /\ Len(ds) = Len(cs) + 1 /\ Len(cs) \in Nat
        /\ ds[Len(cs) + 1] = x /\ ls[Len(cs) + 1] = u
        /\ \A i \in 1..Len(cs) : ds[i] = cs[i] /\ ls[i] = r.lists[i]
    BY <2>1, <2>3, <2>4
  <2>6. ASSUME NEW i \in 1..Len(ds) PROVE Spells(r.variables, ls[i], ds[i])
    <3>1. CASE i = Len(cs) + 1
      BY <2>3, <2>4, <2>5, <3>1
    <3>2. CASE i # Len(cs) + 1
      <4>1. i \in 1..Len(cs)
        BY <2>5, <3>2
      <4> QED BY <2>1, <2>5, <4>1
    <3> QED BY <3>1, <3>2
  <2> QED BY <1>5, <2>1, <2>3, <2>4, <2>5, <2>6 DEF Binds
<1> QED BY <1>5, <1>6, <1>7

LEMMA ActionClosed == ASSUME NEW r PROVE Calm(r, Sim!AddAction(r))
<1>1. PICK q : q = Sim!PopFrame(r)
  OBVIOUS
<1>2. Calm(r, q)
  BY <1>1, CalmOne, FieldsAre DEF Apart, Sim!PopFrame
<1>3. PICK a : Sim!AddAction(r) = [q EXCEPT !.actions = a, !.name = ""]
  BY <1>1 DEF Sim!AddAction
<1>4. Calm(q, [q EXCEPT !.actions = a, !.name = ""])
  BY FieldsAre DEF Kept, Calm, Quiet, Good
<1> QED BY <1>2, <1>3, <1>4, CalmTwice

-----------------------------------------------------------------------------
(* What is open is on the stack, what has been closed in the lists.         *)

\* The variables of the quantifiers that are open.
Quantifiers == IF section = 6 /\ scopes # <<>> THEN Tail(scopes) ELSE scopes

BindersInv ==
  /\ text \in Texts /\ section \in 1..12 /\ DOMAIN sim = Fields
  /\ scopes \in Seq(Variables) /\ closed \in Seq(Variables)
  /\ section \notin {6, 10} => scopes = <<>>
  /\ Good(sim) => /\ Binds(sim, closed, Quantifiers)
                  /\ section = 6 /\ scopes # <<>> => Spells(sim.variables, sim.parameters, scopes[1])

LEMMA InitBinders == Init => BindersInv
<1> SUFFICES ASSUME Init PROVE BindersInv
  OBVIOUS
<1>1. /\ text \in Texts /\ section = 1 /\ scopes = <<>> /\ closed = <<>> /\ sim = Sim!Start
  BY DEF Init
<1>2. DOMAIN sim = Fields /\ Quantifiers = <<>>
  BY <1>1 DEF Fields, Quantifiers
<1>3. sim.variables = <<>> /\ sim.quantified = <<>> /\ sim.parameters = <<>> /\ sim.lists = <<>>
  BY <1>1 DEF Sim!Start
<1>4. \E m : Marked(sim.variables, sim.quantified, <<>>, m)
  <2>1. PICK m : m = [i \in 1..1 |-> 1]
    OBVIOUS
  <2>2. m \in [1..(Len(<<>>) + 1) -> Nat] /\ m[1] = 1 /\ m[Len(<<>>) + 1] = Len(<<>>) + 1 /\ 1..Len(<<>>) = {}
    BY <2>1
  <2> QED BY <1>3, <2>2 DEF Marked
<1>5. Binds(sim, closed, Quantifiers)
  BY <1>1, <1>2, <1>3, <1>4 DEF Binds, Variables, Indices
<1> QED BY <1>1, <1>2, <1>5 DEF BindersInv

\* A step that leaves the scopes alone and the binders too.
LEMMA BindersKept ==
  ASSUME BindersInv, text' = text, section' \in 1..12, UNCHANGED <<scopes, closed>>,
         section' # section => scopes = <<>>,
         DOMAIN sim' = Fields, Good(sim') => Kept(sim, sim')
  PROVE  BindersInv'
<1>1. /\ text \in Texts /\ DOMAIN sim = Fields /\ scopes \in Seq(Variables) /\ closed \in Seq(Variables)
      /\ section \notin {6, 10} => scopes = <<>>
  BY DEF BindersInv
<1>2. Quantifiers' = Quantifiers
  BY DEF Quantifiers
<1>3. PICK qs : qs = Quantifiers
  OBVIOUS
<1>4. ASSUME Good(sim')
      PROVE  /\ Binds(sim', closed, qs)
             /\ section' = 6 /\ scopes # <<>> => Spells(sim'.variables, sim'.parameters, scopes[1])
  <2>1. PICK s : s = sim'
    OBVIOUS
  <2>2. Kept(sim, s) /\ Good(s)
    BY <1>4, <2>1
  <2>3. Good(sim)
    BY <1>1, <2>2 DEF Kept
  <2>4. /\ Binds(sim, closed, qs)
        /\ section = 6 /\ scopes # <<>> => Spells(sim.variables, sim.parameters, scopes[1])
    BY <1>3, <2>3 DEF BindersInv
  <2>5. Binds(s, closed, qs) /\ s.parameters = sim.parameters /\ s.variables = sim.variables
    BY <1>1, <2>2, <2>4, KeptBinds
  <2>6. section' = 6 /\ scopes # <<>> => Spells(s.variables, s.parameters, scopes[1])
    BY <2>4, <2>5
  <2> QED BY <2>1, <2>5, <2>6
<1>5. section' \notin {6, 10} => scopes = <<>>
  BY <1>1
<1>6. BindersInv' <=>
        /\ text' \in Texts /\ section' \in 1..12 /\ DOMAIN sim' = Fields
        /\ scopes' \in Seq(Variables) /\ closed' \in Seq(Variables)
        /\ section' \notin {6, 10} => scopes' = <<>>
        /\ Good(sim') => /\ Binds(sim', closed', Quantifiers')
                         /\ section' = 6 /\ scopes' # <<>> => Spells(sim'.variables, sim'.parameters, scopes'[1])
  BY DEF BindersInv
<1> QED BY <1>1, <1>2, <1>3, <1>4, <1>5, <1>6

LEMMA BindersAfterEntry ==
  ASSUME BindersInv, NEW s, NEW p, Entry(s, p), Kept(sim, s), UNCHANGED <<scopes, closed>>
  PROVE  BindersInv'
<1>1. sim' \in {s, sim} /\ text' = text /\ section' = section
  BY DEF Entry
<1>2. PICK r : r = sim'
  OBVIOUS
<1>3. Kept(sim, r) /\ r \in {s, sim}
  BY <1>1, <1>2, KeptSame
<1>4. DOMAIN r = Fields
  BY <1>3 DEF BindersInv, Kept
<1>5. section \in 1..12
  BY DEF BindersInv
<1> QED BY <1>1, <1>2, <1>3, <1>4, <1>5, BindersKept

\* Every step that reads something without variables of its own.
LEMMA ReadingIsCalm ==
  ASSUME DOMAIN sim = Fields, text \in Texts,
         \/ ReadType \/ ReadName \/ ReadPredicate \/ ReadFunction
         \/ ReadAtom \/ ReadEqual \/ ReadChange \/ ReadUpdate \/ ReadValue \/ ReadOutcomes
  PROVE  \E s, p : Entry(s, p) /\ Calm(sim, s) /\ UNCHANGED <<scopes, closed>>
<1>1. DOMAIN sim = Fields /\ text \in Texts
  OBVIOUS
<1>2. /\ \A d \in text.predicates \cup text.functions : d[2] \in Seq(SUBSET STRING)
      /\ \A xs \in text.terms : xs \in Seq(STRING)
      /\ <<>> \in Seq(STRING)
  <2>1. PICK t \in Texts : t = text
    BY <1>1
  <2>2. \A d \in t.predicates \cup t.functions : d[2] \in Seq(SUBSET STRING)
    BY TextsAssumption
  <2>3. t.terms \subseteq Seq(STRING)
    BY TextsAssumption
  <2> QED BY <2>1, <2>2, <2>3
<1>5. CASE ReadType
  <2>1. PICK d \in text.types :
           Entry(Sim!AddTypeName(Sim!TypeSpec(sim, d[2]), d[1], d[2]),
                 Plan!AddTypeName(Plan!TypeSpec(plan, d[2]), d[1], d[2]))
    BY <1>5 DEF ReadType
  <2>2. UNCHANGED <<scopes, closed>>
    BY <1>5 DEF ReadType
  <2>3. Calm(sim, Sim!AddTypeName(Sim!TypeSpec(sim, d[2]), d[1], d[2]))
    BY CalmTypes, CalmTwice
  <2> QED BY <2>1, <2>2, <2>3
<1>6. CASE ReadName
  <2>1. PICK d \in text.names : \E p :
           \/ Entry(Sim!AddConstantName(Sim!TypeSpec(sim, d[2]), d[1], d[2]), p)
           \/ Entry(Sim!AddObjectName(Sim!TypeSpec(sim, d[2]), d[1], d[2]), p)
    BY <1>6 DEF ReadName
  <2>2. UNCHANGED <<scopes, closed>>
    BY <1>6 DEF ReadName
  <2>3. PICK q : q = Sim!TypeSpec(sim, d[2])
    OBVIOUS
  <2>4. Calm(sim, q)
    BY <2>3, CalmTypes
  <2>5. Calm(sim, Sim!AddConstantName(q, d[1], d[2])) /\ Calm(sim, Sim!AddObjectName(q, d[1], d[2]))
    BY <2>4, CalmNames, CalmTwice
  <2> QED BY <2>1, <2>2, <2>3, <2>5
<1>7. CASE ReadPredicate
  <2>1. PICK d \in text.predicates :
           Entry(Sim!DeclarePredicate(sim, d[1], d[2]), Plan!DeclarePredicate(plan, d[1], d[2]))
    BY <1>7 DEF ReadPredicate
  <2>2. UNCHANGED <<scopes, closed>>
    BY <1>7 DEF ReadPredicate
  <2>3. Calm(sim, Sim!DeclarePredicate(sim, d[1], d[2]))
    BY <1>2, CalmDeclared
  <2> QED BY <2>1, <2>2, <2>3
<1>8. CASE ReadFunction
  <2>1. PICK d \in text.functions :
           Entry(Sim!DeclareFunction(sim, d[1], d[2]), Plan!DeclareFunction(plan, d[1], d[2]))
    BY <1>8 DEF ReadFunction
  <2>2. UNCHANGED <<scopes, closed>>
    BY <1>8 DEF ReadFunction
  <2>3. Calm(sim, Sim!DeclareFunction(sim, d[1], d[2]))
    BY <1>2, CalmDeclared
  <2> QED BY <2>1, <2>2, <2>3
<1>9. CASE ReadAtom
  <2>1. PICK p \in text.heads, xs \in text.terms : Entry(Sim!ReadAtom(sim, p, xs), Plan!ReadAtom(plan, p, xs))
    BY <1>9 DEF ReadAtom
  <2>2. UNCHANGED <<scopes, closed>>
    BY <1>9 DEF ReadAtom
  <2>3. Calm(sim, Sim!ReadAtom(sim, p, xs))
    BY <1>1, <1>2, CalmRead
  <2> QED BY <2>1, <2>2, <2>3
<1>10. CASE ReadEqual
  <2>1. PICK e \in text.equal : Entry(Sim!ReadEqual(sim, e[1], e[2]), Plan!ReadEqual(plan, e[1], e[2]))
    BY <1>10 DEF ReadEqual
  <2>2. UNCHANGED <<scopes, closed>>
    BY <1>10 DEF ReadEqual
  <2> QED BY <1>1, <2>1, <2>2, CalmEqual
<1>11. CASE ReadChange
  <2>1. PICK p \in text.heads, xs \in text.terms : Entry(Sim!ReadChange(sim, p, xs), Plan!ReadChange(plan, p, xs))
    BY <1>11 DEF ReadChange
  <2>2. UNCHANGED <<scopes, closed>>
    BY <1>11 DEF ReadChange
  <2>3. Calm(sim, Sim!ReadChange(sim, p, xs))
    BY <1>1, <1>2, CalmRead
  <2> QED BY <2>1, <2>2, <2>3
<1>12. CASE ReadUpdate
  <2>1. PICK f \in text.fluents, op \in {"assign", "increase"}, constant \in BOOLEAN :
           Entry(Sim!ReadUpdate(sim, op, f, <<>>, constant), Plan!ReadUpdate(plan, op, f, <<>>, constant))
    BY <1>12 DEF ReadUpdate
  <2>2. UNCHANGED <<scopes, closed>>
    BY <1>12 DEF ReadUpdate
  <2> QED BY <1>1, <2>1, <2>2, CalmUpdated
<1>13. CASE ReadValue
  <2>1. PICK f \in text.fluents :
           Entry(Sim!ReadValue(sim, f), Plan!ReadApplication(plan, f, <<>>))
    BY <1>13 DEF ReadValue
  <2>2. UNCHANGED <<scopes, closed>>
    BY <1>13 DEF ReadValue
  <2>3. PICK q, v : q = Sim!ReadFluent(sim, f, <<>>, "formula") /\ Sim!ReadValue(sim, f) = [q EXCEPT !.values = v]
    BY DEF Sim!ReadValue
  <2>4. Calm(sim, q) /\ Calm(q, [q EXCEPT !.values = v])
    BY <1>1, <1>2, <2>3, CalmRead, CalmOne, FieldsAre DEF Apart
  <2> QED BY <2>1, <2>2, <2>3, <2>4, CalmTwice
<1>14. CASE ReadOutcomes
  <2>1. PICK w \in text.weights : Entry(Sim!ReadOutcomes(sim, w, 4), Plan!ReadOutcomes(plan, w, 4))
    BY <1>14 DEF ReadOutcomes
  <2>2. UNCHANGED <<scopes, closed>>
    BY <1>14 DEF ReadOutcomes
  <2> QED BY <2>1, <2>2, CalmRest
<1> QED BY <1>5, <1>6, <1>7, <1>8, <1>9, <1>10, <1>11, <1>12, <1>13, <1>14

LEMMA BindersStepRead ==
  ASSUME BindersInv,
         \/ ReadRequirement \/ ReadType \/ ReadName \/ ReadPredicate \/ ReadFunction
         \/ ReadAtom \/ ReadEqual \/ ReadChange \/ ReadUpdate \/ ReadValue \/ ReadOutcomes
  PROVE  BindersInv'
<1>1. DOMAIN sim = Fields /\ text \in Texts
  BY DEF BindersInv
<1>2. CASE ReadRequirement
  BY <1>2, KeptRequired, BindersAfterEntry DEF ReadRequirement
<1>3. CASE ~ReadRequirement
  <2>1. \E s, p : Entry(s, p) /\ Kept(sim, s) /\ UNCHANGED <<scopes, closed>>
    BY <1>1, <1>3, ReadingIsCalm DEF Calm
  <2> QED BY <2>1, BindersAfterEntry
<1> QED BY <1>2, <1>3

LEMMA BindersStepSection ==
  ASSUME BindersInv, NextSection \/ BeginProblem \/ EndProblem
  PROVE  BindersInv'
<1>1. /\ DOMAIN sim = Fields /\ section \in 1..12
      /\ section \notin {6, 10} => scopes = <<>>
  BY DEF BindersInv
<1>2. CASE NextSection
  <2>1. /\ scopes = <<>> /\ section' = section + 1 /\ text' = text /\ sim' = sim
        /\ UNCHANGED <<scopes, closed>> /\ section # 12
    BY <1>1, <1>2, SectionsAre DEF NextSection
  <2> QED BY <1>1, <2>1, KeptSame, BindersKept
<1>3. CASE BeginProblem
  <2>1. /\ scopes = <<>> /\ section' = section + 1 /\ text' = text
        /\ UNCHANGED <<scopes, closed>> /\ section = 6
    BY <1>1, <1>3, SectionsAre DEF BeginProblem
  <2>2. PICK known : sim' = IF sim.end = "" THEN Sim!MakeProblem(sim, known) ELSE sim
    BY <1>3 DEF BeginProblem
  <2>3. PICK r : r = sim'
    OBVIOUS
  <2>4. DOMAIN r = Fields /\ (Good(r) => Kept(sim, r))
    <3>1. CASE sim.end # ""
      BY <1>1, <2>2, <2>3, <3>1, KeptSame
    <3>2. CASE sim.end = "" /\ known
      <4>1. r = Sim!MakeProblem(sim, TRUE)
        BY <2>2, <2>3, <3>2 DEF Sim!MakeProblem
      <4> QED BY <1>1, <4>1, CalmRest DEF Calm, Kept
    <3>3. CASE sim.end = "" /\ ~known
      <4>1. PICK q : q = Sim!Fail(Sim!Start)
        OBVIOUS
      <4>2. DOMAIN q = Fields /\ ~Good(q)
        BY <4>1, CalmFailed DEF Fields, Calm, Kept
      <4>3. PICK u : u = [q EXCEPT !.frames = sim.frames, !.quantified = sim.quantified]
        OBVIOUS
      <4>4. r = [u EXCEPT !.problem = TRUE, !.objects = Sim!None, !.values = {}]
        BY <2>2, <2>3, <3>3, <4>1, <4>3 DEF Sim!MakeProblem
      <4>5. DOMAIN u = Fields /\ u.success = q.success /\ u.end = q.end
        BY <4>2, <4>3, FieldsAre
      <4>6. DOMAIN r = Fields /\ r.success = u.success /\ r.end = u.end
        BY <4>4, <4>5, FieldsAre
      <4> QED BY <4>2, <4>5, <4>6 DEF Good
    <3> QED BY <3>1, <3>2, <3>3
  <2> QED BY <1>1, <2>1, <2>3, <2>4, BindersKept
<1>4. CASE EndProblem
  <2>1. /\ section' = section + 1 /\ text' = text /\ UNCHANGED <<scopes, closed>> /\ section = 11
    BY <1>1, <1>4, SectionsAre DEF EndProblem
  <2>2. PICK s \in {Sim!SetGoalReward(sim), sim} : sim' = IF sim.end = "" THEN Sim!Instantiate(s) ELSE sim
    BY <1>4 DEF EndProblem
  <2>3. PICK r : r = sim'
    OBVIOUS
  <2>4. Kept(sim, s) /\ Kept(s, Sim!Instantiate(s))
    BY CalmRest, KeptSame DEF Calm
  <2>5. Kept(sim, r)
    BY <2>2, <2>3, <2>4, KeptSame, KeptTwice
  <2>6. DOMAIN r = Fields
    BY <1>1, <2>5 DEF Kept
  <2> QED BY <1>1, <2>1, <2>3, <2>5, <2>6, BindersKept
<1> QED BY <1>2, <1>3, <1>4

\* What a step that changes the scopes has to show.
LEMMA BindersAfter ==
  ASSUME BindersInv, text' = text, section' = section, section \in {6, 10},
         NEW r, sim' = r, NEW ss \in Seq(Variables), scopes' = ss,
         NEW cs \in Seq(Variables), closed' = cs, NEW qs,
         qs = IF section = 6 /\ ss # <<>> THEN Tail(ss) ELSE ss,
         DOMAIN r = Fields,
         Good(r) => /\ Binds(r, cs, qs)
                    /\ section = 6 /\ ss # <<>> => Spells(r.variables, r.parameters, ss[1])
  PROVE  BindersInv'
<1>1. Quantifiers' = qs
  BY DEF Quantifiers
<1>2. text \in Texts /\ section \in 1..12
  BY DEF BindersInv
<1> QED BY <1>1, <1>2 DEF BindersInv

LEMMA BindersStepOpen == ASSUME BindersInv, OpenAction \/ OpenQuantifier PROVE BindersInv'
<1>1. /\ DOMAIN sim = Fields /\ section \in 1..12 /\ text \in Texts
      /\ scopes \in Seq(Variables) /\ closed \in Seq(Variables)
      /\ Good(sim) => /\ Binds(sim, closed, Quantifiers)
                      /\ section = 6 /\ scopes # <<>> => Spells(sim.variables, sim.parameters, scopes[1])
  BY DEF BindersInv
<1>2. text.binders \subseteq Variables
  BY <1>1, TextsAssumption DEF Variables
<1>3. CASE OpenAction
  <2>1. section = 6 /\ scopes = <<>> /\ text' = text /\ section' = section /\ closed' = closed
    BY <1>1, <1>3, SectionsAre DEF OpenAction, Entry
  <2>2. PICK a \in text.actions, xs \in text.binders :
           /\ Entry(Sim!AddVariables(Sim!MakeAction(sim, a), xs), Plan!AddVariables(Plan!MakeAction(plan, a), xs))
           /\ scopes' = <<xs>>
    BY <1>3 DEF OpenAction
  <2>3. xs \in Variables
    BY <1>2, <2>2
  <2>4. PICK s : s = Sim!AddVariables(Sim!MakeAction(sim, a), xs)
    OBVIOUS
  <2>5. /\ DOMAIN s = Fields /\ (Good(s) => Good(sim))
        /\ Binds(sim, closed, <<>>) => Binds(s, closed, <<>>) /\ Spells(s.variables, s.parameters, xs)
    BY <1>1, <2>3, <2>4, ActionOpened
  <2>6. PICK r : r = sim'
    OBVIOUS
  <2>7. sim' = IF sim.end = "" THEN s ELSE sim
    BY <2>2, <2>4 DEF Entry
  <2>8. DOMAIN r = Fields
    BY <1>1, <2>5, <2>6, <2>7
  <2>9. ASSUME Good(r) PROVE Binds(r, closed, <<>>) /\ Spells(r.variables, r.parameters, xs)
    <3>1. CASE sim.end = ""
      <4>1. r = s /\ Good(s) /\ Good(sim)
        BY <2>5, <2>6, <2>7, <2>9, <3>1
      <4>2. Binds(sim, closed, <<>>)
        BY <1>1, <2>1, <4>1 DEF Quantifiers
      <4> QED BY <2>5, <4>1, <4>2
    <3>2. CASE sim.end # ""
      BY <2>6, <2>7, <2>9, <3>2 DEF Good
    <3> QED BY <3>1, <3>2
  <2>10. PICK ss : ss = <<xs>>
    OBVIOUS
  <2>11. ss \in Seq(Variables) /\ ss # <<>> /\ Tail(ss) = <<>> /\ ss[1] = xs
    BY <2>3, <2>10
  <2>12. Good(r) => /\ Binds(r, closed, <<>>)
                    /\ section = 6 /\ ss # <<>> => Spells(r.variables, r.parameters, ss[1])
    BY <2>9, <2>11
  <2>13. <<>> = IF section = 6 /\ ss # <<>> THEN Tail(ss) ELSE ss
    BY <2>1, <2>11
  <2> QED BY <1>1, <2>1, <2>2, <2>6, <2>8, <2>10, <2>11, <2>12, <2>13, BindersAfter
<1>4. CASE OpenQuantifier
  <2>1. /\ (section = 6 /\ scopes # <<>>) \/ section = 10
        /\ text' = text /\ section' = section /\ closed' = closed
    BY <1>1, <1>4, SectionsAre DEF OpenQuantifier, InFormula, Entry
  <2>2. PICK requirement \in text.quantifiers, xs \in text.binders :
           /\ Entry(Sim!AddVariables(Sim!Prepare(sim, requirement), xs),
                    Plan!AddVariables(Plan!Prepare(plan, requirement), xs))
           /\ scopes' = Append(scopes, xs)
    BY <1>4 DEF OpenQuantifier
  <2>3. xs \in Variables
    BY <1>2, <2>2
  <2>4. PICK s : s = Sim!AddVariables(Sim!Prepare(sim, requirement), xs)
    OBVIOUS
  <2>5. PICK qs : qs = Quantifiers
    OBVIOUS
  <2>6. PICK ss, ts : ss = Append(scopes, xs) /\ ts = Append(qs, xs)
    OBVIOUS
  <2>7. /\ qs \in Seq(Variables) /\ ss \in Seq(Variables) /\ ss # <<>>
        /\ ts = IF section = 6 /\ ss # <<>> THEN Tail(ss) ELSE ss
        /\ section = 6 => ss[1] = scopes[1]
    <3>1. ss \in Seq(Variables) /\ Len(ss) = Len(scopes) + 1 /\ Len(scopes) \in Nat
          /\ \A i \in 1..Len(scopes) : ss[i] = scopes[i]
      BY <1>1, <2>3, <2>6
    <3>2. ss # <<>>
      BY <3>1
    <3>3. CASE section = 6
      <4>1. scopes # <<>> /\ qs = Tail(scopes)
        BY <2>1, <2>5, <3>3 DEF Quantifiers
      <4>2. qs \in Seq(Variables) /\ Append(Tail(scopes), xs) = Tail(Append(scopes, xs))
        BY <1>1, <2>3, <4>1
      <4>3. ss[1] = scopes[1]
        BY <1>1, <3>1, <4>1
      <4> QED BY <2>6, <3>1, <3>2, <3>3, <4>1, <4>2, <4>3
    <3>4. CASE section # 6
      BY <1>1, <2>5, <2>6, <3>1, <3>2, <3>4 DEF Quantifiers
    <3> QED BY <3>3, <3>4
  <2>8. /\ DOMAIN s = Fields /\ (Good(s) => Good(sim))
        /\ Binds(sim, closed, qs) => /\ Binds(s, closed, ts) /\ s.parameters = sim.parameters
                                     /\ Extends(sim.variables, s.variables)
    BY <1>1, <2>3, <2>4, <2>6, <2>7, QuantifierOpened
  <2>9. PICK r : r = sim'
    OBVIOUS
  <2>10. sim' = IF sim.end = "" THEN s ELSE sim
    BY <2>2, <2>4 DEF Entry
  <2>11. DOMAIN r = Fields
    BY <1>1, <2>8, <2>9, <2>10
  <2>12. ASSUME Good(r)
         PROVE  /\ Binds(r, closed, ts)
                /\ section = 6 /\ ss # <<>> => Spells(r.variables, r.parameters, ss[1])
    <3>1. CASE sim.end = ""
      <4>1. r = s /\ Good(s) /\ Good(sim)
        BY <2>8, <2>9, <2>10, <2>12, <3>1
      <4>2. Binds(sim, closed, qs)
        BY <1>1, <2>5, <4>1
      <4>3. Binds(s, closed, ts) /\ s.parameters = sim.parameters /\ Extends(sim.variables, s.variables)
        BY <2>8, <4>2
      <4>4. ASSUME section = 6 PROVE Spells(s.variables, s.parameters, ss[1])
        <5>1. Spells(sim.variables, sim.parameters, scopes[1])
          BY <1>1, <2>1, <4>1, <4>4
        <5>2. sim.variables \in Variables /\ s.variables \in Variables
          BY <4>2, <4>3 DEF Binds
        <5> QED BY <2>7, <4>3, <4>4, <5>1, <5>2, StillSpells
      <4> QED BY <4>1, <4>3, <4>4
    <3>2. CASE sim.end # ""
      BY <2>9, <2>10, <2>12, <3>2 DEF Good
    <3> QED BY <3>1, <3>2
  <2> QED BY <1>1, <2>1, <2>2, <2>6, <2>7, <2>9, <2>11, <2>12, BindersAfter
<1> QED BY <1>3, <1>4

LEMMA BindersStepClose == ASSUME BindersInv, Close PROVE BindersInv'
<1>1. /\ DOMAIN sim = Fields /\ section \in 1..12
      /\ scopes \in Seq(Variables) /\ closed \in Seq(Variables)
      /\ section \notin {6, 10} => scopes = <<>>
      /\ Good(sim) => /\ Binds(sim, closed, Quantifiers)
                      /\ section = 6 /\ scopes # <<>> => Spells(sim.variables, sim.parameters, scopes[1])
  BY DEF BindersInv
<1>2. PICK k, ss, x : k = Len(scopes) /\ ss = Front(scopes) /\ x = Last(scopes)
  OBVIOUS
<1>3. /\ k \in Nat /\ k >= 1 /\ ss \in Seq(Variables) /\ Len(ss) = k - 1
      /\ \A i \in 1..(k - 1) : ss[i] = scopes[i]
      /\ x = scopes[k] /\ x \in Variables /\ scopes # <<>>
  <2>1. scopes # <<>>
    BY DEF Close
  <2>2. k \in Nat /\ k >= 1
    BY <1>1, <1>2, <2>1
  <2>3. x = scopes[k] /\ x \in Variables
    BY <1>1, <1>2, <2>2 DEF Last
  <2>4. ss = SubSeq(scopes, 1, k - 1)
    BY <1>2 DEF Front
  <2>5. 1 \in Int /\ k - 1 \in Int /\ \A i \in 1..(k - 1) : scopes[i] \in Variables
    BY <1>1, <1>2, <2>2
  <2>6. /\ ss \in Seq(Variables) /\ Len(ss) = (IF 1 <= k - 1 THEN (k - 1) - 1 + 1 ELSE 0)
        /\ \A i \in 1..((k - 1) - 1 + 1) : ss[i] = scopes[1 + i - 1]
    BY <2>4, <2>5, SubSeqProperties
  <2>7. /\ (IF 1 <= k - 1 THEN (k - 1) - 1 + 1 ELSE 0) = k - 1 /\ (k - 1) - 1 + 1 = k - 1
        /\ \A i \in 1..(k - 1) : 1 + i - 1 = i
    BY <2>2
  <2> QED BY <2>1, <2>2, <2>3, <2>6, <2>7
<1>4. section \in {6, 10} /\ text' = text /\ section' = section /\ scopes' = ss
  BY <1>1, <1>2, <1>3 DEF Close
<1>5. PICK r : r = sim'
  OBVIOUS
<1>6. CASE section = 6 /\ k = 1
  <2>1. sim' = (IF sim.end = "" THEN Sim!AddAction(sim) ELSE sim) /\ closed' = closed
    BY <1>1, <1>2, <1>6, SectionsAre DEF Close
  <2>2. Kept(sim, r) /\ DOMAIN r = Fields
    BY <1>1, <1>5, <2>1, ActionClosed, KeptSame DEF Calm, Kept
  <2>3. ss = <<>>
    BY <1>3, <1>6
  <2>4. Quantifiers = <<>>
    <3>1. Quantifiers = Tail(scopes)
      BY <1>3, <1>6 DEF Quantifiers
    <3>2. scopes \in Seq(Variables) /\ scopes # <<>> /\ Len(scopes) = 1
      BY <1>1, <1>2, <1>3, <1>6
    <3>3. PICK t : t = Tail(scopes)
      OBVIOUS
    <3>4. t \in Seq(Variables) /\ Len(t) = 0
      BY <3>2, <3>3
    <3> QED BY <3>1, <3>3, <3>4
  <2>5. Good(r) => /\ Binds(r, closed, <<>>)
                   /\ section = 6 /\ ss # <<>> => Spells(r.variables, r.parameters, ss[1])
    <3>1. SUFFICES ASSUME Good(r) PROVE Binds(r, closed, <<>>)
      BY <2>3
    <3>2. Good(sim)
      BY <1>1, <2>2, <3>1 DEF Kept
    <3> QED BY <1>1, <2>2, <2>4, <3>1, <3>2, KeptBinds
  <2>6. <<>> = IF section = 6 /\ ss # <<>> THEN Tail(ss) ELSE ss
    BY <2>3
  <2> QED BY <1>1, <1>3, <1>4, <1>5, <2>1, <2>2, <2>5, <2>6, BindersAfter
<1>7. CASE ~(section = 6 /\ k = 1)
  <2>1. sim' = (IF sim.end = "" THEN Sim!MakeQuantified(sim) ELSE sim) /\ closed' = Append(closed, x)
    BY <1>1, <1>2, <1>7, SectionsAre DEF Close
  <2>2. PICK s, qs, cs : s = Sim!MakeQuantified(sim) /\ qs = Quantifiers /\ cs = Append(closed, x)
    OBVIOUS
  <2>3. PICK ts : ts = Front(qs)
    OBVIOUS
  <2>4. /\ qs \in Seq(Variables) /\ qs # <<>> /\ Last(qs) = x
        /\ ts = IF section = 6 /\ ss # <<>> THEN Tail(ss) ELSE ss
        /\ section = 6 => ss[1] = scopes[1]
    <3>1. CASE section = 6
      <4>1. qs = Tail(scopes) /\ k >= 2
        BY <1>3, <1>7, <2>2, <3>1 DEF Quantifiers
      <4>2. /\ qs \in Seq(Variables) /\ Len(qs) = k - 1 /\ \A i \in 1..(k - 1) : qs[i] = scopes[i + 1]
        BY <1>1, <1>2, <1>3, <4>1
      <4>3. qs # <<>> /\ Last(qs) = x
        BY <1>3, <4>1, <4>2 DEF Last
      <4>4. ss # <<>> /\ ss[1] = scopes[1]
        BY <1>3, <4>1
      <4>5. ts = SubSeq(qs, 1, k - 2)
        BY <1>3, <2>3, <4>2 DEF Front
      <4>6. 1 \in Int /\ k - 2 \in Int /\ \A i \in 1..(k - 2) : qs[i] \in Variables
        BY <1>3, <4>1, <4>2
      <4>7. /\ ts \in Seq(Variables) /\ Len(ts) = (IF 1 <= k - 2 THEN (k - 2) - 1 + 1 ELSE 0)
            /\ \A i \in 1..((k - 2) - 1 + 1) : ts[i] = qs[1 + i - 1]
        BY <4>5, <4>6, SubSeqProperties
      <4>8. Len(ts) = k - 2 /\ \A i \in 1..(k - 2) : ts[i] = scopes[i + 1]
        <5>1. /\ (IF 1 <= k - 2 THEN (k - 2) - 1 + 1 ELSE 0) = k - 2 /\ (k - 2) - 1 + 1 = k - 2
              /\ \A i \in 1..(k - 2) : 1 + i - 1 = i /\ i \in 1..(k - 1)
          BY <1>3, <4>1
        <5> QED BY <4>2, <4>7, <5>1
      <4>9. PICK t : t = Tail(ss)
        OBVIOUS
      <4>10. t \in Seq(Variables) /\ Len(t) = k - 2 /\ \A i \in 1..(k - 2) : t[i] = scopes[i + 1]
        <5>1. t \in Seq(Variables) /\ Len(t) = k - 2 /\ \A i \in 1..(k - 2) : t[i] = ss[i + 1]
          BY <1>3, <4>4, <4>9
        <5>2. \A i \in 1..(k - 2) : i + 1 \in 1..(k - 1)
          BY <1>3, <4>1
        <5> QED BY <1>3, <5>1, <5>2
      <4>11. ts = t
        BY <4>7, <4>8, <4>10
      <4> QED BY <3>1, <4>2, <4>3, <4>4, <4>9, <4>11
    <3>2. CASE section # 6
      BY <1>1, <1>2, <1>3, <2>2, <2>3, <3>2 DEF Quantifiers
    <3> QED BY <3>1, <3>2
  <2>5. /\ DOMAIN s = Fields /\ (Good(s) => Good(sim))
        /\ Binds(sim, closed, qs) => /\ Binds(s, cs, ts)
                                     /\ s.parameters = sim.parameters /\ s.variables = sim.variables
    BY <1>1, <2>2, <2>3, <2>4, QuantifierClosed
  <2>6. DOMAIN r = Fields
    BY <1>1, <1>5, <2>1, <2>2, <2>5
  <2>7. ASSUME Good(r)
        PROVE  /\ Binds(r, cs, ts)
               /\ section = 6 /\ ss # <<>> => Spells(r.variables, r.parameters, ss[1])
    <3>1. CASE sim.end = ""
      <4>1. r = s /\ Good(s) /\ Good(sim)
        BY <1>5, <2>1, <2>2, <2>5, <2>7, <3>1
      <4>2. Binds(sim, closed, qs)
        BY <1>1, <2>2, <4>1
      <4>3. section = 6 => Spells(sim.variables, sim.parameters, scopes[1])
        BY <1>1, <1>3, <4>1
      <4> QED BY <2>4, <2>5, <4>1, <4>2, <4>3
    <3>2. CASE sim.end # ""
      BY <1>5, <2>1, <2>7, <3>2 DEF Good
    <3> QED BY <3>1, <3>2
  <2>8. cs \in Seq(Variables)
    BY <1>1, <1>3, <2>2
  <2> QED BY <1>1, <1>3, <1>4, <1>5, <2>1, <2>2, <2>4, <2>6, <2>7, <2>8, BindersAfter
<1> QED BY <1>6, <1>7

LEMMA BindersStep == BindersInv /\ [Next]_vars => BindersInv'
<1> SUFFICES ASSUME BindersInv, [Next]_vars PROVE BindersInv'
  OBVIOUS
<1>1. CASE \/ ReadRequirement \/ ReadType \/ ReadName \/ ReadPredicate \/ ReadFunction
           \/ ReadAtom \/ ReadEqual \/ ReadChange \/ ReadUpdate \/ ReadValue \/ ReadOutcomes
  BY <1>1, BindersStepRead
<1>2. CASE NextSection \/ BeginProblem \/ EndProblem
  BY <1>2, BindersStepSection
<1>3. CASE OpenAction \/ OpenQuantifier
  BY <1>3, BindersStepOpen
<1>4. CASE Close
  BY <1>4, BindersStepClose
<1>5. CASE UNCHANGED vars
  BY <1>5 DEF vars, BindersInv, Quantifiers
<1> QED BY <1>1, <1>2, <1>3, <1>4, <1>5 DEF Next

\* Every quantifier that has been closed got the variables declared for it, and so did the
\* action: whatever stands in between, and however deep the quantifiers are nested.
THEOREM BindersAreExact == Spec => []BindersExact
<1>1. BindersInv => BindersExact
  <2> SUFFICES ASSUME BindersInv, Good(sim) PROVE
        /\ [i \in DOMAIN sim.lists |-> Named(sim, sim.lists[i])] = [i \in DOMAIN closed |-> Bound(closed[i])]
        /\ In({"actions"}) /\ scopes # <<>> => Named(sim, sim.parameters) = Bound(scopes[1])
    BY DEF BindersExact, Good
  <2>1. /\ section \in 1..12 /\ scopes \in Seq(Variables) /\ closed \in Seq(Variables)
        /\ Binds(sim, closed, Quantifiers)
        /\ section = 6 /\ scopes # <<>> => Spells(sim.variables, sim.parameters, scopes[1])
    BY DEF BindersInv
  <2>2. ASSUME NEW list \in Indices, NEW xs \in Variables, Spells(sim.variables, list, xs)
        PROVE  Named(sim, list) = Bound(xs)
    <3>1. DOMAIN list = 1..Len(list) /\ DOMAIN xs = 1..Len(xs) /\ Len(list) = Len(xs)
      BY <2>2 DEF Indices, Variables, Spells
    <3>2. \A i \in 1..Len(xs) : sim.variables[list[i]][1] = xs[i][1]
      BY <2>2 DEF Spells
    <3> QED BY <3>1, <3>2 DEF Named, Bound
  <2>3. DOMAIN sim.lists = 1..Len(closed) /\ DOMAIN closed = 1..Len(closed)
    BY <2>1 DEF Binds
  <2>4. ASSUME NEW i \in 1..Len(closed) PROVE Named(sim, sim.lists[i]) = Bound(closed[i])
    <3>1. sim.lists[i] \in Indices /\ closed[i] \in Variables
      BY <2>1, <2>3 DEF Binds
    <3>2. Spells(sim.variables, sim.lists[i], closed[i])
      BY <2>1 DEF Binds
    <3> QED BY <2>2, <3>1, <3>2
  <2>5. In({"actions"}) /\ scopes # <<>> => Named(sim, sim.parameters) = Bound(scopes[1])
    <3>1. SUFFICES ASSUME In({"actions"}), scopes # <<>> PROVE Named(sim, sim.parameters) = Bound(scopes[1])
      OBVIOUS
    <3>2. section = 6 /\ scopes[1] \in Variables /\ sim.parameters \in Indices
      <4>1. section = 6
        BY <2>1, <3>1, SectionsAre
      <4>2. scopes[1] \in Variables
        BY <2>1, <3>1
      <4>3. sim.parameters \in Indices
        BY <2>1 DEF Binds
      <4> QED BY <4>1, <4>2, <4>3
    <3> QED BY <2>1, <2>2, <3>1, <3>2
  <2> QED BY <2>3, <2>4, <2>5
<1> QED BY <1>1, InitBinders, BindersStep, PTL DEF Spec
-----------------------------------------------------------------------------
(* The metric: what an effect has changed never becomes static again.       *)

\* What opens and closes a quantifier or an action.
LEMMA QuietlyOpened ==
  ASSUME NEW r, DOMAIN r = Fields, NEW requirement, requirement # "rewards", NEW a, NEW S, NEW xs \in Seq(S)
  PROVE  /\ Quiet(r, Sim!AddVariables(Sim!Prepare(r, requirement), xs))
         /\ Quiet(r, Sim!AddVariables(Sim!MakeAction(r, a), xs))
         /\ Quiet(r, Sim!MakeQuantified(r))
<1>1. ASSUME NEW q, DOMAIN q = Fields, NEW F
      PROVE  LET s == [q EXCEPT !.frames = F] IN DOMAIN s = Fields /\ Quiet(q, s)
  <2>1. PICK s : s = [q EXCEPT !.frames = F]
    OBVIOUS
  <2>2. DOMAIN s = Fields /\ Alike(q, s)
    BY <1>1, <2>1, FieldsAre DEF Alike
  <2> QED BY <2>1, <2>2, AlikeIsQuiet
<1>2. Quiet(r, Sim!AddVariables(Sim!Prepare(r, requirement), xs))
  <2>1. PICK q, s, u : /\ q = Sim!Assume(r, requirement) /\ s = [q EXCEPT !.quantified = Append(@, Sim!MARK)]
                       /\ u = Sim!Prepare(r, requirement)
    OBVIOUS
  <2>2. DOMAIN q = Fields /\ Quiet(r, q)
    BY <2>1, KeptAssumed DEF Calm, Kept
  <2>3. DOMAIN s = Fields /\ Alike(q, s)
    BY <2>1, <2>2, FieldsAre DEF Alike
  <2>4. u = [s EXCEPT !.frames = Append(s.frames, Sim!None)]
    BY <2>1, <2>3, FieldsAre DEF Sim!Prepare, Sim!PushFrame
  <2>5. DOMAIN u = Fields /\ Quiet(s, u)
    BY <1>1, <2>3, <2>4
  <2>6. Quiet(u, Sim!AddVariables(u, xs))
    BY <2>5, AddedAny
  <2> QED BY <2>1, <2>2, <2>3, <2>5, <2>6, AlikeIsQuiet, QuietTwice
<1>3. Quiet(r, Sim!AddVariables(Sim!MakeAction(r, a), xs))
  <2>1. PICK q, s : q = Sim!PushFrame(r) /\ s = Sim!MakeAction(r, a)
    OBVIOUS
  <2>2. DOMAIN q = Fields /\ Quiet(r, q)
    BY <1>1, <2>1 DEF Sim!PushFrame
  <2>3. s = [q EXCEPT !.name = a, !.parameters = <<>>]
    BY <2>1 DEF Sim!MakeAction
  <2>4. DOMAIN s = Fields /\ Alike(q, s)
    BY <2>2, <2>3, FieldsAre DEF Alike
  <2>5. Quiet(s, Sim!AddVariables(s, xs))
    BY <2>4, AddedAny
  <2> QED BY <2>1, <2>2, <2>4, <2>5, AlikeIsQuiet, QuietTwice
<1>4. Quiet(r, Sim!MakeQuantified(r))
  <2>1. PICK q, s : q = Sim!PopFrame(r) /\ s = Sim!MakeQuantified(r)
    OBVIOUS
  <2>2. DOMAIN q = Fields /\ Quiet(r, q)
    BY <1>1, <2>1 DEF Sim!PopFrame
  <2>3. PICK l, m : s = [q EXCEPT !.lists = l, !.quantified = m]
    BY <2>1 DEF Sim!MakeQuantified
  <2>4. DOMAIN s = Fields /\ Alike(q, s)
    BY <2>2, <2>3, FieldsAre DEF Alike
  <2> QED BY <2>1, <2>2, <2>4, AlikeIsQuiet, QuietTwice
<1> QED BY <1>2, <1>3, <1>4

LEMMA NoTerms == ASSUME NEW r PROVE Sim!AddTerms(r, <<>>) = r
<1>1. ASSUME NEW S, NEW xs \in Seq(S), Len(xs) = 0 PROVE Sim!AddTerms(r, xs) = r
  <2>1. PICK f : f[0] = r /\ f[Len(xs)] = Sim!AddTerms(r, xs)
    BY TermByTerm
  <2> QED BY <1>1, <2>1
<1>2. <<>> \in Seq({}) /\ Len(<<>>) = 0
  OBVIOUS
<1> QED BY <1>1, <1>2

\* An effect enters its function, and makes it dynamic after everything else.
LEMMA UpdatedIsDynamic ==
  ASSUME NEW r, DOMAIN r = Fields, NEW op, NEW f, NEW constant \in BOOLEAN,
         NEW s, s = Sim!ReadUpdate(r, op, f, <<>>, constant)
  PROVE  f \in DOMAIN s.functions /\ <<"functions", f>> \notin s.static
<1>1. PICK q : q = IF f \notin DOMAIN r.functions THEN Sim!AddFunction(r, f) ELSE r
  OBVIOUS
<1>2. DOMAIN q = Fields /\ f \in DOMAIN q.functions
  <2>1. CASE f \in DOMAIN r.functions
    BY <1>1, <2>1
  <2>2. CASE f \notin DOMAIN r.functions
    BY <1>1, <2>2, FieldsAre DEF Sim!AddFunction, Sim!WithEntry
  <2> QED BY <2>1, <2>2
<1>3. PICK u : u = CASE "rewards" \in r.requirements /\ f = "reward" -> Sim!Check(q, "effect" # "formula")
                     [] f \in {"total-time", "goal-achieved"}        -> Sim!Check(q, "effect" = "metric")
                     [] OTHER                                        -> Sim!Assume(q, "fluents")
  OBVIOUS
<1>4. u \in {Sim!Check(q, "effect" # "formula"), Sim!Check(q, "effect" = "metric"), Sim!Assume(q, "fluents")}
  BY <1>3
<1>5. Calm(q, u)
  BY <1>4, CalmFailed, KeptAssumed
<1>6. DOMAIN u = Fields /\ f \in DOMAIN u.functions
  BY <1>2, <1>5 DEF Calm, Kept, Quiet
<1>7. PICK p : p = Sim!PrepareFluent(r, f, "effect")
  OBVIOUS
<1>8. \E h : p = [u EXCEPT !.head = h, !.terms = <<>>]
  BY <1>1, <1>3, <1>7 DEF Sim!PrepareFluent
<1>9. DOMAIN p = Fields /\ f \in DOMAIN p.functions
  BY <1>6, <1>8, FieldsAre
<1>10. Sim!AddTerms(p, <<>>) = p
  BY NoTerms
<1>11. PICK w, x : w = Sim!ReadFluent(r, f, <<>>, "effect") /\ x = Sim!MakeUpdate(w, op, f, constant)
  OBVIOUS
<1>12. w = Sim!MakeAtom(p)
  BY <1>7, <1>10, <1>11 DEF Sim!ReadFluent
<1>13. DOMAIN w = Fields /\ f \in DOMAIN w.functions
  BY <1>9, <1>12, CalmMade DEF Calm, Kept, Quiet
<1>14. Calm(w, x)
  <2>1. PICK c \in BOOLEAN : c = (op \in {"increase", "decrease"} /\ constant)
    OBVIOUS
  <2>2. x \in {Sim!Check(w, c), Sim!Assume(w, "fluents")}
    BY <1>11, <2>1 DEF Sim!MakeUpdate
  <2> QED BY <2>2, CalmFailed, KeptAssumed
<1>15. DOMAIN x = Fields /\ f \in DOMAIN x.functions
  BY <1>13, <1>14 DEF Calm, Kept, Quiet
<1>16. s = Sim!MakeDynamic(x, "functions", f)
  BY <1>11 DEF Sim!ReadUpdate
<1> QED BY <1>15, <1>16, FieldsAre DEF Sim!MakeDynamic

\* A requirement that is not the reward leaves the functions alone; the reward's makes
\* nothing else static.
LEMMA RequiredIsQuiet ==
  ASSUME NEW r, DOMAIN r = Fields, NEW key, NEW s, s = Sim!RequireKey(r, key)
  PROVE  /\ key \notin {"rewards", "mdp"} => Quiet(r, s)
         /\ s.metric = r.metric /\ DOMAIN r.functions \subseteq DOMAIN s.functions
         /\ s.static \subseteq r.static \cup {<<"functions", "reward">>}
<1>1. CASE key = "adl"
  <2>1. s = [r EXCEPT !.requirements = @ \cup Sim!Adl]
    BY <1>1 DEF Sim!RequireKey
  <2>2. /\ s.metric = r.metric /\ s.end = r.end /\ s.requirements = r.requirements \cup Sim!Adl
        /\ s.functions = r.functions /\ s.static = r.static
    BY <2>1, FieldsAre
  <2>3. "rewards" \notin Sim!Adl
    BY DEF Sim!Adl
  <2> QED BY <2>2, <2>3 DEF Quiet
<1>2. ASSUME NEW q, DOMAIN q = Fields, q.metric = r.metric, q.functions = r.functions, q.static = r.static,
             s = Sim!AddFunction(q, "reward")
      PROVE  /\ s.metric = r.metric /\ DOMAIN r.functions \subseteq DOMAIN s.functions
             /\ s.static \subseteq r.static \cup {<<"functions", "reward">>}
  BY <1>2, FieldsAre DEF Sim!AddFunction, Sim!WithEntry
<1>3. CASE key = "mdp"
  <2>1. PICK q : q = [r EXCEPT !.requirements = @ \cup {"probabilistic-effects", "rewards"}]
    OBVIOUS
  <2>2. DOMAIN q = Fields /\ q.metric = r.metric /\ q.functions = r.functions /\ q.static = r.static
    BY <2>1, FieldsAre
  <2>3. s = Sim!AddFunction(q, "reward")
    BY <1>3, <2>1 DEF Sim!RequireKey
  <2> QED BY <1>2, <1>3, <2>2, <2>3
<1>4. CASE key = "rewards"
  <2>1. PICK q : q = Sim!Assume(r, "rewards")
    OBVIOUS
  <2>2. DOMAIN q = Fields /\ q.metric = r.metric /\ q.functions = r.functions /\ q.static = r.static
    BY <2>1, FieldsAre DEF Sim!Assume
  <2>3. s = Sim!AddFunction(q, "reward")
    BY <1>4, <2>1 DEF Sim!RequireKey
  <2> QED BY <1>2, <1>4, <2>2, <2>3
<1>5. CASE key \notin {"adl", "mdp", "rewards"}
  <2>1. s = Sim!Assume(r, key)
    BY <1>5 DEF Sim!RequireKey
  <2>2. Quiet(r, s)
    BY <1>5, <2>1, KeptAssumed DEF Calm
  <2>3. s.static = r.static
    BY <2>1, FieldsAre DEF Sim!Assume
  <2> QED BY <2>2, <2>3 DEF Quiet
<1> QED BY <1>1, <1>3, <1>4, <1>5

REWARD == <<"functions", "reward">>

\* The two functions that are the metric without a reward are in the table from the start.
Reserved(r) ==
  \A f \in {"total-time", "goal-achieved"} : f \in DOMAIN r.functions /\ <<"functions", f>> \notin r.static

\* A reward that is required and changed is not static, unless it has been required again.
RewardDynamic(r, C) ==
  r.end = "" /\ "rewards" \in r.requirements /\ REWARD \in C =>
    "reward" \in DOMAIN r.functions /\ REWARD \notin r.static
Again == again

Unmeasured(r) == r.metric = ""
Nameless(C)   == <<"functions", "">> \in C

MetricInv ==
  /\ BindersInv
  /\ section <= 5 => changed = {}
  /\ section <= 11 => Unmeasured(sim) /\ Reserved(sim) /\ (Again \/ RewardDynamic(sim, changed))
  /\ ~Nameless(changed)
  /\ section = 12 => MetricDynamic

LEMMA InitMetric == ASSUME Init PROVE MetricInv
<1>1. BindersInv
  BY InitBinders
<1>2. section = 1 /\ changed = {} /\ sim = Sim!Start
  BY DEF Init
<1>3. /\ Unmeasured(sim) /\ DOMAIN sim.functions = {"total-time", "goal-achieved"}
      /\ sim.static = {}
  BY <1>2 DEF Sim!Start, Unmeasured
<1>4. ~Nameless(changed)
  BY <1>2 DEF Nameless
<1>5. Reserved(sim) /\ RewardDynamic(sim, changed)
  BY <1>2, <1>3 DEF Reserved, RewardDynamic
<1> QED BY <1>1, <1>2, <1>3, <1>4, <1>5 DEF MetricInv

LEMMA ReservedStays == ASSUME NEW r, NEW s, Quiet(r, s), Reserved(r) PROVE Reserved(s)
BY DEF Quiet, Reserved

LEMMA RewardStays ==
  ASSUME NEW r, NEW s, Quiet(r, s), NEW C, NEW D, REWARD \in D => REWARD \in C, RewardDynamic(r, C)
  PROVE  RewardDynamic(s, D)
BY DEF Quiet, RewardDynamic, REWARD

\* What a step before the end has to show.
LEMMA MetricAfter ==
  ASSUME BindersInv', section' \in 1..11, NEW s, sim' = s, Unmeasured(s), Reserved(s),
         NEW C, changed' = C, Again' \/ RewardDynamic(s, C),
         section' <= 5 => C = {}, ~Nameless(C)
  PROVE  MetricInv'
<1>1. section' # 12
  OBVIOUS
<1> QED BY <1>1 DEF MetricInv

\* A quiet step that changes no function.
LEMMA MetricQuiet ==
  ASSUME MetricInv, BindersInv', section \in 1..11, section' \in 1..11, section <= section',
         NEW s, sim' = s, Quiet(sim, s), Again' <=> Again,
         NEW C, changed' = C, \A f : <<"functions", f>> \in C => <<"functions", f>> \in changed,
         section' <= 5 => C = changed
  PROVE  MetricInv'
<1>1. /\ Unmeasured(sim) /\ Reserved(sim) /\ (Again \/ RewardDynamic(sim, changed))
      /\ ~Nameless(changed)
  BY DEF MetricInv
<1>2. Unmeasured(s) /\ Reserved(s) /\ (Again' \/ RewardDynamic(s, C))
  <2>1. s.metric = sim.metric
    BY DEF Quiet
  <2>2. REWARD \in C => REWARD \in changed
    BY DEF REWARD
  <2> QED BY <1>1, <2>1, <2>2, ReservedStays, RewardStays DEF Unmeasured
<1>3. section' <= 5 => C = {}
  <2>1. section' <= 5 => section <= 5
    OBVIOUS
  <2> QED BY <2>1 DEF MetricInv
<1>4. ~Nameless(C)
  BY <1>1 DEF Nameless
<1> QED BY <1>2, <1>3, <1>4, MetricAfter

LEMMA NothingAfter == ASSUME BindersInv, section = 12 PROVE ~Next
<1>1. scopes = <<>> /\ section \in 1..12
  BY DEF BindersInv
<1>2. /\ ~In({"requirements", "more requirements"}) /\ ~In({"types"}) /\ ~In({"constants", "objects"})
      /\ ~In({"predicates"}) /\ ~In({"functions"}) /\ ~In({"actions"}) /\ ~In({"init"}) /\ ~In({"goal"})
      /\ ~In({"metric"}) /\ In({"actions", "metric", "end"})
  <2>1. section \notin {1, 7} /\ section # 2 /\ section \notin {3, 8} /\ section # 4 /\ section # 5
        /\ section # 6 /\ section # 9 /\ section # 10 /\ section # 11 /\ section \in {6, 11, 12}
    OBVIOUS
  <2> QED BY <1>1, <2>1, SectionsAre
<1>3. ~InFormula
  BY <1>2 DEF InFormula
<1>4. ~ReadRequirement /\ ~ReadType /\ ~ReadName /\ ~ReadPredicate /\ ~ReadFunction
  BY <1>2 DEF ReadRequirement, ReadType, ReadName, ReadPredicate, ReadFunction
<1>5. ~OpenAction /\ ~OpenQuantifier /\ ~Close /\ ~ReadAtom /\ ~ReadEqual
  BY <1>1, <1>2, <1>3 DEF OpenAction, OpenQuantifier, Close, ReadAtom, ReadEqual
<1>6. ~ReadChange /\ ~ReadUpdate /\ ~ReadValue /\ ~ReadOutcomes
  BY <1>2 DEF ReadChange, ReadUpdate, ReadValue, ReadOutcomes
<1>7. ~NextSection /\ ~BeginProblem /\ ~EndProblem
  BY <1>2 DEF NextSection, BeginProblem, EndProblem
<1> QED BY <1>4, <1>5, <1>6, <1>7 DEF Next

LEMMA MetricStepRequire == ASSUME MetricInv, BindersInv', ReadRequirement PROVE MetricInv'
<1>1. DOMAIN sim = Fields /\ section \in 1..12 /\ In({"requirements", "more requirements"})
  BY DEF MetricInv, BindersInv, ReadRequirement
<1>2. section \in {1, 7}
  BY <1>1, SectionsAre
<1>3. PICK key : /\ Entry(Sim!RequireKey(sim, key), Plan!RequireKey(plan, key))
                 /\ again' = (again \/ (In({"more requirements"}) /\ key \in {"rewards", "mdp"}))
  BY DEF ReadRequirement
<1>4. PICK s, r : s = Sim!RequireKey(sim, key) /\ r = sim'
  OBVIOUS
<1>5. section' = section /\ changed' = changed /\ r \in {s, sim}
  BY <1>3, <1>4 DEF Entry, ReadRequirement
<1>6. /\ key \notin {"rewards", "mdp"} => Quiet(sim, s)
      /\ s.metric = sim.metric /\ DOMAIN sim.functions \subseteq DOMAIN s.functions
      /\ s.static \subseteq sim.static \cup {<<"functions", "reward">>}
  BY <1>1, <1>4, RequiredIsQuiet
<1>7. /\ Unmeasured(sim) /\ Reserved(sim) /\ (Again \/ RewardDynamic(sim, changed))
      /\ ~Nameless(changed) /\ (section = 1 => changed = {})
  BY <1>2 DEF MetricInv
<1>8. Unmeasured(r) /\ Reserved(r)
  <2>1. r.metric = sim.metric
    BY <1>5, <1>6
  <2>2. Unmeasured(r)
    BY <1>7, <2>1 DEF Unmeasured
  <2>3. CASE r = s
    <3>1. ASSUME NEW f \in {"total-time", "goal-achieved"}
          PROVE  f \in DOMAIN s.functions /\ <<"functions", f>> \notin s.static
      <4>1. <<"functions", f>> # <<"functions", "reward">>
        OBVIOUS
      <4> QED BY <1>6, <1>7, <4>1 DEF Reserved
    <3> QED BY <2>2, <2>3, <3>1 DEF Reserved
  <2> QED BY <1>5, <1>7, <2>2, <2>3
<1>9. Again' <=> Again \/ (In({"more requirements"}) /\ key \in {"rewards", "mdp"})
  BY <1>3 DEF Again
<1>10. Again' \/ RewardDynamic(r, changed)
  <2>1. CASE section = 1
    BY <1>7, <2>1 DEF RewardDynamic
  <2>2. CASE section = 7 /\ key \in {"rewards", "mdp"}
    <3>1. In({"more requirements"})
      BY <2>2 DEF In, Sections
    <3> QED BY <1>9, <2>2, <3>1
  <2>3. CASE key \notin {"rewards", "mdp"}
    <3>1. Quiet(sim, r)
      BY <1>5, <1>6, <2>3, AlikeIsQuiet DEF Alike
    <3>2. RewardDynamic(sim, changed) => RewardDynamic(r, changed)
      BY <3>1, RewardStays
    <3> QED BY <1>7, <1>9, <3>2
  <2> QED BY <1>2, <2>1, <2>2, <2>3
<1>11. section' \in 1..11 /\ (section' <= 5 => changed = {})
  BY <1>2, <1>5, <1>7
<1> QED BY <1>4, <1>5, <1>7, <1>8, <1>10, <1>11, MetricAfter

LEMMA QuietEntry ==
  ASSUME NEW s, NEW p, Entry(s, p), Quiet(sim, s)
  PROVE  Quiet(sim, sim') /\ section' = section /\ (Again' <=> Again)
<1>1. PICK r : r = sim'
  OBVIOUS
<1>2. r \in {s, sim} /\ section' = section /\ (Again' <=> Again)
  BY <1>1 DEF Entry, Again
<1>3. Quiet(sim, r)
  BY <1>2, AlikeIsQuiet DEF Alike
<1> QED BY <1>1, <1>2, <1>3

LEMMA MetricStepRead ==
  ASSUME MetricInv, BindersInv',
         \/ ReadType \/ ReadName \/ ReadPredicate \/ ReadFunction
         \/ ReadAtom \/ ReadEqual \/ ReadChange \/ ReadUpdate \/ ReadValue \/ ReadOutcomes
  PROVE  MetricInv'
<1>1. DOMAIN sim = Fields /\ section \in 1..12 /\ text \in Texts /\ BindersInv
  BY DEF MetricInv, BindersInv
<1>2. section # 12
  BY <1>1, NothingAfter DEF Next
<1>3. PICK s, p : Entry(s, p) /\ Calm(sim, s)
  BY <1>1, ReadingIsCalm
<1>4. PICK r : r = sim'
  OBVIOUS
<1>5. Quiet(sim, r) /\ section' = section /\ (Again' <=> Again)
  BY <1>1, <1>3, <1>4, QuietEntry DEF Calm
<1>6. section \in 1..11 /\ section' \in 1..11 /\ section <= section'
  BY <1>1, <1>2, <1>5
<1>7. PICK C : C = changed'
  OBVIOUS
<1>8. CASE \/ ReadType \/ ReadName \/ ReadPredicate \/ ReadFunction
           \/ ReadAtom \/ ReadEqual \/ ReadValue \/ ReadOutcomes
  <2>1. changed' = changed
    BY <1>8 DEF ReadType, ReadName, ReadPredicate, ReadFunction, ReadAtom, ReadEqual, ReadValue, ReadOutcomes
  <2> QED BY <1>4, <1>5, <1>6, <1>7, <2>1, MetricQuiet
<1>9. CASE ReadChange
  <2>1. section = 6
    BY <1>1, <1>9, SectionsAre DEF ReadChange
  <2>2. PICK x : C = changed \cup {<<"predicates", x>>}
    BY <1>7, <1>9 DEF ReadChange
  <2>3. \A f : <<"functions", f>> \in C => <<"functions", f>> \in changed
    <3>1. \A f : <<"functions", f>> # <<"predicates", x>>
      OBVIOUS
    <3> QED BY <2>2, <3>1
  <2>4. ~(section' <= 5)
    BY <1>5, <2>1
  <2> QED BY <1>4, <1>5, <1>6, <1>7, <2>3, <2>4, MetricQuiet
<1>10. CASE ReadUpdate
  <2>1. section = 6
    BY <1>1, <1>10, SectionsAre DEF ReadUpdate
  <2>2. PICK f \in text.fluents, op \in {"assign", "increase"}, constant \in BOOLEAN :
          /\ Entry(Sim!ReadUpdate(sim, op, f, <<>>, constant), Plan!ReadUpdate(plan, op, f, <<>>, constant))
          /\ changed' = changed \cup {<<"functions", f>>}
    BY <1>10 DEF ReadUpdate
  <2>3. PICK u : u = Sim!ReadUpdate(sim, op, f, <<>>, constant)
    OBVIOUS
  <2>4. f \in DOMAIN u.functions /\ <<"functions", f>> \notin u.static
    BY <1>1, <2>3, UpdatedIsDynamic
  <2>5. Unmeasured(sim) /\ Reserved(sim) /\ (Again \/ RewardDynamic(sim, changed)) /\ ~Nameless(changed)
    BY <1>6 DEF MetricInv
  <2>6. Unmeasured(r) /\ Reserved(r)
    <3>1. r.metric = sim.metric
      BY <1>5 DEF Quiet
    <3> QED BY <1>5, <2>5, <3>1, ReservedStays DEF Unmeasured
  <2>7. sim' = IF Reading(sim) THEN u ELSE sim
    BY <2>2, <2>3 DEF Entry, Reading
  <2>8. RewardDynamic(sim, changed) => RewardDynamic(r, C)
    <3>1. CASE f # "reward"
      <4>1. REWARD \in C => REWARD \in changed
        <5>1. REWARD # <<"functions", f>>
          BY <3>1 DEF REWARD
        <5> QED BY <1>7, <2>2, <5>1
      <4> QED BY <1>5, <4>1, RewardStays
    <3>2. CASE f = "reward" /\ Reading(sim)
      <4>1. r = u /\ REWARD \notin u.static /\ "reward" \in DOMAIN u.functions
        BY <1>4, <2>4, <2>7, <3>2 DEF REWARD
      <4> QED BY <4>1 DEF RewardDynamic
    <3>3. CASE ~Reading(sim)
      <4>1. r = sim
        BY <1>4, <2>7, <3>3
      <4> QED BY <3>3, <4>1 DEF RewardDynamic, Reading
    <3> QED BY <3>1, <3>2, <3>3
  <2>9. ~Nameless(C)
    <3>1. PICK t \in Texts : t = text
      BY <1>1
    <3>2. "" \notin t.fluents
      BY TextsAssumption
    <3>3. <<"functions", f>> # <<"functions", "">>
      BY <2>2, <3>1, <3>2
    <3> QED BY <1>7, <2>2, <2>5, <3>3 DEF Nameless
  <2>10. ~(section' <= 5)
    BY <1>5, <2>1
  <2>11. Again' \/ RewardDynamic(r, C)
    BY <1>5, <2>5, <2>8
  <2> QED BY <1>4, <1>6, <1>7, <2>6, <2>9, <2>10, <2>11, MetricAfter
<1> QED BY <1>8, <1>9, <1>10

LEMMA MetricStepOpen ==
  ASSUME MetricInv, BindersInv', OpenAction \/ OpenQuantifier \/ Close
  PROVE  MetricInv'
<1>1. DOMAIN sim = Fields /\ section \in 1..12 /\ text \in Texts /\ BindersInv
  BY DEF MetricInv, BindersInv
<1>2. section # 12
  BY <1>1, NothingAfter DEF Next
<1>3. PICK t \in Texts : t = text
  BY <1>1
<1>4. t.binders \subseteq Variables /\ \A requirement \in t.quantifiers : requirement # "rewards"
  <2>1. /\ t.binders \subseteq Seq(VariableNames \X SUBSET STRING)
        /\ t.quantifiers \subseteq {"conditional-effects", "existential-preconditions", "universal-preconditions"}
    BY TextsAssumption
  <2> QED BY <2>1 DEF Variables
<1>5. PICK r : r = sim'
  OBVIOUS
<1>6. Quiet(sim, r) /\ section' = section /\ (Again' <=> Again) /\ changed' = changed
  <2>1. CASE OpenAction
    <3>1. PICK a \in text.actions, xs \in text.binders :
            Entry(Sim!AddVariables(Sim!MakeAction(sim, a), xs), Plan!AddVariables(Plan!MakeAction(plan, a), xs))
      BY <2>1 DEF OpenAction
    <3>2. xs \in Seq(VariableNames \X SUBSET STRING) /\ "equality" # "rewards"
      BY <1>3, <1>4, <3>1 DEF Variables
    <3>3. Quiet(sim, Sim!AddVariables(Sim!MakeAction(sim, a), xs))
      BY <1>1, <3>2, QuietlyOpened
    <3>4. changed' = changed
      BY <2>1 DEF OpenAction
    <3> QED BY <1>5, <3>1, <3>3, <3>4, QuietEntry
  <2>2. CASE OpenQuantifier
    <3>1. PICK requirement \in text.quantifiers, xs \in text.binders :
            Entry(Sim!AddVariables(Sim!Prepare(sim, requirement), xs),
                  Plan!AddVariables(Plan!Prepare(plan, requirement), xs))
      BY <2>2 DEF OpenQuantifier
    <3>2. xs \in Seq(VariableNames \X SUBSET STRING) /\ requirement # "rewards"
      BY <1>3, <1>4, <3>1 DEF Variables
    <3>3. Quiet(sim, Sim!AddVariables(Sim!Prepare(sim, requirement), xs))
      BY <1>1, <3>2, QuietlyOpened
    <3>4. changed' = changed
      BY <2>2 DEF OpenQuantifier
    <3> QED BY <1>5, <3>1, <3>3, <3>4, QuietEntry
  <2>3. CASE Close
    <3>1. Quiet(sim, Sim!AddAction(sim))
      BY <1>1, ActionClosed DEF Calm
    <3>2. Quiet(sim, Sim!MakeQuantified(sim))
      <4>1. <<>> \in Seq({}) /\ "equality" # "rewards"
        OBVIOUS
      <4> QED BY <1>1, <4>1, QuietlyOpened
    <3>3. r \in {sim, Sim!AddAction(sim), Sim!MakeQuantified(sim)}
      BY <1>5, <2>3 DEF Close
    <3>4. section' = section /\ changed' = changed /\ (Again' <=> Again)
      BY <2>3 DEF Close, Again
    <3>5. Quiet(sim, sim)
      BY AlikeIsQuiet DEF Alike
    <3> QED BY <3>1, <3>2, <3>3, <3>4, <3>5
  <2> QED BY <2>1, <2>2, <2>3
<1>7. section \in 1..11 /\ section' \in 1..11 /\ section <= section'
  BY <1>1, <1>2, <1>6
<1> QED BY <1>5, <1>6, <1>7, MetricQuiet

LEMMA MetricStepSection ==
  ASSUME MetricInv, BindersInv', NextSection \/ BeginProblem \/ EndProblem
  PROVE  MetricInv'
<1>1. DOMAIN sim = Fields /\ section \in 1..12 /\ BindersInv
  BY DEF MetricInv, BindersInv
<1>2. PICK r : r = sim'
  OBVIOUS
<1>3. CASE NextSection
  <2>1. section' = section + 1 /\ sim' = sim /\ changed' = changed /\ section \notin {6, 11, 12}
    BY <1>1, <1>3, SectionsAre DEF NextSection
  <2>2. section \in 1..11 /\ section' \in 1..11 /\ section <= section'
    BY <1>1, <2>1
  <2>3. Quiet(sim, r)
    BY <1>2, <2>1, AlikeIsQuiet DEF Alike
  <2>4. Again' <=> Again
    BY <1>3 DEF NextSection, Again
  <2> QED BY <1>2, <2>1, <2>2, <2>3, <2>4, MetricQuiet
<1>4. CASE BeginProblem
  <2>1. section = 6 /\ section' = section + 1 /\ changed' = changed
    BY <1>1, <1>4, SectionsAre DEF BeginProblem
  <2>2. Again' <=> Again
    BY <1>4 DEF BeginProblem, Again
  <2>3. PICK known : sim' = IF sim.end = "" THEN Sim!MakeProblem(sim, known) ELSE sim
    BY <1>4 DEF BeginProblem
  <2>4. section \in 1..11 /\ section' \in 1..11 /\ section <= section' /\ section' # 12 /\ ~(section' <= 5)
    BY <2>1
  <2>5. CASE sim.end # "" \/ known
    <3>1. Quiet(sim, r)
      <4>1. CASE sim.end # ""
        BY <1>2, <2>3, <4>1, AlikeIsQuiet DEF Alike
      <4>2. CASE sim.end = "" /\ known
        <5>1. r = Sim!MakeProblem(sim, TRUE)
          BY <1>2, <2>3, <4>2 DEF Sim!MakeProblem
        <5> QED BY <1>1, <5>1, CalmRest DEF Calm
      <4> QED BY <2>5, <4>1, <4>2
    <3> QED BY <1>2, <2>1, <2>2, <2>4, <3>1, MetricQuiet
  <2>6. CASE sim.end = "" /\ ~known
    <3>1. PICK q, u : /\ q = Sim!Fail(Sim!Start)
                      /\ u = [q EXCEPT !.frames = sim.frames, !.quantified = sim.quantified]
      OBVIOUS
    <3>2. /\ DOMAIN q = Fields /\ Unmeasured(q) /\ q.requirements = {} /\ q.static = {}
          /\ DOMAIN q.functions = {"total-time", "goal-achieved"}
      <4>1. PICK v : v = Sim!Start
        OBVIOUS
      <4>2. /\ DOMAIN v = Fields /\ Unmeasured(v) /\ v.requirements = {} /\ v.static = {}
            /\ DOMAIN v.functions = {"total-time", "goal-achieved"}
        BY <4>1 DEF Sim!Start, Fields, Unmeasured
      <4>3. q = [v EXCEPT !.success = FALSE]
        BY <3>1, <4>1 DEF Sim!Fail
      <4>4. /\ DOMAIN q = Fields /\ q.metric = v.metric /\ q.requirements = v.requirements
            /\ q.static = v.static /\ q.functions = v.functions
        BY <4>2, <4>3, FieldsAre
      <4> QED BY <4>2, <4>4 DEF Unmeasured
    <3>3. r = [u EXCEPT !.problem = TRUE, !.objects = Sim!None, !.values = {}]
      BY <1>2, <2>3, <2>6, <3>1 DEF Sim!MakeProblem
    <3>4. DOMAIN u = Fields /\ Alike(q, u)
      BY <3>1, <3>2, FieldsAre DEF Alike
    <3>5. Alike(u, r)
      BY <3>3, <3>4, FieldsAre DEF Alike
    <3>6. Unmeasured(r) /\ Reserved(r) /\ RewardDynamic(r, changed)
      BY <3>2, <3>4, <3>5 DEF Alike, Unmeasured, Reserved, RewardDynamic
    <3>7. ~Nameless(changed)
      BY DEF MetricInv
    <3> QED BY <1>2, <2>1, <2>4, <3>6, <3>7, MetricAfter
  <2> QED BY <2>5, <2>6
<1>5. CASE EndProblem
  <2>1. section = 11 /\ section' = section + 1 /\ again' = again
    BY <1>1, <1>5, SectionsAre DEF EndProblem
  <2>2. PICK goalReward \in text.goalRewards :
          /\ sim' = IF sim.end = "" THEN Sim!Instantiate(IF goalReward THEN Sim!SetGoalReward(sim) ELSE sim) ELSE sim
          /\ changed' = IF goalReward THEN changed \cup {<<"functions", "reward">>} ELSE changed
    BY <1>5 DEF EndProblem
  <2>3. Unmeasured(sim) /\ Reserved(sim) /\ (Again \/ RewardDynamic(sim, changed)) /\ ~Nameless(changed)
    BY <2>1 DEF MetricInv
  <2>4. PICK C : C = changed'
    OBVIOUS
  <2>5. ~Nameless(C)
    BY <2>2, <2>3, <2>4 DEF Nameless
  <2>6. ASSUME r.end = "thrown", ~Again PROVE <<"functions", r.metric>> \notin C
    <3>1. CASE sim.end # ""
      <4>1. r.metric = ""
        BY <1>2, <2>2, <2>3, <3>1 DEF Unmeasured
      <4> QED BY <2>5, <4>1 DEF Nameless
    <3>2. CASE sim.end = ""
      <4>1. PICK s : s = IF goalReward THEN Sim!SetGoalReward(sim) ELSE sim
        OBVIOUS
      <4>2. Calm(sim, s)
        BY <4>1, CalmRest, CalmSame
      <4>3. DOMAIN s = Fields /\ s.end = "" /\ s.requirements = sim.requirements
        <5>1. CASE goalReward
          BY <1>1, <3>2, <4>1, <5>1, FieldsAre DEF Sim!SetGoalReward, Sim!MakeDynamic, Sim!Fail
        <5>2. CASE ~goalReward
          BY <1>1, <3>2, <4>1, <5>2
        <5> QED BY <5>1, <5>2
      <4>4. Reserved(s)
        BY <1>1, <2>3, <4>2, ReservedStays DEF Calm
      <4>5. PICK m : m = CASE "rewards" \in s.requirements -> "reward"
                           [] "rewards" \notin s.requirements /\ "probabilistic-effects" \in s.requirements -> "goal-achieved"
                           [] OTHER -> "total-time"
        OBVIOUS
      <4>6. r = [s EXCEPT !.metric = m, !.end = IF <<"functions", m>> \in s.static /\ m \notin s.values THEN "thrown" ELSE @]
        BY <1>2, <2>2, <3>2, <4>1, <4>5 DEF Sim!Instantiate
      <4>7. r.metric = m /\ (<<"functions", m>> \notin s.static => r.end = "")
        BY <4>3, <4>6, FieldsAre
      <4>8. <<"functions", m>> \in s.static
        BY <2>6, <4>7
      <4>9. m = "reward" /\ "rewards" \in s.requirements
        BY <4>4, <4>5, <4>8 DEF Reserved
      <4>10. REWARD \notin C
        <5>1. CASE goalReward
          <6>1. s = Sim!MakeDynamic(sim, "functions", "reward")
            BY <4>1, <4>3, <4>9, <5>1 DEF Sim!SetGoalReward
          <6>2. <<"functions", "reward">> \notin s.static
            BY <1>1, <6>1, FieldsAre DEF Sim!MakeDynamic
          <6> QED BY <4>8, <4>9, <6>2
        <5>2. CASE ~goalReward
          <6>1. C = changed /\ s = sim
            BY <2>2, <2>4, <4>1, <5>2
          <6> QED BY <2>3, <2>6, <3>2, <4>8, <4>9, <6>1 DEF RewardDynamic, REWARD
        <5> QED BY <5>1, <5>2
      <4> QED BY <4>7, <4>9, <4>10 DEF REWARD
    <3> QED BY <3>1, <3>2
  <2>7. Again' <=> Again
    BY <2>1 DEF Again
  <2>8. MetricDynamic'
    BY <1>2, <2>4, <2>6, <2>7 DEF MetricDynamic, Again
  <2>9. section' = 12 /\ ~(section' <= 11) /\ ~(section' <= 5)
    BY <2>1
  <2> QED BY <2>4, <2>5, <2>8, <2>9 DEF MetricInv
<1> QED BY <1>3, <1>4, <1>5

LEMMA MetricStep == ASSUME MetricInv, [Next]_vars PROVE MetricInv'
<1>1. BindersInv
  BY DEF MetricInv
<1>2. BindersInv'
  BY <1>1, BindersStep
<1>3. CASE UNCHANGED vars
  <2>1. UNCHANGED <<section, sim, changed, again>>
    BY <1>3 DEF vars
  <2>2. MetricDynamic' <=> MetricDynamic
    BY <2>1 DEF MetricDynamic, In
  <2>3. Again' <=> Again
    BY <2>1 DEF Again
  <2> QED BY <1>2, <2>1, <2>2, <2>3 DEF MetricInv
<1>4. CASE ReadRequirement
  BY <1>2, <1>4, MetricStepRequire
<1>5. CASE OpenAction \/ OpenQuantifier \/ Close
  BY <1>2, <1>5, MetricStepOpen
<1>6. CASE NextSection \/ BeginProblem \/ EndProblem
  BY <1>2, <1>6, MetricStepSection
<1>7. CASE \/ ReadType \/ ReadName \/ ReadPredicate \/ ReadFunction
           \/ ReadAtom \/ ReadEqual \/ ReadChange \/ ReadUpdate \/ ReadValue \/ ReadOutcomes
  BY <1>2, <1>7, MetricStepRead
<1> QED BY <1>3, <1>4, <1>5, <1>6, <1>7 DEF Next

\* mdpsim does not refuse to instantiate a problem whose metric's function an effect or the
\* goal changes, unless the problem requires the reward once more: nothing that stands
\* between an effect and the end of the file makes a function static again.
THEOREM MetricStaysDynamic == Spec => []MetricDynamic
<1>1. ASSUME MetricInv PROVE MetricDynamic
  <2>1. section \in 1..12
    BY <1>1 DEF MetricInv, BindersInv
  <2>2. In({"end"}) => section = 12
    BY <2>1, SectionsAre
  <2> QED BY <1>1, <2>2 DEF MetricInv, MetricDynamic
<1> QED BY <1>1, InitMetric, MetricStep, PTL DEF Spec
-----------------------------------------------------------------------------
(* Types of terms: what both parsers have accepted stays well typed.  Their *)
(* records differ in a few fields only, which have nothing to do with that. *)

LEMMA ListFront ==
  ASSUME NEW q, IsList(q)
  PROVE  IsList(Front(q)) /\ \A i \in 1..Len(Front(q)) : i \in 1..Len(q) /\ Front(q)[i] = q[i]
<1>1. PICK S : q \in Seq(S)
  BY DEF IsList
<1>2. CASE Len(q) = 0
  <2>1. Front(q) = <<>>
    BY <1>1, <1>2 DEF Front
  <2> QED BY <2>1, ListEmpty
<1>3. CASE Len(q) # 0
  <2>1. PICK n \in Nat : n = Len(q) - 1
    BY <1>1, <1>3
  <2>2. \A i \in 1..n : i \in 1..Len(q) /\ q[i] \in S
    BY <1>1, <2>1
  <2>3. /\ SubSeq(q, 1, n) \in Seq(S) /\ Len(SubSeq(q, 1, n)) = IF 1 <= n THEN n - 1 + 1 ELSE 0
        /\ \A i \in 1..(n - 1 + 1) : SubSeq(q, 1, n)[i] = q[1 + i - 1]
    BY <2>1, <2>2, SubSeqProperties
  <2>4. Front(q) = SubSeq(q, 1, n)
    BY <1>1, <2>1 DEF Front
  <2>5. Len(Front(q)) = n /\ \A i \in 1..n : Front(q)[i] = q[i]
    <3>1. n - 1 + 1 = n /\ (IF 1 <= n THEN n - 1 + 1 ELSE 0) = n /\ \A i \in 1..n : 1 + i - 1 = i
      BY <2>1
    <3> QED BY <2>3, <2>4, <3>1
  <2> QED BY <2>2, <2>3, <2>4, <2>5 DEF IsList
<1> QED BY <1>2, <1>3

\* The fields that matter.
Core == {"success", "end", "types", "constants", "objects", "problem", "predicates", "functions",
         "variables", "frames", "head", "terms", "term", "atoms"}
Full(r) == Core \subseteq DOMAIN r

Same(r, s) ==
  /\ s.types = r.types /\ s.constants = r.constants /\ s.objects = r.objects
  /\ s.problem = r.problem /\ s.predicates = r.predicates /\ s.functions = r.functions
  /\ s.variables = r.variables /\ s.atoms = r.atoms
SameHead(r, s) == s.frames = r.frames /\ s.head = r.head /\ s.terms = r.terms /\ s.term = r.term

\* What changes none of them, or fails the file.
Idle(r, s) == Full(r) => Full(s) /\ (Good(s) => Good(r) /\ Same(r, s) /\ SameHead(r, s))

LEMMA IdleSame == ASSUME NEW r PROVE Idle(r, r)
BY DEF Idle, Same, SameHead

LEMMA IdleTwice == ASSUME NEW r, NEW s, NEW u, Idle(r, s), Idle(s, u) PROVE Idle(r, u)
BY DEF Idle, Same, SameHead

LEMMA IdleOne == ASSUME NEW r, NEW f, f \notin Core, NEW v PROVE Idle(r, [r EXCEPT ![f] = v])
BY DEF Idle, Same, SameHead, Good, Full, Core

LEMMA IdleEnded == ASSUME NEW r, NEW e PROVE e # "" => Idle(r, [r EXCEPT !.end = e])
BY DEF Idle, Good, Full, Core

LEMMA IdleFailed ==
  ASSUME NEW r
  PROVE  /\ Idle(r, Sim!Fail(r)) /\ \A c \in BOOLEAN : Idle(r, Sim!Check(r, c))
         /\ Full(r) => Full(Sim!Fail(r)) /\ ~Good(Sim!Fail(r))
<1>1. PICK s : s = Sim!Fail(r)
  OBVIOUS
<1>2. Full(r) => Full(s) /\ ~Good(s)
  BY <1>1 DEF Full, Core, Good, Sim!Fail
<1>3. Idle(r, s)
  BY <1>2 DEF Idle
<1>4. ASSUME NEW c \in BOOLEAN PROVE Idle(r, Sim!Check(r, c))
  BY <1>1, <1>3, IdleSame DEF Sim!Check
<1> QED BY <1>1, <1>2, <1>3, <1>4

\* What both parsers do alike.
LEMMA Shared ==
  /\ \A r, c : Plan!Check(r, c) = Sim!Check(r, c)
  /\ \A r : Plan!Fail(r) = Sim!Fail(r)
  /\ \A r, x : Plan!Assume(r, x) = Sim!Assume(r, x) /\ Plan!AddPredicate(r, x) = Sim!AddPredicate(r, x)
  /\ \A r, x : Plan!PrepareAtom(r, x) = Sim!PrepareAtom(r, x) /\ Plan!MakeAction(r, x) = Sim!MakeAction(r, x)
  /\ \A f, x, v : Plan!WithEntry(f, x, v) = Sim!WithEntry(f, x, v)
  /\ \A r, t, x : Plan!MakeDynamic(r, t, x) = Sim!MakeDynamic(r, t, x)
  /\ \A r, t, x, v : Plan!AddParameter(r, t, x, v) = Sim!AddParameter(r, t, x, v)
  /\ \A r : Plan!ObjectNames(r) = Sim!ObjectNames(r) /\ Plan!Parameters(r) = Sim!Parameters(r)
  /\ \A r : Plan!PushFrame(r) = Sim!PushFrame(r) /\ Plan!PopFrame(r) = Sim!PopFrame(r)
  /\ \A r : Plan!AddAction(r) = Sim!AddAction(r) /\ Plan!MakeAtom(r) = Sim!MakeAtom(r)
  /\ \A r, t : Plan!TypeOf(r, t) = Sim!TypeOf(r, t)
<1>1. \A r, x : Plan!AddPredicate(r, x) = Sim!AddPredicate(r, x)
  BY DEF Plan!AddPredicate, Sim!AddPredicate, Plan!WithEntry, Sim!WithEntry
<1>2. \A f, x, v : Plan!WithEntry(f, x, v) = Sim!WithEntry(f, x, v)
  BY DEF Plan!WithEntry, Sim!WithEntry
<1>3. /\ \A r : Plan!Fail(r) = Sim!Fail(r)
      /\ \A r, c : Plan!Check(r, c) = Sim!Check(r, c)
      /\ \A r : Plan!ObjectNames(r) = Sim!ObjectNames(r) /\ Plan!Parameters(r) = Sim!Parameters(r)
      /\ \A r, t : Plan!TypeOf(r, t) = Sim!TypeOf(r, t)
      /\ \A r, x : Plan!Assume(r, x) = Sim!Assume(r, x)
  BY DEF Plan!Fail, Sim!Fail, Plan!Check, Sim!Check, Plan!Assume, Sim!Assume, Plan!ObjectNames, Sim!ObjectNames,
         Plan!Parameters, Sim!Parameters, Plan!TypeOf, Sim!TypeOf
<1>4. /\ \A r, t, x : Plan!MakeDynamic(r, t, x) = Sim!MakeDynamic(r, t, x)
      /\ \A r, t, x, v : Plan!AddParameter(r, t, x, v) = Sim!AddParameter(r, t, x, v)
      /\ \A r : Plan!PushFrame(r) = Sim!PushFrame(r) /\ Plan!PopFrame(r) = Sim!PopFrame(r)
  BY DEF Plan!MakeDynamic, Sim!MakeDynamic, Plan!AddParameter, Sim!AddParameter, Plan!PushFrame, Sim!PushFrame,
         Plan!PopFrame, Sim!PopFrame, Plan!Front, Sim!Front, Plan!None, Sim!None
<1>5. \A r, x : Plan!PrepareAtom(r, x) = Sim!PrepareAtom(r, x) /\ Plan!MakeAction(r, x) = Sim!MakeAction(r, x)
  BY <1>1, <1>4 DEF Plan!PrepareAtom, Sim!PrepareAtom, Plan!MakeAction, Sim!MakeAction
<1>6. \A r : Plan!AddAction(r) = Sim!AddAction(r) /\ Plan!MakeAtom(r) = Sim!MakeAtom(r)
  BY <1>2, <1>3, <1>4 DEF Plan!AddAction, Sim!AddAction, Plan!MakeAtom, Sim!MakeAtom
<1> QED BY <1>1, <1>2, <1>3, <1>4, <1>5, <1>6

LEMMA IdleNoted ==
  ASSUME NEW r, NEW x, NEW t, NEW B
  PROVE  /\ Idle(r, Sim!Assume(r, x)) /\ Idle(r, Sim!MakeDynamic(r, t, x))
         /\ Idle(r, Sim!TypeSpec(r, B)) /\ Idle(r, Plan!TypeSpec(r, B))
         /\ Idle(r, Sim!TypeSpecs(r, B)) /\ Idle(r, Plan!TypeSpecs(r, B))
<1>1. \A q, y : Idle(q, Sim!Assume(q, y))
  <2>1. "requirements" \notin Core
    BY DEF Core
  <2> QED BY <2>1, IdleOne DEF Sim!Assume
<1>2. Idle(r, Sim!MakeDynamic(r, t, x))
  <2>1. "static" \notin Core
    BY DEF Core
  <2> QED BY <2>1, IdleOne DEF Sim!MakeDynamic
<1>3. Idle(r, Sim!TypeSpec(r, B)) /\ Idle(r, Sim!TypeSpecs(r, B))
  <2>1. ASSUME NEW q \in {r, Sim!Assume(r, "typing")}
        PROVE  Idle(r, q) /\ Idle(r, [q EXCEPT !.end = "thrown"])
    BY <1>1, <2>1, IdleSame, IdleEnded, IdleTwice
  <2> QED BY <2>1, SpecifiedIs
<1>4. Idle(r, Plan!TypeSpec(r, B)) /\ Idle(r, Plan!TypeSpecs(r, B))
  <2>1. {Plan!TypeSpec(r, B), Plan!TypeSpecs(r, B)} \subseteq {r, Sim!Assume(r, "typing")}
    BY Shared DEF Plan!TypeSpec, Plan!TypeSpecs
  <2> QED BY <1>1, <2>1, IdleSame
<1> QED BY <1>1, <1>2, <1>3, <1>4

-----------------------------------------------------------------------------
Heads == {"predicates", "functions"}

ObjectType(r, x) == IF x \in DOMAIN r.objects THEN r.objects[x] ELSE r.constants[x]
TermOk(r, t)     == IF t.var = 0 THEN t.name \in Sim!ObjectNames(r) ELSE t.var \in 1..Len(r.variables)
Fits(r, t, type) == Subtype(r.types, Sim!TypeOf(r, t), type)

AtomOk(r, a) ==
  /\ a.table \in Heads /\ a.name \in DOMAIN r[a.table]
  /\ IsList(a.terms) /\ Len(a.terms) = Len(r[a.table][a.name])
  /\ \A i \in 1..Len(a.terms) : TermOk(r, a.terms[i]) /\ Fits(r, a.terms[i], r[a.table][a.name][i])

ParamsListed(r) == \A t \in Heads : \A x \in DOMAIN r[t] : IsList(r[t][x])
FramesHold(r) ==
  /\ IsList(r.variables) /\ IsList(r.frames)
  /\ \A i \in 1..Len(r.frames) : \A x \in DOMAIN r.frames[i] : r.frames[i][x] \in 1..Len(r.variables)
DomainOnly(r) == r.problem \/ DOMAIN r.objects = {}
AtomsHold(r)  == \A a \in r.atoms : a.table = "=" \/ AtomOk(r, a)

Sound(r)  == ParamsListed(r) /\ FramesHold(r) /\ DomainOnly(r) /\ AtomsHold(r)
Typing(r) == Full(r) /\ (Good(r) => Sound(r))

\* A step that keeps what is there well typed, and one that changes neither atoms nor objects.
Onward(r, s) == Typing(r) => Typing(s) /\ (Good(s) => Good(r) /\ s.problem = r.problem)
Steady(r, s) ==
  Typing(r) => /\ Typing(s)
               /\ Good(s) => /\ Good(r) /\ s.problem = r.problem /\ s.atoms = r.atoms
                             /\ s.constants = r.constants /\ s.objects = r.objects

LEMMA OnwardTwice ==
  ASSUME NEW r, NEW s, NEW u
  PROVE  /\ Onward(r, r) /\ Steady(r, r)
         /\ Onward(r, s) /\ Onward(s, u) => Onward(r, u)
         /\ Steady(r, s) /\ Steady(s, u) => Steady(r, u)
         /\ Steady(r, s) => Onward(r, s)
BY DEF Onward, Steady

\* What r refers to, s has as well.
Refers(r, s) ==
  /\ s.types = r.types
  /\ \A x \in Sim!ObjectNames(r) : x \in Sim!ObjectNames(s) /\ ObjectType(s, x) = ObjectType(r, x)
  /\ \A v \in 1..Len(r.variables) : v \in 1..Len(s.variables) /\ s.variables[v] = r.variables[v]

LEMMA TermStays ==
  ASSUME NEW r, NEW s, Refers(r, s), NEW t, TermOk(r, t)
  PROVE  TermOk(s, t) /\ \A type : Fits(r, t, type) => Fits(s, t, type)
<1>1. CASE t.var = 0
  <2>1. t.name \in Sim!ObjectNames(r)
    BY <1>1 DEF TermOk
  <2>2. t.name \in Sim!ObjectNames(s) /\ ObjectType(s, t.name) = ObjectType(r, t.name)
    BY <2>1 DEF Refers
  <2>3. Sim!TypeOf(r, t) = ObjectType(r, t.name) /\ Sim!TypeOf(s, t) = ObjectType(s, t.name)
    BY <1>1 DEF Sim!TypeOf, ObjectType
  <2> QED BY <1>1, <2>2, <2>3 DEF TermOk, Fits, Refers
<1>2. CASE t.var # 0
  <2>1. t.var \in 1..Len(r.variables)
    BY <1>2 DEF TermOk
  <2>2. t.var \in 1..Len(s.variables) /\ s.variables[t.var] = r.variables[t.var]
    BY <2>1 DEF Refers
  <2>3. Sim!TypeOf(r, t) = r.variables[t.var][2] /\ Sim!TypeOf(s, t) = s.variables[t.var][2]
    BY <1>2 DEF Sim!TypeOf
  <2> QED BY <1>2, <2>2, <2>3 DEF TermOk, Fits, Refers
<1> QED BY <1>1, <1>2

LEMMA AtomStays ==
  ASSUME NEW r, NEW s, Refers(r, s), NEW a, AtomOk(r, a),
         a.name \in DOMAIN s[a.table], s[a.table][a.name] = r[a.table][a.name]
  PROVE  AtomOk(s, a)
BY TermStays DEF AtomOk

LEMMA SameRefers ==
  ASSUME NEW r, NEW s, Same(r, s)
  PROVE  Refers(r, s)
BY DEF Same, Refers, ObjectType, Sim!ObjectNames

LEMMA TablesAre == ASSUME NEW r, NEW t \in Heads
                   PROVE  (t = "predicates" /\ r[t] = r.predicates) \/ (t = "functions" /\ r[t] = r.functions)
BY DEF Heads

\* Atoms and tables stay, terms keep their types: then all does.
LEMMA RefersSound ==
  ASSUME NEW r, NEW s, Refers(r, s), Sound(r), FramesHold(s), DomainOnly(s),
         s.predicates = r.predicates, s.functions = r.functions, s.atoms = r.atoms
  PROVE  Sound(s)
<1>1. \A t \in Heads : s[t] = r[t]
  BY DEF Heads
<1>2. ParamsListed(s)
  BY <1>1 DEF Sound, ParamsListed
<1>3. ASSUME NEW a \in s.atoms, a.table # "=" PROVE AtomOk(s, a)
  <2>1. AtomOk(r, a)
    BY <1>3 DEF Sound, AtomsHold
  <2>2. a.name \in DOMAIN s[a.table] /\ s[a.table][a.name] = r[a.table][a.name]
    BY <1>1, <2>1 DEF AtomOk
  <2> QED BY <2>1, <2>2, AtomStays
<1> QED BY <1>2, <1>3 DEF Sound, AtomsHold

LEMMA SameSound ==
  ASSUME NEW r, NEW s, Same(r, s), s.frames = r.frames, Sound(r)
  PROVE  Sound(s)
<1>1. FramesHold(s) /\ DomainOnly(s)
  BY DEF Same, Sound, FramesHold, DomainOnly
<1> QED BY <1>1, SameRefers, RefersSound DEF Same

LEMMA IdleSteady == ASSUME NEW r, NEW s, Idle(r, s) PROVE Steady(r, s) /\ Onward(r, s)
<1>1. Steady(r, s)
  BY SameSound DEF Idle, Steady, Typing, SameHead, Same
<1> QED BY <1>1, OnwardTwice

-----------------------------------------------------------------------------
\* A predicate or function that is new in its table.
SameRest(r, s) ==
  /\ s.types = r.types /\ s.constants = r.constants /\ s.objects = r.objects
  /\ s.problem = r.problem /\ s.variables = r.variables /\ s.frames = r.frames /\ s.atoms = r.atoms

NewIn(r, s, t, x) ==
  /\ x \notin DOMAIN r[t] /\ DOMAIN s[t] = DOMAIN r[t] \cup {x}
  /\ s[t][x] = <<>> /\ \A y \in DOMAIN r[t] : s[t][y] = r[t][y]
  /\ \A u \in Heads \ {t} : s[u] = r[u]

Entered(r, s, t, x) ==
  /\ DOMAIN s = DOMAIN r /\ s.success = r.success /\ s.end = r.end
  /\ Full(r) => SameRest(r, s) /\ NewIn(r, s, t, x)

Unused(r, t, x) == \A a \in r.atoms : a.table = t => a.name # x

LEMMA EnteredSound ==
  ASSUME NEW r, NEW s, NEW t \in Heads, NEW x, Full(r), Entered(r, s, t, x), Sound(r)
  PROVE  Sound(s) /\ Unused(s, t, x) /\ x \in DOMAIN s[t] /\ s[t][x] = <<>>
<1>1. SameRest(r, s) /\ NewIn(r, s, t, x)
  BY DEF Entered
<1>2. Refers(r, s)
  BY <1>1 DEF SameRest, Refers, ObjectType, Sim!ObjectNames
<1>3. FramesHold(s) /\ DomainOnly(s)
  BY <1>1 DEF SameRest, Sound, FramesHold, DomainOnly
<1>4. ASSUME NEW u \in Heads, NEW y \in DOMAIN r[u] PROVE y \in DOMAIN s[u] /\ s[u][y] = r[u][y]
  <2>1. CASE u = t
    BY <1>1, <2>1 DEF NewIn
  <2>2. CASE u # t
    BY <1>1, <2>2 DEF NewIn
  <2> QED BY <2>1, <2>2
<1>5. x \in DOMAIN s[t] /\ s[t][x] = <<>> /\ x \notin DOMAIN r[t]
  BY <1>1 DEF NewIn
<1>6. ASSUME NEW u \in Heads, NEW y \in DOMAIN s[u] PROVE IsList(s[u][y])
  <2>1. CASE y \in DOMAIN r[u]
    BY <1>4, <2>1 DEF Sound, ParamsListed
  <2>2. CASE y \notin DOMAIN r[u]
    <3>1. u = t /\ y = x
      BY <1>1, <2>2 DEF NewIn
    <3> QED BY <1>5, <3>1, ListEmpty
  <2> QED BY <2>1, <2>2
<1>7. ASSUME NEW a \in s.atoms, a.table # "=" PROVE AtomOk(s, a)
  <2>1. AtomOk(r, a)
    BY <1>1, <1>7 DEF SameRest, Sound, AtomsHold
  <2>2. a.table \in Heads /\ a.name \in DOMAIN r[a.table]
    BY <2>1 DEF AtomOk
  <2>3. a.name \in DOMAIN s[a.table] /\ s[a.table][a.name] = r[a.table][a.name]
    BY <1>4, <2>2
  <2> QED BY <1>2, <2>1, <2>3, AtomStays
<1>8. Unused(s, t, x)
  <2>1. SUFFICES ASSUME NEW a \in r.atoms, a.table = t, a.name = x PROVE FALSE
    BY <1>1 DEF Unused, SameRest
  <2>2. a.table # "="
    BY <2>1 DEF Heads
  <2>3. AtomOk(r, a)
    BY <2>1, <2>2 DEF Sound, AtomsHold
  <2> QED BY <1>5, <2>1, <2>3 DEF AtomOk
<1> QED BY <1>3, <1>5, <1>6, <1>7, <1>8 DEF Sound, ParamsListed, AtomsHold

LEMMA EnteredSteady ==
  ASSUME NEW r, NEW s, NEW t \in Heads, NEW x, Entered(r, s, t, x)
  PROVE  Steady(r, s)
BY EnteredSound DEF Steady, Typing, Entered, Full, Good, SameRest

LEMMA EntersPredicate ==
  ASSUME NEW r, NEW p, p \notin DOMAIN r.predicates
  PROVE  Entered(r, Sim!AddPredicate(r, p), "predicates", p)
<1>1. PICK s : s = Sim!AddPredicate(r, p)
  OBVIOUS
<1>2. DOMAIN s = DOMAIN r /\ s.success = r.success /\ s.end = r.end
  BY <1>1 DEF Sim!AddPredicate
<1>3. ASSUME Full(r) PROVE SameRest(r, s)
  BY <1>1, <1>3 DEF Full, Core, SameRest, Sim!AddPredicate
<1>4. ASSUME Full(r) PROVE NewIn(r, s, "predicates", p)
  <2>1. s.functions = r.functions /\ s.predicates = Sim!WithEntry(r.predicates, p, <<>>)
    BY <1>1, <1>4 DEF Full, Core, Sim!AddPredicate
  <2> QED BY <2>1 DEF NewIn, Heads, Sim!WithEntry
<1> QED BY <1>1, <1>2, <1>3, <1>4 DEF Entered

LEMMA EntersFunction ==
  ASSUME NEW r, NEW f
  PROVE  /\ f \notin DOMAIN r.functions => Entered(r, Sim!AddFunction(r, f), "functions", f)
         /\ f \notin DOMAIN r.functions => Entered(r, Plan!AddFunction(r, f), "functions", f)
         /\ f \in DOMAIN r.functions => Idle(r, Sim!AddFunction(r, f))
<1>1. ASSUME f \notin DOMAIN r.functions, NEW s, s \in {Sim!AddFunction(r, f), Plan!AddFunction(r, f)}
      PROVE  Entered(r, s, "functions", f)
  <2>1. s = [r EXCEPT !.functions = Sim!WithEntry(@, f, <<>>), !.static = @ \cup {<<"functions", f>>}]
    BY <1>1, Shared DEF Sim!AddFunction, Plan!AddFunction
  <2>2. DOMAIN s = DOMAIN r /\ s.success = r.success /\ s.end = r.end
    BY <2>1
  <2>3. ASSUME Full(r) PROVE SameRest(r, s)
    BY <2>1, <2>3 DEF Full, Core, SameRest
  <2>4. ASSUME Full(r) PROVE NewIn(r, s, "functions", f)
    <3>1. s.predicates = r.predicates /\ s.functions = Sim!WithEntry(r.functions, f, <<>>)
      BY <2>1, <2>4 DEF Full, Core
    <3> QED BY <1>1, <3>1 DEF NewIn, Heads, Sim!WithEntry
  <2> QED BY <2>2, <2>3, <2>4 DEF Entered
<1>2. ASSUME f \in DOMAIN r.functions PROVE Idle(r, Sim!AddFunction(r, f))
  BY <1>2 DEF Idle, Full, Core, Good, Same, SameHead, Sim!AddFunction
<1> QED BY <1>1, <1>2

\* What is declared with a requirement.
LEMMA RequiredSteady ==
  ASSUME NEW r, NEW key
  PROVE  Steady(r, Sim!RequireKey(r, key)) /\ Steady(r, Plan!RequireKey(r, key))
<1>1. \A q, v : Idle(q, [q EXCEPT !.requirements = v]) /\ Idle(q, [q EXCEPT !.reward = v])
  <2>1. "requirements" \notin Core /\ "reward" \notin Core
    BY DEF Core
  <2> QED BY <2>1, IdleOne
<1>2. \A q, v : Steady(q, [q EXCEPT !.requirements = v]) /\ Steady(q, [q EXCEPT !.reward = v])
  BY <1>1, IdleSteady
<1>3. \A q, x : Steady(q, Sim!Assume(q, x))
  BY IdleNoted, IdleSteady
<1>4. \A q, f : Steady(q, Sim!AddFunction(q, f)) /\ (f \notin DOMAIN q.functions => Steady(q, Plan!AddFunction(q, f)))
  BY EntersFunction, EnteredSteady, IdleSteady DEF Heads
<1>5. Steady(r, Sim!RequireKey(r, key))
  <2>1. PICK q, v : /\ q = [r EXCEPT !.requirements = @ \cup {"probabilistic-effects", "rewards"}]
                    /\ v = [r EXCEPT !.requirements = @ \cup Sim!Adl]
    OBVIOUS
  <2>2. Steady(r, q) /\ Steady(r, v)
    BY <1>2, <2>1
  <2>3. Steady(r, Sim!AddFunction(q, "reward")) /\ Steady(r, Sim!AddFunction(Sim!Assume(r, key), "reward"))
    BY <1>3, <1>4, <2>2, OnwardTwice
  <2>4. Sim!RequireKey(r, key) \in {v, Sim!AddFunction(q, "reward"), Sim!AddFunction(Sim!Assume(r, key), "reward"), Sim!Assume(r, key)}
    BY <2>1 DEF Sim!RequireKey
  <2> QED BY <1>3, <2>2, <2>3, <2>4
<1>6. \A q : Steady(q, Plan!RequireReward(q))
  <2> TAKE q
  <2>1. PICK u : u = Sim!Assume(q, "rewards")
    OBVIOUS
  <2>2. Steady(q, u)
    BY <1>3, <2>1
  <2>3. u.functions = q.functions
    BY <2>1 DEF Sim!Assume
  <2>4. CASE "reward" \in DOMAIN q.functions
    <3>1. Plan!RequireReward(q) = [u EXCEPT !.reward = "reward again"]
      BY <2>1, <2>4, Shared DEF Plan!RequireReward
    <3> QED BY <1>2, <2>2, <3>1, OnwardTwice
  <2>5. CASE "reward" \notin DOMAIN q.functions
    <3>1. PICK w : w = Plan!AddFunction(u, "reward")
      OBVIOUS
    <3>2. Plan!RequireReward(q) = [w EXCEPT !.reward = "reward"]
      BY <2>1, <2>5, <3>1, Shared DEF Plan!RequireReward
    <3>3. Steady(u, w)
      BY <1>4, <2>3, <2>5, <3>1
    <3> QED BY <1>2, <2>2, <3>2, <3>3, OnwardTwice
  <2> QED BY <2>4, <2>5
<1>7. \A q : Steady(q, Plan!RequireProbabilities(q))
  <2> TAKE q
  <2>1. PICK u : u = Sim!Assume(q, "probabilistic-effects")
    OBVIOUS
  <2>2. Steady(q, u)
    BY <1>3, <2>1
  <2>3. Plan!RequireProbabilities(q) = IF "goal-probability" \in DOMAIN u.functions THEN u ELSE Plan!AddFunction(u, "goal-probability")
    BY <2>1, Shared DEF Plan!RequireProbabilities
  <2> QED BY <1>4, <2>2, <2>3, OnwardTwice
<1>8. Steady(r, Plan!RequireKey(r, key))
  <2>1. PICK v : v = [r EXCEPT !.requirements = @ \cup Plan!Adl]
    OBVIOUS
  <2>2. Steady(r, v)
    BY <1>2, <2>1
  <2>3. Steady(r, Plan!RequireReward(Plan!RequireProbabilities(r)))
    BY <1>6, <1>7, OnwardTwice
  <2>4. Plan!RequireKey(r, key) \in {v, Plan!RequireReward(Plan!RequireProbabilities(r)), Plan!RequireReward(r),
                                     Plan!RequireProbabilities(r), Sim!Assume(r, key)}
    BY <2>1, Shared DEF Plan!RequireKey
  <2> QED BY <1>3, <1>6, <1>7, <2>2, <2>3, <2>4
<1> QED BY <1>5, <1>8

-----------------------------------------------------------------------------
\* The terms of an atom.

LEMMA FoundIs ==
  ASSUME NEW r, FramesHold(r), NEW x
  PROVE  /\ Plan!Find(r.frames, x) = Sim!Find(r.frames, x)
         /\ Sim!Find(r.frames, x) # 0 => Sim!Find(r.frames, x) \in 1..Len(r.variables)
<1>1. PICK fs, n : fs = r.frames /\ n = Len(fs)
  OBVIOUS
<1>2. n \in Nat /\ DOMAIN fs = 1..n
  BY <1>1, ListIs DEF FramesHold
<1> DEFINE H == {i \in DOMAIN fs : x \in DOMAIN fs[i]}
           m == CHOOSE i \in H : \A j \in H : i >= j
<1>3. Sim!Find(fs, x) = IF H = {} THEN 0 ELSE fs[m][x]
  BY DEF Sim!Find, Sim!Max
<1>4. Plan!Find(fs, x) = IF H = {} THEN 0 ELSE fs[m][x]
  BY DEF Plan!Find, Plan!Max
<1>5. ASSUME H # {} PROVE fs[m][x] \in 1..Len(r.variables)
  <2>1. H \in SUBSET (1..n)
    BY <1>2
  <2>2. m \in H
    <3> HIDE DEF H
    <3> QED BY <1>2, <1>5, <2>1, GreatestIn
  <2>3. \A i \in H : i \in 1..n /\ x \in DOMAIN fs[i]
    BY <1>2
  <2> HIDE DEF H, m
  <2> QED BY <1>1, <2>2, <2>3 DEF FramesHold
<1> HIDE DEF H, m
<1> QED BY <1>1, <1>3, <1>4, <1>5

Thing(x)    == [var |-> 0, name |-> x]
Variable(v) == [var |-> v, name |-> ""]

LEMMA TermsAre == \A x : Variable(x).var = x /\ Thing(x).var = 0 /\ Thing(x).name = x
BY DEF Variable, Thing

\* A term of r is made in q: a variable, an object, or an object that is new.
Makes(r, q, x) ==
  \/ q = [r EXCEPT !.term = Variable(Sim!Find(r.frames, x))] /\ Sim!Find(r.frames, x) # 0
  \/ q = [r EXCEPT !.term = Thing(x)] /\ x \in Sim!ObjectNames(r)
  \/ /\ x \notin Sim!ObjectNames(r)
     /\ \E type : \/ r.problem /\ q = [[r EXCEPT !.objects = Sim!WithEntry(@, x, type)] EXCEPT !.term = Thing(x)]
                  \/ ~r.problem /\ q = [[r EXCEPT !.constants = Sim!WithEntry(@, x, type)] EXCEPT !.term = Thing(x)]

LEMMA TermCases ==
  ASSUME NEW r, Full(r), Good(r) => FramesHold(r), NEW x, NEW q \in {Sim!MakeTerm(r, x), Plan!MakeTerm(r, x)}
  PROVE  Full(q) /\ q.head = r.head /\ (Good(q) => Good(r) /\ Makes(r, q, x))
<1>1. CASE q = Sim!MakeTerm(r, x)
  <2>1. CASE x \in VariableNames
    <3>1. CASE Sim!Find(r.frames, x) # 0
      <4>1. q = [r EXCEPT !.term = Variable(Sim!Find(r.frames, x))]
        BY <1>1, <2>1, <3>1 DEF Sim!MakeTerm, Variable
      <4>2. Full(q) /\ q.head = r.head /\ (Good(q) => Good(r))
        BY <4>1 DEF Full, Core, Good
      <4> QED BY <3>1, <4>1, <4>2 DEF Makes
    <3>2. CASE Sim!Find(r.frames, x) = 0
      <4>1. PICK s : s = Sim!Fail(r)
        OBVIOUS
      <4>2. Full(s) /\ ~s.success /\ s.head = r.head
        BY <4>1 DEF Full, Core, Sim!Fail
      <4>3. \/ q = [s EXCEPT !.end = "undefined"]
            \/ \E a, b, c : q = [s EXCEPT !.variables = a, !.frames = b, !.term = c]
        BY <1>1, <2>1, <3>2, <4>1 DEF Sim!MakeTerm
      <4> QED BY <4>2, <4>3 DEF Full, Core, Good
    <3> QED BY <3>1, <3>2
  <2>2. CASE x \notin VariableNames
    <3>1. \E type : q = [IF x \in Sim!ObjectNames(r) THEN r ELSE Sim!AddObject(r, x, type) EXCEPT !.term = Thing(x)]
      BY <1>1, <2>2 DEF Sim!MakeTerm, Thing
    <3>2. Makes(r, q, x)
      BY <3>1 DEF Makes, Sim!AddObject
    <3>3. PICK s, type : q = [s EXCEPT !.term = Thing(x)]
                         /\ (s = r \/ s = [r EXCEPT !.objects = Sim!WithEntry(@, x, type)]
                                   \/ s = [r EXCEPT !.constants = Sim!WithEntry(@, x, type)])
      BY <3>1 DEF Sim!AddObject
    <3>4. Full(q) /\ q.head = r.head /\ (Good(q) => Good(r))
      BY <3>3 DEF Full, Core, Good
    <3> QED BY <3>2, <3>4
  <2> QED BY <2>1, <2>2
<1>2. CASE q = Plan!MakeTerm(r, x)
  <2>1. CASE x \in VariableNames
    <3>1. CASE Plan!Find(r.frames, x) # 0
      <4>1. q = [r EXCEPT !.term = Variable(Plan!Find(r.frames, x))]
        BY <1>2, <2>1, <3>1 DEF Plan!MakeTerm, Variable
      <4>2. Full(q) /\ q.head = r.head /\ (Good(q) => Good(r))
        BY <4>1 DEF Full, Core, Good
      <4> QED BY <3>1, <4>1, <4>2, FoundIs DEF Makes
    <3>2. CASE Plan!Find(r.frames, x) = 0
      <4>1. PICK s : s = Plan!Fail(r)
        OBVIOUS
      <4>2. Full(s) /\ ~s.success /\ s.head = r.head
        BY <4>1 DEF Full, Core, Plan!Fail
      <4>3. \/ q = [s EXCEPT !.end = "undefined"]
            \/ \E a, b, c : q = [s EXCEPT !.variables = a, !.frames = b, !.term = c]
        BY <1>2, <2>1, <3>2, <4>1 DEF Plan!MakeTerm
      <4> QED BY <4>2, <4>3 DEF Full, Core, Good
    <3> QED BY <3>1, <3>2
  <2>2. CASE x \notin VariableNames
    <3>1. PICK s, type : /\ q = [s EXCEPT !.term = Thing(x)]
                         /\ \/ s = r /\ x \in Sim!ObjectNames(r)
                            \/ /\ x \notin Sim!ObjectNames(r) /\ r.problem
                               /\ s = [r EXCEPT !.objects = Sim!WithEntry(@, x, type)]
                            \/ /\ x \notin Sim!ObjectNames(r) /\ ~r.problem
                               /\ s = [r EXCEPT !.constants = Sim!WithEntry(@, x, type)]
      <4>1. PICK type : q = [CASE x \in Plan!ObjectNames(r) -> r
                               [] x \notin Plan!ObjectNames(r) /\ r.problem  -> [r EXCEPT !.objects = Plan!WithEntry(@, x, type)]
                               [] x \notin Plan!ObjectNames(r) /\ ~r.problem -> [r EXCEPT !.constants = Plan!WithEntry(@, x, type)]
                             EXCEPT !.term = Thing(x)]
        BY <1>2, <2>2 DEF Plan!MakeTerm, Thing
      <4> QED BY <4>1, Shared
    <3>2. Makes(r, q, x)
      BY <3>1 DEF Makes
    <3>3. Full(q) /\ q.head = r.head /\ (Good(q) => Good(r))
      BY <3>1 DEF Full, Core, Good
    <3> QED BY <3>2, <3>3
  <2> QED BY <2>1, <2>2
<1> QED BY <1>1, <1>2

\* Whatever has been made, it is there, and all that was there keeps its type.
Keeps(r, q) ==
  /\ Refers(r, q) /\ q.problem = r.problem /\ q.variables = r.variables /\ q.frames = r.frames
  /\ q.predicates = r.predicates /\ q.functions = r.functions
  /\ q.head = r.head /\ q.terms = r.terms /\ q.atoms = r.atoms

LEMMA MadeKeeps ==
  ASSUME NEW r, Full(r), Sound(r), NEW x, NEW q, Makes(r, q, x)
  PROVE  Keeps(r, q) /\ Sound(q) /\ TermOk(q, q.term)
<1>1. FramesHold(r) /\ DomainOnly(r)
  BY DEF Sound
<1>2. CASE q = [r EXCEPT !.term = Variable(Sim!Find(r.frames, x))] /\ Sim!Find(r.frames, x) # 0
  <2>1. Same(r, q) /\ q.frames = r.frames /\ q.head = r.head /\ q.terms = r.terms
    BY <1>2 DEF Same, Full, Core
  <2>2. q.term = Variable(Sim!Find(r.frames, x))
    BY <1>2 DEF Full, Core
  <2>3. TermOk(q, q.term)
    <3>1. PICK v : v = Sim!Find(r.frames, x)
      OBVIOUS
    <3>2. v # 0 /\ v \in 1..Len(r.variables)
      BY <1>1, <1>2, <3>1, FoundIs
    <3>3. q.variables = r.variables /\ q.term = Variable(v)
      BY <2>1, <2>2, <3>1 DEF Same
    <3>4. q.term.var = v
      BY <3>3, TermsAre
    <3> QED BY <3>2, <3>3, <3>4 DEF TermOk
  <2> QED BY <2>1, <2>3, SameRefers, SameSound DEF Keeps, Same
<1>3. CASE q = [r EXCEPT !.term = Thing(x)] /\ x \in Sim!ObjectNames(r)
  <2>1. Same(r, q) /\ q.frames = r.frames /\ q.head = r.head /\ q.terms = r.terms
    BY <1>3 DEF Same, Full, Core
  <2>2. q.term = Thing(x)
    BY <1>3 DEF Full, Core
  <2>3. TermOk(q, q.term)
    BY <1>3, <2>1, <2>2 DEF TermOk, Thing, Same, Sim!ObjectNames
  <2> QED BY <2>1, <2>3, SameRefers, SameSound DEF Keeps, Same
<1>4. CASE /\ x \notin Sim!ObjectNames(r)
           /\ \E type : \/ r.problem /\ q = [[r EXCEPT !.objects = Sim!WithEntry(@, x, type)] EXCEPT !.term = Thing(x)]
                        \/ ~r.problem /\ q = [[r EXCEPT !.constants = Sim!WithEntry(@, x, type)] EXCEPT !.term = Thing(x)]
  <2>1. PICK type, s :
          /\ q = [s EXCEPT !.term = Thing(x)]
          /\ \/ r.problem /\ s = [r EXCEPT !.objects = Sim!WithEntry(@, x, type)]
             \/ ~r.problem /\ s = [r EXCEPT !.constants = Sim!WithEntry(@, x, type)]
    BY <1>4
  <2>2. Full(s)
    BY <2>1 DEF Full, Core
  <2>3. /\ s.types = r.types /\ s.problem = r.problem /\ s.variables = r.variables /\ s.frames = r.frames
        /\ s.predicates = r.predicates /\ s.functions = r.functions
        /\ s.head = r.head /\ s.terms = r.terms /\ s.atoms = r.atoms
    BY <2>1 DEF Full, Core
  <2>4. /\ q.types = s.types /\ q.problem = s.problem /\ q.variables = s.variables /\ q.frames = s.frames
        /\ q.predicates = s.predicates /\ q.functions = s.functions /\ q.constants = s.constants /\ q.objects = s.objects
        /\ q.head = s.head /\ q.terms = s.terms /\ q.atoms = s.atoms /\ q.term = Thing(x)
    BY <2>1, <2>2 DEF Full, Core
  <2>5. \/ r.problem /\ q.constants = r.constants /\ q.objects = Sim!WithEntry(r.objects, x, type)
        \/ ~r.problem /\ q.objects = r.objects /\ q.constants = Sim!WithEntry(r.constants, x, type)
    BY <2>1, <2>4 DEF Full, Core
  <2>6. x \in Sim!ObjectNames(q)
    BY <2>5 DEF Sim!ObjectNames, Sim!WithEntry
  <2>7. ASSUME NEW y \in Sim!ObjectNames(r) PROVE y \in Sim!ObjectNames(q) /\ ObjectType(q, y) = ObjectType(r, y)
    <3>1. y # x /\ x \notin DOMAIN r.objects /\ x \notin DOMAIN r.constants
          /\ (y \in DOMAIN r.objects \/ y \in DOMAIN r.constants)
      BY <1>4 DEF Sim!ObjectNames
    <3> QED BY <2>5, <3>1 DEF Sim!ObjectNames, ObjectType, Sim!WithEntry
  <2>8. Refers(r, q)
    BY <2>3, <2>4, <2>7 DEF Refers
  <2>9. FramesHold(q)
    BY <1>1, <2>3, <2>4 DEF FramesHold
  <2>10. DomainOnly(q)
    BY <1>1, <2>3, <2>4, <2>5 DEF DomainOnly
  <2>11. Sound(q)
    BY <2>3, <2>4, <2>8, <2>9, <2>10, RefersSound
  <2>12. TermOk(q, q.term)
    BY <2>4, <2>6 DEF TermOk, Thing
  <2> QED BY <2>3, <2>4, <2>8, <2>11, <2>12 DEF Keeps
<1> QED BY <1>2, <1>3, <1>4 DEF Makes

LEMMA TermMade ==
  ASSUME NEW r, Typing(r), NEW x, NEW q \in {Sim!MakeTerm(r, x), Plan!MakeTerm(r, x)}
  PROVE  Full(q) /\ q.head = r.head /\ (Good(q) => Good(r) /\ Keeps(r, q) /\ Sound(q) /\ TermOk(q, q.term))
<1>1. Full(r) /\ (Good(r) => Sound(r) /\ FramesHold(r))
  BY DEF Typing, Sound
<1>2. Full(q) /\ q.head = r.head /\ (Good(q) => Good(r) /\ Makes(r, q, x))
  BY <1>1, TermCases
<1> QED BY <1>1, <1>2, MadeKeeps

\* An atom under construction: its terms so far have the types the head wants in their
\* places, and a head that is new has the types of its terms.
Wanted(r) == r[r.head.table][r.head.name]
HeadHolds(r) == r.head.table \in Heads /\ r.head.name \in DOMAIN r[r.head.table]
PlacesHold(r) ==
  /\ IsList(r.terms)
  /\ \A i \in 1..Len(r.terms) :
       TermOk(r, r.terms[i]) /\ (i \in 1..Len(Wanted(r)) => Fits(r, r.terms[i], Wanted(r)[i]))
FreshHolds(r) ==
  r.head.fresh => Len(Wanted(r)) = Len(r.terms) /\ Unused(r, r.head.table, r.head.name)

Building(r) ==
  /\ Full(r) /\ r.head.table \in Heads
  /\ Good(r) => Sound(r) /\ HeadHolds(r) /\ PlacesHold(r) /\ FreshHolds(r)
Builds(r, s) == Building(r) => Building(s) /\ (Good(s) => Good(r) /\ s.problem = r.problem)

LEMMA WantedIs ==
  ASSUME NEW r, HeadHolds(r)
  PROVE  Sim!Parameters(r) = Wanted(r) /\ Plan!Parameters(r) = Wanted(r) /\ (Sound(r) => IsList(Wanted(r)))
<1>1. r.head.table # ""
  BY DEF HeadHolds, Heads
<1>2. Sim!Parameters(r) = Wanted(r)
  BY <1>1 DEF Sim!Parameters, Wanted
<1>3. Sound(r) => IsList(Wanted(r))
  BY DEF Sound, ParamsListed, HeadHolds, Wanted
<1> QED BY <1>2, <1>3, Shared

LEMMA SubtypeIs ==
  /\ \A T, A, B : Sim!Subtype(T, A, B) = Subtype(T, A, B) /\ Plan!Subtype(T, A, B) = Subtype(T, A, B)
  /\ \A T, A : Subtype(T, A, A)
BY DEF Sim!Subtype, Plan!Subtype, Subtype, Sim!Below, Plan!Below, Below, Sim!OBJECT, Plan!OBJECT, OBJECT

\* The head of an atom.
Begun(q, t, x, fresh) == [q EXCEPT !.head = [table |-> t, name |-> x, fresh |-> fresh], !.terms = <<>>]
HasHead(q, t, x, fresh) ==
  Full(q) /\ (Good(q) => Sound(q) /\ x \in DOMAIN q[t] /\ (fresh => q[t][x] = <<>> /\ Unused(q, t, x)))

LEMMA HeadMade ==
  ASSUME NEW q, NEW t \in Heads, NEW x, NEW fresh, HasHead(q, t, x, fresh), NEW s, s = Begun(q, t, x, fresh)
  PROVE  Building(s) /\ (Good(s) => Good(q) /\ s.problem = q.problem)
<1> USE DEF HasHead, Begun
<1>1. Full(s) /\ (Good(s) => Good(q)) /\ Same(q, s) /\ s.frames = q.frames
  BY DEF Full, Core, Good, Same
<1>2. s.terms = <<>> /\ s.head = [table |-> t, name |-> x, fresh |-> fresh]
  BY DEF Full, Core
<1>3. s.head.table = t /\ s.head.name = x /\ s.head.fresh = fresh
  BY <1>2
<1>4. s[t] = q[t]
  BY <1>1 DEF Heads, Same
<1>5. ASSUME Good(s) PROVE Sound(s) /\ HeadHolds(s) /\ PlacesHold(s) /\ FreshHolds(s)
  <2>1. Good(q) /\ Sound(s)
    BY <1>1, <1>5, SameSound
  <2>2. HeadHolds(s)
    BY <1>3, <1>4, <2>1 DEF HeadHolds
  <2>3. Wanted(s) = q[t][x]
    BY <1>3, <1>4 DEF Wanted
  <2>4. Len(s.terms) = 0 /\ IsList(s.terms)
    BY <1>2, ListEmpty
  <2>5. PlacesHold(s)
    BY <2>4 DEF PlacesHold
  <2>6. FreshHolds(s)
    <3>1. Unused(q, t, x) => Unused(s, t, x)
      BY <1>1 DEF Unused, Same
    <3> QED BY <1>3, <2>1, <2>3, <2>4, <3>1, ListEmpty DEF FreshHolds
  <2> QED BY <2>1, <2>2, <2>5, <2>6
<1> QED BY <1>1, <1>3, <1>5 DEF Building, Same

LEMMA AtomPrepared ==
  ASSUME NEW r, Typing(r), NEW p, NEW s, s = Sim!PrepareAtom(r, p)
  PROVE  Building(s) /\ (Good(s) => Good(r) /\ s.problem = r.problem)
<1>1. PICK fresh \in BOOLEAN : fresh = (p \notin DOMAIN r.predicates)
  OBVIOUS
<1>2. PICK q : q = IF fresh THEN Sim!AddPredicate(r, p) ELSE r
  OBVIOUS
<1>3. s = Begun(q, "predicates", p, fresh)
  BY <1>1, <1>2 DEF Sim!PrepareAtom, Begun
<1>4. HasHead(q, "predicates", p, fresh) /\ (Good(q) => Good(r) /\ q.problem = r.problem)
  <2>1. CASE fresh
    <3>1. Entered(r, q, "predicates", p)
      BY <1>1, <1>2, <2>1, EntersPredicate
    <3>2. Full(r) /\ Full(q) /\ (Good(q) => Good(r)) /\ q.problem = r.problem
      BY <3>1 DEF Typing, Entered, Full, Good, SameRest
    <3> QED BY <3>1, <3>2, EnteredSound DEF Typing, Heads, HasHead
  <2>2. CASE ~fresh
    BY <1>1, <1>2, <2>2 DEF Typing, HasHead
  <2> QED BY <2>1, <2>2
<1>5. Building(s) /\ (Good(s) => Good(q) /\ s.problem = q.problem)
  BY <1>3, <1>4, HeadMade DEF Heads
<1> QED BY <1>4, <1>5

LEMMA FluentPrepared ==
  ASSUME NEW r, Typing(r), NEW f, NEW place, NEW s \in {Sim!PrepareFluent(r, f, place), Plan!PrepareApplication(r, f)}
  PROVE  Building(s) /\ (Good(s) => Good(r) /\ s.problem = r.problem)
<1>1. PICK fresh \in BOOLEAN : fresh = (f \notin DOMAIN r.functions)
  OBVIOUS
<1>2. PICK q, u : /\ \/ q = (IF fresh THEN Sim!AddFunction(r, f) ELSE r)
                     \/ q = (IF fresh THEN Plan!AddFunction(r, f) ELSE r)
                  /\ Idle(q, u)
                  /\ s = Begun(u, "functions", f, fresh)
  <2>1. CASE s = Sim!PrepareFluent(r, f, place)
    <3>1. PICK q : q = IF fresh THEN Sim!AddFunction(r, f) ELSE r
      OBVIOUS
    <3>2. PICK u : u = CASE "rewards" \in r.requirements /\ f = "reward" -> Sim!Check(q, place # "formula")
                         [] f \in {"total-time", "goal-achieved"}        -> Sim!Check(q, place = "metric")
                         [] OTHER                                        -> Sim!Assume(q, "fluents")
      OBVIOUS
    <3>3. u \in {Sim!Check(q, place # "formula"), Sim!Check(q, place = "metric"), Sim!Assume(q, "fluents")}
      BY <3>2
    <3>4. Idle(q, u)
      BY <3>3, IdleFailed, IdleNoted
    <3>5. s = Begun(u, "functions", f, fresh)
      BY <1>1, <2>1, <3>1, <3>2 DEF Sim!PrepareFluent, Begun
    <3> QED BY <3>1, <3>4, <3>5
  <2>2. CASE s = Plan!PrepareApplication(r, f)
    <3>1. PICK q : q = IF fresh THEN Plan!AddFunction(r, f) ELSE r
      OBVIOUS
    <3>2. PICK u : u = IF "rewards" \in r.requirements /\ f = r.reward THEN q ELSE Plan!Assume(q, "fluents")
      OBVIOUS
    <3>3. Idle(q, u)
      BY <3>2, Shared, IdleSame, IdleNoted
    <3>4. s = Begun(u, "functions", f, fresh)
      BY <1>1, <2>2, <3>1, <3>2 DEF Plan!PrepareApplication, Begun
    <3> QED BY <3>1, <3>3, <3>4
  <2> QED BY <2>1, <2>2
<1>3. HasHead(q, "functions", f, fresh) /\ (Good(q) => Good(r) /\ q.problem = r.problem)
  <2>1. CASE fresh
    <3>1. Entered(r, q, "functions", f)
      <4>1. f \notin DOMAIN r.functions /\ (q = Sim!AddFunction(r, f) \/ q = Plan!AddFunction(r, f))
        BY <1>1, <1>2, <2>1
      <4> QED BY <4>1, EntersFunction
    <3>2. Full(r) /\ Full(q) /\ (Good(q) => Good(r)) /\ q.problem = r.problem
      BY <3>1 DEF Typing, Entered, Full, Good, SameRest
    <3> QED BY <3>1, <3>2, EnteredSound DEF Typing, Heads, HasHead
  <2>2. CASE ~fresh
    BY <1>1, <1>2, <2>2 DEF Typing, HasHead
  <2> QED BY <2>1, <2>2
<1>4. HasHead(u, "functions", f, fresh) /\ (Good(u) => Good(q) /\ u.problem = q.problem)
  <2>1. Full(u) /\ (Good(u) => Good(q) /\ Same(q, u) /\ SameHead(q, u))
    BY <1>2, <1>3 DEF Idle, HasHead
  <2>2. ASSUME Good(u) PROVE /\ Sound(u) /\ f \in DOMAIN u["functions"] /\ u.problem = q.problem
                             /\ fresh => u["functions"][f] = <<>> /\ Unused(u, "functions", f)
    <3>1. Good(q) /\ Same(q, u) /\ u.frames = q.frames
      BY <2>1, <2>2 DEF SameHead
    <3>2. Sound(u)
      BY <1>3, <3>1, SameSound DEF HasHead
    <3> QED BY <1>3, <3>1, <3>2 DEF Same, Unused, HasHead
  <2> QED BY <2>1, <2>2 DEF HasHead
<1>5. Building(s) /\ (Good(s) => Good(u) /\ s.problem = u.problem)
  BY <1>2, <1>4, HeadMade DEF Heads
<1> QED BY <1>3, <1>4, <1>5

\* A predicate or function gets one more parameter.
Widened(r, s, t, x, type) ==
  /\ DOMAIN s = DOMAIN r /\ s.success = r.success /\ s.end = r.end
  /\ Full(r) => /\ SameRest(r, s) /\ s.head = r.head /\ s.terms = r.terms /\ s.term = r.term
                /\ DOMAIN s[t] = DOMAIN r[t] /\ (x \in DOMAIN r[t] => s[t][x] = Append(r[t][x], type))
                /\ \A y \in DOMAIN r[t] \ {x} : s[t][y] = r[t][y]
                /\ \A u \in Heads \ {t} : s[u] = r[u]

LEMMA WidenedIs ==
  ASSUME NEW r, NEW t \in Heads, NEW x, NEW type, NEW s, s = Sim!AddParameter(r, t, x, type)
  PROVE  Widened(r, s, t, x, type)
<1>1. DOMAIN s = DOMAIN r /\ s.success = r.success /\ s.end = r.end
  BY DEF Sim!AddParameter, Heads
<1>2. ASSUME Full(r)
      PROVE  /\ SameRest(r, s) /\ s.head = r.head /\ s.terms = r.terms /\ s.term = r.term
             /\ s[t] = [r[t] EXCEPT ![x] = Append(@, type)] /\ \A u \in Heads \ {t} : s[u] = r[u]
  <2>1. PICK v : v = [r[t] EXCEPT ![x] = Append(@, type)]
    OBVIOUS
  <2>2. s = [r EXCEPT ![t] = v]
    BY <2>1 DEF Sim!AddParameter
  <2>3. t \in DOMAIN r /\ (t = "predicates" \/ t = "functions")
    BY <1>2 DEF Heads, Full, Core
  <2>4. s[t] = v /\ \A u \in Heads \ {t} : s[u] = r[u]
    BY <1>2, <2>2 DEF Heads, Full, Core
  <2>5. SameRest(r, s)
    BY <1>2, <2>2, <2>3 DEF Full, Core, SameRest
  <2>6. s.head = r.head /\ s.terms = r.terms /\ s.term = r.term
    BY <1>2, <2>2, <2>3 DEF Full, Core
  <2> QED BY <2>1, <2>4, <2>5, <2>6
<1> QED BY <1>1, <1>2 DEF Widened

LEMMA WidenedSound ==
  ASSUME NEW r, NEW s, NEW t \in Heads, NEW x, NEW type, Full(r), Widened(r, s, t, x, type), Sound(r), Unused(r, t, x)
  PROVE  Sound(s) /\ Refers(r, s) /\ Unused(s, t, x) /\ DOMAIN s[t] = DOMAIN r[t]
<1>1. /\ SameRest(r, s) /\ DOMAIN s[t] = DOMAIN r[t] /\ (x \in DOMAIN r[t] => s[t][x] = Append(r[t][x], type))
      /\ \A y \in DOMAIN r[t] \ {x} : s[t][y] = r[t][y]
      /\ \A u \in Heads \ {t} : s[u] = r[u]
  BY DEF Widened
<1>2. Refers(r, s)
  BY <1>1 DEF SameRest, Refers, ObjectType, Sim!ObjectNames
<1>3. FramesHold(s) /\ DomainOnly(s)
  BY <1>1 DEF SameRest, Sound, FramesHold, DomainOnly
<1>4. ASSUME NEW u \in Heads, NEW y \in DOMAIN s[u] PROVE IsList(s[u][y])
  <2>1. CASE u = t /\ y = x
    <3>1. x \in DOMAIN r[t] /\ IsList(r[t][x])
      BY <1>1, <1>4, <2>1 DEF Sound, ParamsListed
    <3>2. PICK q : q = r[t][x]
      OBVIOUS
    <3>3. s[u][y] = Append(q, type)
      BY <1>1, <2>1, <3>1, <3>2
    <3> QED BY <3>1, <3>2, <3>3, ListAppended
  <2>2. CASE ~(u = t /\ y = x)
    <3>1. y \in DOMAIN r[u] /\ s[u][y] = r[u][y]
      BY <1>1, <1>4, <2>2
    <3> QED BY <3>1 DEF Sound, ParamsListed
  <2> QED BY <2>1, <2>2
<1>5. ASSUME NEW a \in s.atoms, a.table # "=" PROVE AtomOk(s, a)
  <2>1. a \in r.atoms /\ AtomOk(r, a)
    BY <1>1, <1>5 DEF SameRest, Sound, AtomsHold
  <2>2. a.table \in Heads /\ a.name \in DOMAIN r[a.table] /\ (a.table = t => a.name # x)
    BY <2>1 DEF AtomOk, Unused
  <2>3. a.name \in DOMAIN s[a.table] /\ s[a.table][a.name] = r[a.table][a.name]
    BY <1>1, <2>2
  <2> QED BY <1>2, <2>1, <2>3, AtomStays
<1>6. Unused(s, t, x)
  BY <1>1 DEF SameRest, Unused
<1> QED BY <1>1, <1>2, <1>3, <1>4, <1>5, <1>6 DEF Sound, ParamsListed, AtomsHold

\* A term in the next place.
LEMMA PlacesGrow ==
  ASSUME NEW q, NEW s, PlacesHold(q), IsList(Wanted(q)), Refers(q, s), s.terms = Append(q.terms, q.term), TermOk(q, q.term),
         \/ Wanted(s) = Wanted(q) /\ (Len(q.terms) + 1 \in 1..Len(Wanted(q)) => Fits(q, q.term, Wanted(q)[Len(q.terms) + 1]))
         \/ Len(Wanted(q)) = Len(q.terms) /\ Wanted(s) = Append(Wanted(q), Sim!TypeOf(q, q.term))
  PROVE  PlacesHold(s)
<1>1. PICK n, ws, ts : n = Len(q.terms) /\ ws = Wanted(q) /\ ts = q.terms
  OBVIOUS
<1>2. IsList(ts) /\ n \in Nat /\ IsList(ws) /\ Len(ws) \in Nat
  BY <1>1, ListIs DEF PlacesHold
<1>3. IsList(s.terms) /\ Len(s.terms) = n + 1 /\ s.terms[n + 1] = q.term /\ \A i \in 1..n : s.terms[i] = ts[i]
  BY <1>1, <1>2, ListAppended
<1>4. ASSUME NEW i \in 1..n PROVE TermOk(s, s.terms[i]) /\ (i \in 1..Len(ws) => Fits(s, s.terms[i], ws[i]))
  BY <1>1, <1>3, TermStays DEF PlacesHold
<1>5. TermOk(s, q.term)
  BY TermStays
<1>6. CASE Wanted(s) = ws /\ (n + 1 \in 1..Len(ws) => Fits(q, q.term, ws[n + 1]))
  <2>1. n + 1 \in 1..Len(ws) => Fits(s, q.term, ws[n + 1])
    BY <1>6, TermStays
  <2>2. ASSUME NEW i \in 1..(n + 1) PROVE TermOk(s, s.terms[i]) /\ (i \in 1..Len(ws) => Fits(s, s.terms[i], ws[i]))
    <3>1. i \in 1..n \/ i = n + 1
      BY <1>2
    <3> QED BY <1>3, <1>4, <1>5, <2>1, <3>1
  <2> QED BY <1>3, <1>6, <2>2 DEF PlacesHold
<1>7. CASE Len(ws) = n /\ Wanted(s) = Append(ws, Sim!TypeOf(q, q.term))
  <2>1. PICK vs, type : vs = Wanted(s) /\ type = Sim!TypeOf(q, q.term)
    OBVIOUS
  <2>2. vs[n + 1] = type /\ \A i \in 1..n : vs[i] = ws[i]
    BY <1>2, <1>7, <2>1, ListAppended
  <2>3. Fits(s, q.term, type)
    <3>1. Fits(q, q.term, type)
      BY <2>1, SubtypeIs DEF Fits
    <3> QED BY <3>1, TermStays
  <2>4. ASSUME NEW i \in 1..(n + 1) PROVE TermOk(s, s.terms[i]) /\ Fits(s, s.terms[i], vs[i])
    <3>1. i \in 1..n \/ i = n + 1
      BY <1>2
    <3> QED BY <1>3, <1>4, <1>5, <1>7, <2>2, <2>3, <3>1
  <2> QED BY <1>3, <2>1, <2>4 DEF PlacesHold
<1> QED BY <1>1, <1>6, <1>7

LEMMA TermPlaced ==
  ASSUME NEW q, Building(q), Good(q) => TermOk(q, q.term), NEW s, s = Sim!WithTerm(q)
  PROVE  Building(s) /\ (Good(s) => Good(q) /\ s.problem = q.problem)
<1>1. CASE q.end # ""
  BY <1>1 DEF Sim!WithTerm
<1>2. CASE q.end = ""
  <2>1. PICK u, t, x, type : /\ u = Sim!Typed(q) /\ t = q.head.table /\ x = q.head.name
                             /\ type = Sim!TypeOf(q, q.term)
    OBVIOUS
  <2>2. s = [u EXCEPT !.terms = Append(@, q.term)]
    BY <1>2, <2>1 DEF Sim!WithTerm
  <2>3. Full(q) /\ t \in Heads
    BY <2>1 DEF Building
  <2>4. CASE q.head.fresh
    <3>1. u = Sim!AddParameter(q, t, x, type)
      BY <2>1, <2>4 DEF Sim!Typed
    <3>2. Widened(q, u, t, x, type)
      BY <2>3, <3>1, WidenedIs
    <3>3. Full(u) /\ u.success = q.success /\ u.end = q.end /\ SameRest(q, u) /\ u.head = q.head /\ u.terms = q.terms
      BY <2>3, <3>2 DEF Widened, Full
    <3>4. /\ Full(s) /\ s.success = q.success /\ s.end = q.end /\ s.head = q.head
          /\ s.terms = Append(q.terms, q.term) /\ Same(u, s) /\ s.frames = u.frames
      BY <2>2, <3>3 DEF Full, Core, Same
    <3>5. ASSUME Good(s) PROVE Sound(s) /\ HeadHolds(s) /\ PlacesHold(s) /\ FreshHolds(s) /\ s.problem = q.problem
      <4>1. Good(q) /\ Sound(q) /\ HeadHolds(q) /\ PlacesHold(q) /\ FreshHolds(q) /\ TermOk(q, q.term)
        BY <3>4, <3>5 DEF Building, Good
      <4>2. Len(Wanted(q)) = Len(q.terms) /\ Unused(q, t, x) /\ x \in DOMAIN q[t] /\ Wanted(q) = q[t][x]
        BY <2>1, <2>4, <4>1 DEF FreshHolds, HeadHolds, Wanted
      <4>3. Sound(u) /\ Refers(q, u) /\ Unused(u, t, x) /\ DOMAIN u[t] = DOMAIN q[t]
        BY <2>3, <3>2, <4>1, <4>2, WidenedSound
      <4>4. u[t][x] = Append(Wanted(q), type) /\ s[t] = u[t]
        BY <2>3, <3>2, <3>4, <4>2 DEF Widened, Same, Heads
      <4>5. Sound(s) /\ Unused(s, t, x)
        BY <3>4, <4>3, SameSound DEF Same, Unused
      <4>6. HeadHolds(s) /\ Wanted(s) = Append(Wanted(q), type)
        BY <2>1, <2>3, <3>4, <4>2, <4>3, <4>4 DEF HeadHolds, Wanted
      <4>7. Refers(q, s)
        BY <3>4, <4>3 DEF Refers, Same, ObjectType, Sim!ObjectNames
      <4>8. IsList(Wanted(q)) /\ IsList(q.terms)
        BY <4>1, WantedIs DEF PlacesHold
      <4>9. PlacesHold(s)
        BY <2>1, <3>4, <4>1, <4>2, <4>6, <4>7, <4>8, PlacesGrow
      <4>10. FreshHolds(s)
        <5>1. PICK ws, ts, v : ws = Wanted(q) /\ ts = q.terms /\ v = q.term
          OBVIOUS
        <5>2. Len(Append(ws, type)) = Len(ws) + 1 /\ Len(Append(ts, v)) = Len(ts) + 1
          BY <4>8, <5>1, ListAppended
        <5>3. Len(Wanted(s)) = Len(s.terms)
          BY <3>4, <4>2, <4>6, <5>1, <5>2
        <5>4. s.head.table = t /\ s.head.name = x
          BY <2>1, <3>4
        <5> QED BY <4>5, <5>3, <5>4 DEF FreshHolds
      <4> QED BY <3>3, <3>4, <4>5, <4>6, <4>9, <4>10 DEF SameRest, Same
    <3> QED BY <2>1, <2>3, <3>4, <3>5 DEF Building, Good
  <2>5. CASE ~q.head.fresh
    <3>1. PICK n, ws : n = Len(q.terms) /\ ws = Sim!Parameters(q)
      OBVIOUS
    <3>2. PICK c \in BOOLEAN : /\ u = Sim!Check(q, c)
                               /\ c /\ Len(ws) > n => Subtype(q.types, type, ws[n + 1])
      <4>1. PICK c \in BOOLEAN : c = Sim!Subtype(q.types, type, ws[n + 1])
        BY DEF Sim!Subtype
      <4>2. c => Subtype(q.types, type, ws[n + 1])
        BY <4>1, SubtypeIs
      <4>3. CASE Len(ws) > n
        <5>1. u = Sim!Check(q, c)
          BY <2>1, <2>5, <3>1, <4>1, <4>3 DEF Sim!Typed
        <5> QED BY <4>2, <5>1
      <4>4. CASE ~(Len(ws) > n)
        <5>1. u = Sim!Check(q, TRUE)
          BY <2>1, <2>5, <3>1, <4>4 DEF Sim!Typed, Sim!Check
        <5> QED BY <4>4, <5>1
      <4> QED BY <4>3, <4>4
    <3>3. Full(u) /\ u.head = q.head /\ (Good(u) => c /\ u = q)
      BY <2>3, <3>2 DEF Sim!Check, Sim!Fail, Full, Core, Good
    <3>4. /\ Full(s) /\ s.success = u.success /\ s.end = u.end /\ s.head = u.head
          /\ s.terms = Append(u.terms, q.term) /\ Same(u, s) /\ s.frames = u.frames
      BY <2>2, <3>3 DEF Full, Core, Same
    <3>5. ASSUME Good(s)
          PROVE  Good(q) /\ Sound(s) /\ HeadHolds(s) /\ PlacesHold(s) /\ FreshHolds(s) /\ s.problem = q.problem
      <4>1. u = q /\ Good(q) /\ c
        BY <3>3, <3>4, <3>5 DEF Good
      <4>2. Sound(q) /\ HeadHolds(q) /\ PlacesHold(q) /\ TermOk(q, q.term)
        BY <4>1 DEF Building
      <4>3. Sound(s) /\ Refers(q, s)
        BY <3>4, <4>1, <4>2, SameSound, SameRefers
      <4>4. ws = Wanted(q) /\ IsList(ws) /\ IsList(q.terms)
        BY <3>1, <4>2, WantedIs DEF PlacesHold
      <4>5. n + 1 \in 1..Len(ws) => Fits(q, q.term, ws[n + 1])
        <5>1. n \in Nat /\ Len(ws) \in Nat
          BY <3>1, <4>4, ListIs
        <5>2. n + 1 \in 1..Len(ws) => Len(ws) > n
          BY <5>1
        <5> QED BY <2>1, <3>2, <4>1, <5>2 DEF Fits
      <4>6. s.head = q.head /\ s[t] = q[t]
        BY <2>3, <3>4, <4>1 DEF Same, Heads
      <4>7. Wanted(s) = Wanted(q) /\ HeadHolds(s)
        BY <2>1, <4>2, <4>6 DEF Wanted, HeadHolds
      <4>8. PlacesHold(s)
        BY <3>1, <3>4, <4>1, <4>2, <4>3, <4>4, <4>5, <4>7, PlacesGrow
      <4>9. FreshHolds(s)
        BY <2>5, <4>6 DEF FreshHolds
      <4> QED BY <3>4, <4>1, <4>3, <4>7, <4>8, <4>9 DEF Same
    <3> QED BY <2>1, <2>3, <3>3, <3>4, <3>5 DEF Building
  <2> QED BY <2>4, <2>5
<1> QED BY <1>1, <1>2

\* mini-gpt may look into a type that is not there any more, which ends the reading.
LEMMA PlannerPlaces ==
  ASSUME NEW q
  PROVE  Plan!WithTerm(q) \in {Sim!WithTerm(q), [q EXCEPT !.end = "undefined"]}
<1>1. Plan!Typed(q) = Sim!Typed(q)
  <2>1. /\ Plan!Parameters(q) = Sim!Parameters(q) /\ Plan!TypeOf(q, q.term) = Sim!TypeOf(q, q.term)
        /\ \A t, x, v : Plan!AddParameter(q, t, x, v) = Sim!AddParameter(q, t, x, v)
        /\ \A c : Plan!Check(q, c) = Sim!Check(q, c)
    BY Shared
  <2>2. \A B : Plan!Subtype(q.types, Sim!TypeOf(q, q.term), B) = Sim!Subtype(q.types, Sim!TypeOf(q, q.term), B)
    BY SubtypeIs
  <2>3. CASE q.head.fresh
    <3>1. Plan!Typed(q) = Plan!AddParameter(q, q.head.table, q.head.name, Plan!TypeOf(q, q.term))
      BY <2>3 DEF Plan!Typed, Plan!Known
    <3>2. Sim!Typed(q) = Sim!AddParameter(q, q.head.table, q.head.name, Sim!TypeOf(q, q.term))
      BY <2>3 DEF Sim!Typed
    <3> QED BY <2>1, <3>1, <3>2
  <2>4. CASE ~q.head.fresh /\ Len(Sim!Parameters(q)) > Len(q.terms)
    BY <2>1, <2>2, <2>4 DEF Plan!Typed, Plan!Known, Sim!Typed
  <2>5. CASE ~q.head.fresh /\ ~(Len(Sim!Parameters(q)) > Len(q.terms))
    BY <2>1, <2>5 DEF Plan!Typed, Plan!Known, Sim!Typed
  <2> QED BY <2>3, <2>4, <2>5
<1> QED BY <1>1 DEF Plan!WithTerm, Sim!WithTerm

-----------------------------------------------------------------------------
\* The lists of a text, in mini-gpt.
LEMMA PlannerTermByTerm ==
  ASSUME NEW r, NEW S, NEW xs \in Seq(S)
  PROVE  \E f : /\ f[0] = r /\ f[Len(xs)] = Plan!AddTerms(r, xs)
               /\ \A i \in 1..Len(xs) : f[i] = Plan!AddTerm(f[i - 1], xs[i])
<1> DEFINE n == Len(xs)
           After(f, m) == f = [i \in 0..m |-> IF i = 0 THEN r ELSE Plan!AddTerm(f[i - 1], xs[i])]
           after == CHOOSE f : After(f, n)
           T == {m \in 0..n : \E f : After(f, m)}
<1>1. n \in Nat
  OBVIOUS
<1>2. Plan!AddTerms(r, xs) = after[n]
  BY DEF Plan!AddTerms
<1> HIDE DEF n
<1>3. 0 \in T
  <2>1. PICK f : f = [i \in 0..0 |-> r]
    OBVIOUS
  <2>2. \A i \in 0..0 : f[i] = IF i = 0 THEN r ELSE Plan!AddTerm(f[i - 1], xs[i])
    BY <2>1
  <2>3. f = [i \in 0..0 |-> f[i]]
    BY <2>1
  <2>4. After(f, 0)
    BY <2>2, <2>3
  <2> HIDE DEF After
  <2> QED BY <1>1, <2>4
<1>4. ASSUME NEW m \in 1..n, m - 1 \in T PROVE m \in T
  <2>1. PICK f : After(f, m - 1)
    BY <1>4
  <2>2. PICK g : g = [i \in 0..m |-> IF i = m THEN Plan!AddTerm(f[m - 1], xs[m]) ELSE f[i]]
    OBVIOUS
  <2>3. \A i \in 0..(m - 1) : f[i] = IF i = 0 THEN r ELSE Plan!AddTerm(f[i - 1], xs[i])
    BY <1>1, <2>1
  <2>4. ASSUME NEW i \in 0..m PROVE g[i] = IF i = 0 THEN r ELSE Plan!AddTerm(g[i - 1], xs[i])
    <3>1. CASE i = m
      BY <1>1, <2>2, <3>1
    <3>2. CASE i # m
      <4>1. i \in 0..(m - 1) /\ g[i] = f[i] /\ (i # 0 => g[i - 1] = f[i - 1])
        BY <1>1, <2>2, <3>2
      <4> QED BY <2>3, <4>1
    <3> QED BY <3>1, <3>2
  <2>5. After(g, m)
    <3>1. g = [i \in 0..m |-> g[i]]
      BY <2>2
    <3> QED BY <2>4, <3>1
  <2> HIDE DEF After
  <2> QED BY <1>1, <2>5
<1>5. After(after, n)
  <2> HIDE DEF After
  <2>1. 0..n \subseteq T
    <3> HIDE DEF T
    <3> QED BY <1>1, <1>3, <1>4, UpTo
  <2>2. \E f : After(f, n)
    BY <1>1, <2>1
  <2> QED BY <2>2
<1>6. after[0] = r /\ \A i \in 1..n : after[i] = Plan!AddTerm(after[i - 1], xs[i])
  <2> HIDE DEF after
  <2>1. after = [i \in 0..n |-> IF i = 0 THEN r ELSE Plan!AddTerm(after[i - 1], xs[i])]
    BY <1>5
  <2> QED BY <1>1, <2>1
<1> USE DEF n
<1> HIDE DEF after, After, T
<1> QED BY <1>2, <1>6

LEMMA PlannerParameterByParameter ==
  ASSUME NEW r, NEW t, NEW x, NEW S, NEW xs \in Seq(S)
  PROVE  \E f : /\ f[0] = r /\ f[Len(xs)] = Plan!AddParameters(r, t, x, xs)
               /\ \A i \in 1..Len(xs) : f[i] = Plan!AddParameter(Plan!TypeSpec(f[i - 1], xs[i]), t, x, Plan!Union(xs[i]))
<1> DEFINE n == Len(xs)
           After(f, m) == f = [i \in 0..m |-> IF i = 0 THEN r ELSE Plan!AddParameter(Plan!TypeSpec(f[i - 1], xs[i]), t, x, Plan!Union(xs[i]))]
           after == CHOOSE f : After(f, n)
           T == {m \in 0..n : \E f : After(f, m)}
<1>1. n \in Nat
  OBVIOUS
<1>2. Plan!AddParameters(r, t, x, xs) = after[n]
  BY DEF Plan!AddParameters
<1> HIDE DEF n
<1>3. 0 \in T
  <2>1. PICK f : f = [i \in 0..0 |-> r]
    OBVIOUS
  <2>2. \A i \in 0..0 : f[i] = IF i = 0 THEN r ELSE Plan!AddParameter(Plan!TypeSpec(f[i - 1], xs[i]), t, x, Plan!Union(xs[i]))
    BY <2>1
  <2>3. f = [i \in 0..0 |-> f[i]]
    BY <2>1
  <2>4. After(f, 0)
    BY <2>2, <2>3
  <2> HIDE DEF After
  <2> QED BY <1>1, <2>4
<1>4. ASSUME NEW m \in 1..n, m - 1 \in T PROVE m \in T
  <2>1. PICK f : After(f, m - 1)
    BY <1>4
  <2>2. PICK g : g = [i \in 0..m |-> IF i = m THEN Plan!AddParameter(Plan!TypeSpec(f[m - 1], xs[m]), t, x, Plan!Union(xs[m])) ELSE f[i]]
    OBVIOUS
  <2>3. \A i \in 0..(m - 1) : f[i] = IF i = 0 THEN r ELSE Plan!AddParameter(Plan!TypeSpec(f[i - 1], xs[i]), t, x, Plan!Union(xs[i]))
    BY <1>1, <2>1
  <2>4. ASSUME NEW i \in 0..m PROVE g[i] = IF i = 0 THEN r ELSE Plan!AddParameter(Plan!TypeSpec(g[i - 1], xs[i]), t, x, Plan!Union(xs[i]))
    <3>1. CASE i = m
      BY <1>1, <2>2, <3>1
    <3>2. CASE i # m
      <4>1. i \in 0..(m - 1) /\ g[i] = f[i] /\ (i # 0 => g[i - 1] = f[i - 1])
        BY <1>1, <2>2, <3>2
      <4> QED BY <2>3, <4>1
    <3> QED BY <3>1, <3>2
  <2>5. After(g, m)
    <3>1. g = [i \in 0..m |-> g[i]]
      BY <2>2
    <3> QED BY <2>4, <3>1
  <2> HIDE DEF After
  <2> QED BY <1>1, <2>5
<1>5. After(after, n)
  <2> HIDE DEF After
  <2>1. 0..n \subseteq T
    <3> HIDE DEF T
    <3> QED BY <1>1, <1>3, <1>4, UpTo
  <2>2. \E f : After(f, n)
    BY <1>1, <2>1
  <2> QED BY <2>2
<1>6. after[0] = r /\ \A i \in 1..n : after[i] = Plan!AddParameter(Plan!TypeSpec(after[i - 1], xs[i]), t, x, Plan!Union(xs[i]))
  <2> HIDE DEF after
  <2>1. after = [i \in 0..n |-> IF i = 0 THEN r ELSE Plan!AddParameter(Plan!TypeSpec(after[i - 1], xs[i]), t, x, Plan!Union(xs[i]))]
    BY <1>5
  <2> QED BY <1>1, <2>1
<1> USE DEF n
<1> HIDE DEF after, After, T
<1> QED BY <1>2, <1>6

LEMMA PlannerVariableByVariable ==
  ASSUME NEW r, NEW S, NEW xs \in Seq(S)
  PROVE  \E f : /\ f[0] = r /\ f[Len(xs)] = Plan!AddVariables(r, xs)
               /\ \A i \in 1..Len(xs) : f[i] = Plan!AddVariable(Plan!TypeSpec(f[i - 1], xs[i][2]), xs[i][1], Plan!Union(xs[i][2]))
<1> DEFINE n == Len(xs)
           After(f, m) == f = [i \in 0..m |-> IF i = 0 THEN r ELSE Plan!AddVariable(Plan!TypeSpec(f[i - 1], xs[i][2]), xs[i][1], Plan!Union(xs[i][2]))]
           after == CHOOSE f : After(f, n)
           T == {m \in 0..n : \E f : After(f, m)}
<1>1. n \in Nat
  OBVIOUS
<1>2. Plan!AddVariables(r, xs) = after[n]
  BY DEF Plan!AddVariables
<1> HIDE DEF n
<1>3. 0 \in T
  <2>1. PICK f : f = [i \in 0..0 |-> r]
    OBVIOUS
  <2>2. \A i \in 0..0 : f[i] = IF i = 0 THEN r ELSE Plan!AddVariable(Plan!TypeSpec(f[i - 1], xs[i][2]), xs[i][1], Plan!Union(xs[i][2]))
    BY <2>1
  <2>3. f = [i \in 0..0 |-> f[i]]
    BY <2>1
  <2>4. After(f, 0)
    BY <2>2, <2>3
  <2> HIDE DEF After
  <2> QED BY <1>1, <2>4
<1>4. ASSUME NEW m \in 1..n, m - 1 \in T PROVE m \in T
  <2>1. PICK f : After(f, m - 1)
    BY <1>4
  <2>2. PICK g : g = [i \in 0..m |-> IF i = m THEN Plan!AddVariable(Plan!TypeSpec(f[m - 1], xs[m][2]), xs[m][1], Plan!Union(xs[m][2])) ELSE f[i]]
    OBVIOUS
  <2>3. \A i \in 0..(m - 1) : f[i] = IF i = 0 THEN r ELSE Plan!AddVariable(Plan!TypeSpec(f[i - 1], xs[i][2]), xs[i][1], Plan!Union(xs[i][2]))
    BY <1>1, <2>1
  <2>4. ASSUME NEW i \in 0..m PROVE g[i] = IF i = 0 THEN r ELSE Plan!AddVariable(Plan!TypeSpec(g[i - 1], xs[i][2]), xs[i][1], Plan!Union(xs[i][2]))
    <3>1. CASE i = m
      BY <1>1, <2>2, <3>1
    <3>2. CASE i # m
      <4>1. i \in 0..(m - 1) /\ g[i] = f[i] /\ (i # 0 => g[i - 1] = f[i - 1])
        BY <1>1, <2>2, <3>2
      <4> QED BY <2>3, <4>1
    <3> QED BY <3>1, <3>2
  <2>5. After(g, m)
    <3>1. g = [i \in 0..m |-> g[i]]
      BY <2>2
    <3> QED BY <2>4, <3>1
  <2> HIDE DEF After
  <2> QED BY <1>1, <2>5
<1>5. After(after, n)
  <2> HIDE DEF After
  <2>1. 0..n \subseteq T
    <3> HIDE DEF T
    <3> QED BY <1>1, <1>3, <1>4, UpTo
  <2>2. \E f : After(f, n)
    BY <1>1, <2>1
  <2> QED BY <2>2
<1>6. after[0] = r /\ \A i \in 1..n : after[i] = Plan!AddVariable(Plan!TypeSpec(after[i - 1], xs[i][2]), xs[i][1], Plan!Union(xs[i][2]))
  <2> HIDE DEF after
  <2>1. after = [i \in 0..n |-> IF i = 0 THEN r ELSE Plan!AddVariable(Plan!TypeSpec(after[i - 1], xs[i][2]), xs[i][1], Plan!Union(xs[i][2]))]
    BY <1>5
  <2> QED BY <1>1, <2>1
<1> USE DEF n
<1> HIDE DEF after, After, T
<1> QED BY <1>2, <1>6

-----------------------------------------------------------------------------
LEMMA TermAdded == ASSUME NEW r, NEW x PROVE Builds(r, Sim!AddTerm(r, x)) /\ Builds(r, Plan!AddTerm(r, x))
<1>1. SUFFICES ASSUME Building(r)
               PROVE  \A s \in {Sim!AddTerm(r, x), Plan!AddTerm(r, x)} : Building(s) /\ (Good(s) => Good(r) /\ s.problem = r.problem)
  BY DEF Builds
<1>2. CASE r.end # ""
  BY <1>1, <1>2 DEF Sim!AddTerm, Plan!AddTerm
<1>3. CASE r.end = ""
  <2>1. Typing(r)
    BY <1>1 DEF Building, Typing
  <2>2. ASSUME NEW q \in {Sim!MakeTerm(r, x), Plan!MakeTerm(r, x)}
        PROVE  Building(q) /\ (Good(q) => Good(r) /\ q.problem = r.problem /\ TermOk(q, q.term))
    <3>1. Full(q) /\ q.head = r.head /\ (Good(q) => Good(r) /\ Keeps(r, q) /\ Sound(q) /\ TermOk(q, q.term))
      BY <2>1, TermMade
    <3>2. ASSUME Good(q) PROVE HeadHolds(q) /\ PlacesHold(q) /\ FreshHolds(q)
      <4>1. Keeps(r, q) /\ HeadHolds(r) /\ PlacesHold(r) /\ FreshHolds(r)
        BY <1>1, <3>1, <3>2 DEF Building
      <4>2. \A t \in Heads : q[t] = r[t]
        BY <4>1 DEF Keeps, Heads
      <4>3. HeadHolds(q) /\ Wanted(q) = Wanted(r)
        BY <3>1, <4>1, <4>2 DEF HeadHolds, Wanted
      <4>4. q.terms = r.terms /\ q.atoms = r.atoms /\ Refers(r, q)
        BY <4>1 DEF Keeps
      <4>5. PlacesHold(q)
        BY <4>1, <4>3, <4>4, TermStays DEF PlacesHold
      <4>6. FreshHolds(q)
        BY <3>1, <4>1, <4>3, <4>4 DEF FreshHolds, Unused
      <4> QED BY <4>3, <4>5, <4>6
    <3> QED BY <1>1, <3>1, <3>2 DEF Building, Keeps
  <2>3. PICK q : q = Sim!MakeTerm(r, x)
    OBVIOUS
  <2>4. Building(Sim!WithTerm(q)) /\ (Good(Sim!WithTerm(q)) => Good(r) /\ Sim!WithTerm(q).problem = r.problem)
    BY <2>2, <2>3, TermPlaced
  <2>5. PICK u : u = Plan!MakeTerm(r, x)
    OBVIOUS
  <2>6. PICK v : v = [u EXCEPT !.end = "undefined"]
    OBVIOUS
  <2>7. Building(u)
    BY <2>2, <2>5
  <2>8. Building(v) /\ ~Good(v)
    BY <2>6, <2>7 DEF Building, Good, Full, Core
  <2>9. Building(Sim!WithTerm(u)) /\ (Good(Sim!WithTerm(u)) => Good(r) /\ Sim!WithTerm(u).problem = r.problem)
    BY <2>2, <2>5, TermPlaced
  <2>10. Plan!WithTerm(u) \in {Sim!WithTerm(u), v}
    BY <2>6, PlannerPlaces
  <2>11. Sim!AddTerm(r, x) = Sim!WithTerm(q) /\ Plan!AddTerm(r, x) = Plan!WithTerm(u)
    BY <1>3, <2>3, <2>5 DEF Sim!AddTerm, Plan!AddTerm
  <2> QED BY <2>4, <2>8, <2>9, <2>10, <2>11
<1> QED BY <1>2, <1>3

LEMMA BuildsTwice == ASSUME NEW r, NEW s, NEW u, Builds(r, s), Builds(s, u) PROVE Builds(r, u)
BY DEF Builds

LEMMA TermsAdded ==
  ASSUME NEW r, NEW S, NEW xs \in Seq(S)
  PROVE  Builds(r, Sim!AddTerms(r, xs)) /\ Builds(r, Plan!AddTerms(r, xs))
<1>1. PICK f : /\ f[0] = r /\ f[Len(xs)] = Sim!AddTerms(r, xs)
               /\ \A i \in 1..Len(xs) : f[i] = Sim!AddTerm(f[i - 1], xs[i])
  BY TermByTerm
<1>2. PICK g : /\ g[0] = r /\ g[Len(xs)] = Plan!AddTerms(r, xs)
               /\ \A i \in 1..Len(xs) : g[i] = Plan!AddTerm(g[i - 1], xs[i])
  BY PlannerTermByTerm
<1>3. PICK n \in Nat : n = Len(xs)
  OBVIOUS
<1>4. PICK T : T = {i \in 0..n : Builds(r, f[i]) /\ Builds(r, g[i])}
  OBVIOUS
<1>5. 0 \in T
  <2>1. Builds(r, r)
    BY DEF Builds
  <2> QED BY <1>1, <1>2, <1>3, <1>4, <2>1
<1>6. ASSUME NEW i \in 1..n, i - 1 \in T PROVE i \in T
  <2>1. Builds(r, f[i - 1]) /\ Builds(r, g[i - 1])
    BY <1>4, <1>6
  <2>2. Builds(f[i - 1], f[i]) /\ Builds(g[i - 1], g[i])
    BY <1>1, <1>2, <1>3, TermAdded
  <2>3. Builds(r, f[i]) /\ Builds(r, g[i])
    BY <2>1, <2>2, BuildsTwice
  <2> QED BY <1>3, <1>4, <2>3
<1>7. n \in T
  BY <1>3, <1>5, <1>6, UpTo
<1> QED BY <1>1, <1>2, <1>3, <1>4, <1>7

LEMMA AtomMade ==
  ASSUME NEW r, Building(r), NEW s, s = Sim!MakeAtom(r)
  PROVE  Typing(s) /\ (Good(s) => Good(r) /\ s.problem = r.problem)
<1>1. CASE r.end # ""
  BY <1>1 DEF Sim!MakeAtom, Building, Typing
<1>2. CASE r.end = ""
  <2>1. PICK u, a, c : /\ u = Sim!Check(r, c) /\ c = (Len(r.terms) = Len(Sim!Parameters(r)))
                       /\ a = [table |-> r.head.table, name |-> r.head.name, terms |-> r.terms]
    OBVIOUS
  <2>2. s = [u EXCEPT !.atoms = @ \cup {a}, !.head = [@ EXCEPT !.table = "", !.fresh = FALSE]]
    BY <1>2, <2>1 DEF Sim!MakeAtom
  <2>3. Full(r)
    BY DEF Building
  <2>4. Full(u) /\ (Good(u) => c /\ u = r)
    BY <2>1, <2>3 DEF Sim!Check, Sim!Fail, Full, Core, Good
  <2>5. Full(s) /\ s.success = u.success /\ s.end = u.end
    BY <2>2, <2>4 DEF Full, Core
  <2>6. ASSUME Good(s) PROVE Good(r) /\ Sound(s) /\ s.problem = r.problem
    <3>1. Good(r) /\ u = r /\ c
      BY <2>4, <2>5, <2>6 DEF Good
    <3>2. Sound(r) /\ HeadHolds(r) /\ PlacesHold(r)
      BY <3>1 DEF Building
    <3>3. /\ s.types = r.types /\ s.constants = r.constants /\ s.objects = r.objects /\ s.problem = r.problem
          /\ s.variables = r.variables /\ s.frames = r.frames
          /\ s.predicates = r.predicates /\ s.functions = r.functions /\ s.atoms = r.atoms \cup {a}
      BY <2>2, <2>3, <3>1 DEF Full, Core
    <3>4. Refers(r, s)
      BY <3>3 DEF Refers, ObjectType, Sim!ObjectNames
    <3>5. FramesHold(s) /\ DomainOnly(s)
      BY <3>2, <3>3 DEF Sound, FramesHold, DomainOnly
    <3>6. \A t \in Heads : s[t] = r[t]
      BY <3>3 DEF Heads
    <3>7. ParamsListed(s)
      BY <3>2, <3>6 DEF Sound, ParamsListed
    <3>8. AtomOk(r, a)
      <4>1. a.table = r.head.table /\ a.name = r.head.name /\ a.terms = r.terms
        BY <2>1
      <4>2. r[a.table][a.name] = Wanted(r) /\ Sim!Parameters(r) = Wanted(r) /\ IsList(Wanted(r))
        BY <3>2, <4>1, WantedIs DEF Wanted
      <4>3. Len(r.terms) = Len(Wanted(r)) /\ Len(Wanted(r)) \in Nat
        BY <2>1, <3>1, <4>2, ListIs
      <4> QED BY <3>2, <4>1, <4>2, <4>3 DEF AtomOk, HeadHolds, PlacesHold
    <3>9. ASSUME NEW b \in s.atoms, b.table # "=" PROVE AtomOk(s, b)
      <4>1. AtomOk(r, b)
        BY <3>2, <3>3, <3>8, <3>9 DEF Sound, AtomsHold
      <4>2. b.name \in DOMAIN s[b.table] /\ s[b.table][b.name] = r[b.table][b.name]
        BY <3>6, <4>1 DEF AtomOk
      <4> QED BY <3>4, <4>1, <4>2, AtomStays
    <3> QED BY <3>1, <3>3, <3>5, <3>7, <3>9 DEF Sound, AtomsHold
  <2> QED BY <2>5, <2>6 DEF Typing
<1> QED BY <1>1, <1>2

-----------------------------------------------------------------------------
\* What is read in formulas and effects.

LEMMA AtomRead ==
  ASSUME NEW r, NEW p, NEW f, NEW place, NEW S, NEW xs \in Seq(S)
  PROVE  /\ Onward(r, Sim!ReadAtom(r, p, xs)) /\ Onward(r, Plan!ReadAtom(r, p, xs))
         /\ Onward(r, Sim!ReadFluent(r, f, xs, place)) /\ Onward(r, Plan!ReadApplication(r, f, xs))
<1>1. SUFFICES ASSUME Typing(r)
               PROVE  \A s \in {Sim!ReadAtom(r, p, xs), Plan!ReadAtom(r, p, xs),
                                Sim!ReadFluent(r, f, xs, place), Plan!ReadApplication(r, f, xs)} :
                        Typing(s) /\ (Good(s) => Good(r) /\ s.problem = r.problem)
  BY DEF Onward
<1>2. ASSUME NEW q \in {Sim!PrepareAtom(r, p), Sim!PrepareFluent(r, f, place), Plan!PrepareApplication(r, f)},
             NEW u \in {Sim!AddTerms(q, xs), Plan!AddTerms(q, xs)}, NEW s, s = Sim!MakeAtom(u)
      PROVE  Typing(s) /\ (Good(s) => Good(r) /\ s.problem = r.problem)
  <2>1. Building(q) /\ (Good(q) => Good(r) /\ q.problem = r.problem)
    BY <1>1, AtomPrepared, FluentPrepared
  <2>2. Building(u) /\ (Good(u) => Good(q) /\ u.problem = q.problem)
    <3>1. Builds(q, Sim!AddTerms(q, xs)) /\ Builds(q, Plan!AddTerms(q, xs))
      BY TermsAdded
    <3> QED BY <2>1, <3>1 DEF Builds
  <2>3. Typing(s) /\ (Good(s) => Good(u) /\ s.problem = u.problem)
    BY <1>2, <2>2, AtomMade
  <2> QED BY <2>1, <2>2, <2>3
<1>3. Plan!PrepareAtom(r, p) = Sim!PrepareAtom(r, p) /\ \A u : Plan!MakeAtom(u) = Sim!MakeAtom(u)
  BY Shared
<1>4. /\ Sim!ReadAtom(r, p, xs) = Sim!MakeAtom(Sim!AddTerms(Sim!PrepareAtom(r, p), xs))
      /\ Plan!ReadAtom(r, p, xs) = Sim!MakeAtom(Plan!AddTerms(Sim!PrepareAtom(r, p), xs))
      /\ Sim!ReadFluent(r, f, xs, place) = Sim!MakeAtom(Sim!AddTerms(Sim!PrepareFluent(r, f, place), xs))
      /\ Plan!ReadApplication(r, f, xs) = Sim!MakeAtom(Plan!AddTerms(Plan!PrepareApplication(r, f), xs))
  BY <1>3 DEF Sim!ReadAtom, Plan!ReadAtom, Sim!ReadFluent, Plan!ReadApplication
<1> QED BY <1>2, <1>4

LEMMA ChangeRead ==
  ASSUME NEW r, NEW p, NEW f, NEW op, NEW constant, NEW S, NEW xs \in Seq(S)
  PROVE  /\ Onward(r, Sim!ReadChange(r, p, xs)) /\ Onward(r, Plan!ReadChange(r, p, xs))
         /\ Onward(r, Sim!ReadUpdate(r, op, f, xs, constant)) /\ Onward(r, Plan!ReadUpdate(r, op, f, xs, constant))
<1>1. \A q, t, x : Onward(q, Sim!MakeDynamic(q, t, x)) /\ Plan!MakeDynamic(q, t, x) = Sim!MakeDynamic(q, t, x)
  BY IdleNoted, IdleSteady, Shared
<1>2. ASSUME NEW q
      PROVE  Onward(q, Sim!MakeUpdate(q, op, f, constant)) /\ Onward(q, Plan!MakeUpdate(q, op, f, constant))
  <2>1. PICK c \in BOOLEAN : c = (op \in {"increase", "decrease"} /\ constant)
    OBVIOUS
  <2>2. Sim!MakeUpdate(q, op, f, constant) \in {Sim!Check(q, c), Sim!Assume(q, "fluents")}
    BY <2>1 DEF Sim!MakeUpdate
  <2>3. Plan!MakeUpdate(q, op, f, constant) \in {Sim!Check(q, c), Sim!Assume(q, "fluents")}
    BY <2>1, Shared DEF Plan!MakeUpdate
  <2>4. Onward(q, Sim!Check(q, c)) /\ Onward(q, Sim!Assume(q, "fluents"))
    BY IdleFailed, IdleNoted, IdleSteady
  <2> QED BY <2>2, <2>3, <2>4
<1>3. /\ Onward(r, Sim!ReadAtom(r, p, xs)) /\ Onward(r, Plan!ReadAtom(r, p, xs))
      /\ Onward(r, Sim!ReadFluent(r, f, xs, "effect")) /\ Onward(r, Plan!ReadApplication(r, f, xs))
  BY AtomRead
<1>4. Onward(r, Sim!ReadChange(r, p, xs)) /\ Onward(r, Plan!ReadChange(r, p, xs))
  BY <1>1, <1>3, OnwardTwice DEF Sim!ReadChange, Plan!ReadChange
<1>5. Onward(r, Sim!ReadUpdate(r, op, f, xs, constant))
  <2>1. PICK q, u : q = Sim!ReadFluent(r, f, xs, "effect") /\ u = Sim!MakeUpdate(q, op, f, constant)
    OBVIOUS
  <2>2. Onward(r, u)
    BY <1>2, <1>3, <2>1, OnwardTwice
  <2> QED BY <1>1, <2>1, <2>2, OnwardTwice DEF Sim!ReadUpdate
<1>6. Onward(r, Plan!ReadUpdate(r, op, f, xs, constant))
  <2>1. PICK q, u : q = Plan!ReadApplication(r, f, xs) /\ u = Plan!MakeUpdate(q, op, f, constant)
    OBVIOUS
  <2>2. Onward(r, u)
    BY <1>2, <1>3, <2>1, OnwardTwice
  <2> QED BY <1>1, <2>1, <2>2, OnwardTwice DEF Plan!ReadUpdate
<1> QED BY <1>4, <1>5, <1>6

\* An equality has no parameters to be typed.
LEMMA EqualityAdded ==
  ASSUME NEW r, Full(r), NEW E, \A a \in E : a.table = "=", NEW s, s = [r EXCEPT !.atoms = @ \cup E]
  PROVE  Onward(r, s)
<1>1. /\ Full(s) /\ (Good(s) => Good(r)) /\ s.problem = r.problem /\ s.frames = r.frames
      /\ s.types = r.types /\ s.constants = r.constants /\ s.objects = r.objects
      /\ s.variables = r.variables /\ s.predicates = r.predicates /\ s.functions = r.functions
      /\ s.atoms = r.atoms \cup E
  BY DEF Full, Core, Good
<1>2. ASSUME Sound(r) PROVE Sound(s)
  <2>1. PICK u : u = [s EXCEPT !.atoms = r.atoms]
    OBVIOUS
  <2>2. \A t \in Heads : s[t] = r[t]
    BY <1>1 DEF Heads
  <2>3. Refers(r, s)
    BY <1>1 DEF Refers, ObjectType, Sim!ObjectNames
  <2>4. ParamsListed(s) /\ FramesHold(s) /\ DomainOnly(s)
    BY <1>1, <1>2, <2>2 DEF Sound, ParamsListed, FramesHold, DomainOnly
  <2>5. ASSUME NEW a \in s.atoms, a.table # "=" PROVE AtomOk(s, a)
    <3>1. AtomOk(r, a)
      BY <1>1, <1>2, <2>5 DEF Sound, AtomsHold
    <3>2. a.name \in DOMAIN s[a.table] /\ s[a.table][a.name] = r[a.table][a.name]
      BY <2>2, <3>1 DEF AtomOk
    <3> QED BY <2>3, <3>1, <3>2, AtomStays
  <2> QED BY <2>4, <2>5 DEF Sound, AtomsHold
<1> QED BY <1>1, <1>2 DEF Onward, Typing

LEMMA EqualTerm == ASSUME NEW r, NEW x PROVE Onward(r, Sim!ReadEqualTerm(r, x)) /\ Onward(r, Plan!ReadEqualTerm(r, x))
<1>1. Onward(r, Sim!MakeTerm(r, x)) /\ Onward(r, Plan!MakeTerm(r, x))
  BY TermMade DEF Onward, Typing, Keeps
<1>2. <<>> \in Seq({})
  OBVIOUS
<1>3. Onward(r, Sim!ReadFluent(r, x, <<>>, "formula")) /\ Onward(r, Plan!ReadApplication(r, x, <<>>))
  BY <1>2, AtomRead
<1>4. Sim!ReadEqualTerm(r, x) \in {r, Sim!ReadFluent(r, x, <<>>, "formula"), Sim!MakeTerm(r, x)}
  BY DEF Sim!ReadEqualTerm
<1>5. Plan!ReadEqualTerm(r, x) \in {r, Plan!ReadApplication(r, x, <<>>), Plan!MakeTerm(r, x)}
  BY DEF Plan!ReadEqualTerm
<1> QED BY <1>1, <1>3, <1>4, <1>5, OnwardTwice

LEMMA EqualMade ==
  ASSUME NEW r, NEW t, NEW fluents
  PROVE  Onward(r, Sim!MakeEqual(r, t, fluents)) /\ Onward(r, Plan!MakeEqual(r, t, fluents))
<1>1. PICK a : a = [table |-> "=", name |-> "", terms |-> <<t, r.term>>]
  OBVIOUS
<1>2. a.table = "="
  BY <1>1
<1>3. PICK s, u, v : s = [r EXCEPT !.atoms = @ \cup {a}] /\ u = [r EXCEPT !.atoms = @ \cup {}] /\ v = [r EXCEPT !.end = "undefined"]
  OBVIOUS
<1>4. Onward(r, s) /\ Onward(r, u)
  <2>1. SUFFICES ASSUME Typing(r) PROVE Onward(r, s) /\ Onward(r, u)
    BY DEF Onward
  <2>2. Full(r) /\ (\A b \in {a} : b.table = "=") /\ \A b \in {} : b.table = "="
    BY <1>2, <2>1 DEF Typing
  <2>3. Onward(r, s)
    BY <1>3, <2>2, EqualityAdded
  <2>4. Onward(r, u)
    BY <1>3, <2>2, EqualityAdded
  <2> QED BY <2>3, <2>4
<1>5. Onward(r, v) /\ Onward(r, Sim!Fail(r)) /\ Onward(r, r)
  <2>1. Idle(r, v)
    BY <1>3, IdleEnded
  <2>2. Idle(r, Sim!Fail(r))
    BY IdleFailed
  <2> QED BY <2>1, <2>2, IdleSteady, OnwardTwice
<1>6. Sim!MakeEqual(r, t, fluents) \in {r, Sim!Fail(r), s, u}
  BY <1>1, <1>3 DEF Sim!MakeEqual
<1>7. Plan!MakeEqual(r, t, fluents) \in {r, Sim!Fail(r), s, u, v}
  BY <1>1, <1>3, Shared DEF Plan!MakeEqual
<1> QED BY <1>4, <1>5, <1>6, <1>7

LEMMA EqualRead == ASSUME NEW r, NEW x, NEW y PROVE Onward(r, Sim!ReadEqual(r, x, y)) /\ Onward(r, Plan!ReadEqual(r, x, y))
<1>1. PICK q : q = Sim!Assume(r, "equality")
  OBVIOUS
<1>2. Onward(r, q)
  BY <1>1, IdleNoted, IdleSteady
<1>3. PICK fluents : fluents = <<x \in DOMAIN r.functions, y \in DOMAIN r.functions>>
  OBVIOUS
<1>4. Onward(r, Sim!ReadEqual(r, x, y))
  <2>1. PICK s, u : s = Sim!ReadEqualTerm(q, x) /\ u = Sim!ReadEqualTerm(s, y)
    OBVIOUS
  <2>2. Onward(r, u)
    BY <1>2, <2>1, EqualTerm, OnwardTwice
  <2>3. Sim!ReadEqual(r, x, y) = Sim!MakeEqual(u, s.term, fluents)
    BY <1>1, <1>3, <2>1 DEF Sim!ReadEqual, Sim!ReadSecond
  <2> QED BY <2>2, <2>3, EqualMade, OnwardTwice
<1>5. Onward(r, Plan!ReadEqual(r, x, y))
  <2>1. PICK s, u : s = Plan!ReadEqualTerm(q, x) /\ u = Plan!ReadEqualTerm(s, y)
    OBVIOUS
  <2>2. Onward(r, u)
    BY <1>2, <2>1, EqualTerm, OnwardTwice
  <2>3. Plan!ReadEqual(r, x, y) = Plan!MakeEqual(u, s.term, fluents)
    BY <1>1, <1>3, <2>1, Shared DEF Plan!ReadEqual, Plan!ReadSecond
  <2> QED BY <2>2, <2>3, EqualMade, OnwardTwice
<1> QED BY <1>4, <1>5

LEMMA OutcomesRead ==
  ASSUME NEW r, NEW w, NEW unit
  PROVE  Onward(r, Sim!ReadOutcomes(r, w, unit)) /\ Onward(r, Plan!ReadOutcomes(r, w, unit))
<1>1. PICK q : q = Sim!Assume(r, "probabilistic-effects")
  OBVIOUS
<1>2. Onward(r, q)
  BY <1>1, IdleNoted, IdleSteady
<1>3. \E c \in BOOLEAN : Sim!ReadOutcomes(r, w, unit) = Sim!Check(q, c)
  BY <1>1 DEF Sim!ReadOutcomes
<1>4. \E c \in BOOLEAN : Plan!ReadOutcomes(r, w, unit) = Sim!Check(q, c)
  BY <1>1, Shared DEF Plan!ReadOutcomes
<1>5. \A c \in BOOLEAN : Onward(q, Sim!Check(q, c))
  BY IdleFailed, IdleSteady
<1> QED BY <1>2, <1>3, <1>4, <1>5, OnwardTwice

-----------------------------------------------------------------------------
\* Variables and their frames.

Within(fs, n) == IsList(fs) /\ \A i \in 1..Len(fs) : \A x \in DOMAIN fs[i] : fs[i][x] \in 1..n

HoldWith(r, vs, fs) ==
  FramesHold(r) => /\ IsList(vs) /\ Within(fs, Len(vs))
                   /\ \A v \in 1..Len(r.variables) : v \in 1..Len(vs) /\ vs[v] = r.variables[v]

LEMMA FramesChanged ==
  ASSUME NEW r, NEW fs, NEW vs, NEW s, s = [r EXCEPT !.variables = vs, !.frames = fs], HoldWith(r, vs, fs)
  PROVE  Onward(r, s)
<1>1. SUFFICES ASSUME Typing(r) PROVE Typing(s) /\ (Good(s) => Good(r) /\ s.problem = r.problem)
  BY DEF Onward
<1>2. /\ Full(s) /\ (Good(s) => Good(r)) /\ s.problem = r.problem
      /\ s.types = r.types /\ s.constants = r.constants /\ s.objects = r.objects
      /\ s.predicates = r.predicates /\ s.functions = r.functions /\ s.atoms = r.atoms
      /\ s.variables = vs /\ s.frames = fs
  BY <1>1 DEF Typing, Full, Core, Good
<1>3. ASSUME Sound(r) PROVE Sound(s)
  <2>1. FramesHold(s)
    BY <1>2, <1>3 DEF Sound, FramesHold, Within, HoldWith
  <2>2. Refers(r, s)
    BY <1>2, <1>3 DEF Sound, HoldWith, Refers, ObjectType, Sim!ObjectNames
  <2>3. DomainOnly(s)
    BY <1>2, <1>3 DEF Sound, DomainOnly
  <2> QED BY <1>2, <1>3, <2>1, <2>2, <2>3, RefersSound
<1> QED BY <1>1, <1>2, <1>3 DEF Typing

LEMMA FramePushed ==
  ASSUME NEW r
  PROVE  Onward(r, Sim!PushFrame(r)) /\ Onward(r, Sim!PopFrame(r))
<1>1. SUFFICES ASSUME Typing(r) PROVE Onward(r, Sim!PushFrame(r)) /\ Onward(r, Sim!PopFrame(r))
  BY DEF Onward
<1>2. PICK vs, fs, n : vs = r.variables /\ fs = r.frames /\ n = Len(vs)
  OBVIOUS
<1>3. FramesHold(r) => IsList(vs) /\ Within(fs, n)
  BY <1>2 DEF FramesHold, Within
<1>4. ASSUME FramesHold(r) PROVE Within(Append(fs, Sim!None), n)
  <2>1. IsList(fs) /\ Len(fs) \in Nat
    BY <1>3, <1>4, ListIs DEF Within
  <2>2. PICK gs, none : gs = Append(fs, none) /\ none = Sim!None
    OBVIOUS
  <2>3. DOMAIN none = {}
    BY <2>2 DEF Sim!None
  <2>4. IsList(gs) /\ Len(gs) = Len(fs) + 1 /\ gs[Len(fs) + 1] = none /\ \A i \in 1..Len(fs) : gs[i] = fs[i]
    BY <2>1, <2>2, ListAppended
  <2>5. ASSUME NEW i \in 1..Len(gs), NEW x \in DOMAIN gs[i] PROVE gs[i][x] \in 1..n
    <3>1. i \in 1..Len(fs) \/ i = Len(fs) + 1
      BY <2>1, <2>4, <2>5
    <3> QED BY <1>3, <1>4, <2>3, <2>4, <2>5, <3>1 DEF Within
  <2> QED BY <2>2, <2>4, <2>5 DEF Within
<1>5. ASSUME FramesHold(r) PROVE Within(Front(fs), n)
  BY <1>3, <1>4, <1>5, ListFront DEF Within
<1>6. PICK s, u : /\ s = [r EXCEPT !.variables = vs, !.frames = Append(fs, Sim!None)]
                  /\ u = [r EXCEPT !.variables = vs, !.frames = Front(fs)]
  OBVIOUS
<1>7. Onward(r, s)
  <2>1. HoldWith(r, vs, Append(fs, Sim!None))
    BY <1>2, <1>3, <1>4 DEF HoldWith
  <2> QED BY <1>6, <2>1, FramesChanged
<1>8. Onward(r, u)
  <2>1. HoldWith(r, vs, Front(fs))
    BY <1>2, <1>3, <1>5 DEF HoldWith
  <2> QED BY <1>6, <2>1, FramesChanged
<1>9. s = Sim!PushFrame(r) /\ u = Sim!PopFrame(r)
  BY <1>1, <1>2, <1>6 DEF Sim!PushFrame, Sim!PopFrame, Sim!Front, Front, Typing, Full, Core
<1> QED BY <1>7, <1>8, <1>9

LEMMA InsertHolds ==
  ASSUME NEW n \in Nat, NEW fs, Within(fs, n), NEW x, NEW gs \in {Sim!Insert(fs, x, n + 1), Plan!Insert(fs, x, n + 1)}
  PROVE  Within(gs, n + 1)
<1>1. PICK m, g, h : /\ m = Len(fs) /\ g = fs[m] /\ gs = [fs EXCEPT ![m] = h]
                     /\ h = g \/ h = Sim!WithEntry(g, x, n + 1)
  <2>1. CASE gs = Sim!Insert(fs, x, n + 1)
    BY <2>1 DEF Sim!Insert
  <2>2. CASE gs = Plan!Insert(fs, x, n + 1)
    BY <2>2, Shared DEF Plan!Insert
  <2> QED BY <2>1, <2>2
<1>2. PICK S : fs \in Seq(S)
  BY DEF Within, IsList
<1>3. fs \in Seq(S \cup {h}) /\ m \in Nat /\ DOMAIN fs = 1..m
  BY <1>1, <1>2
<1>4. DOMAIN gs = 1..m /\ \A i \in 1..m : gs[i] = IF i = m THEN h ELSE fs[i]
  BY <1>1, <1>3
<1>5. gs \in Seq(S \cup {h}) /\ Len(gs) = m
  <2>1. \A i \in 1..m : gs[i] \in S \cup {h}
    BY <1>2, <1>3, <1>4
  <2>2. gs = [i \in 1..m |-> gs[i]]
    BY <1>1, <1>3
  <2> QED BY <1>3, <1>4, <2>1, <2>2
<1>6. ASSUME NEW i \in 1..m, NEW y \in DOMAIN gs[i] PROVE gs[i][y] \in 1..(n + 1)
  <2>1. \A z \in DOMAIN fs[i] : fs[i][z] \in 1..(n + 1)
    BY <1>1, <1>3 DEF Within
  <2>2. CASE i = m
    <3>1. gs[i] = h /\ g = fs[i]
      BY <1>1, <1>4, <2>2
    <3>2. CASE h = g
      BY <1>6, <2>1, <3>1, <3>2
    <3>3. CASE h = Sim!WithEntry(g, x, n + 1)
      <4>1. PICK v : v = n + 1
        OBVIOUS
      <4>2. h[y] = v \/ (y \in DOMAIN g /\ h[y] = g[y])
        BY <1>6, <3>1, <3>3, <4>1 DEF Sim!WithEntry
      <4>3. n + 1 \in 1..(n + 1)
        OBVIOUS
      <4> QED BY <2>1, <3>1, <4>1, <4>2, <4>3
    <3> QED BY <1>1, <3>2, <3>3
  <2>3. CASE i # m
    BY <1>4, <1>6, <2>1, <2>3
  <2> QED BY <2>2, <2>3
<1> QED BY <1>5, <1>6 DEF Within, IsList

LEMMA VariableAdded ==
  ASSUME NEW r, NEW x, NEW type
  PROVE  Onward(r, Sim!AddVariable(r, x, type)) /\ Onward(r, Plan!AddVariable(r, x, type))
<1>1. \A q, v : Onward(q, [q EXCEPT !.quantified = v]) /\ Onward(q, [q EXCEPT !.parameters = v])
  <2>1. "quantified" \notin Core /\ "parameters" \notin Core
    BY DEF Core
  <2> QED BY <2>1, IdleOne, IdleSteady
<1>2. PICK n, b, c : n = Len(r.variables) /\ b = <<x, type>> /\ c = (x \notin DOMAIN Sim!Last(r.frames))
  OBVIOUS
<1>3. PICK q : q = Sim!Check(r, c)
  OBVIOUS
<1>4. Onward(r, q) /\ (Full(r) => Full(q)) /\ q.variables = r.variables /\ q.frames = r.frames
  <2>1. c \in BOOLEAN
    BY <1>2
  <2>2. Onward(r, q)
    BY <1>3, <2>1, IdleFailed, IdleSteady
  <2> QED BY <1>3, <2>2 DEF Sim!Check, Sim!Fail, Full
<1>5. ASSUME NEW fs, fs \in {Sim!Insert(q.frames, x, n + 1), Plan!Insert(q.frames, x, n + 1)},
             NEW s, s = [q EXCEPT !.variables = Append(q.variables, b), !.frames = fs]
      PROVE  Onward(q, s)
  <2>1. ASSUME FramesHold(q)
        PROVE  /\ IsList(Append(q.variables, b)) /\ Within(fs, Len(Append(q.variables, b)))
               /\ \A v \in 1..Len(q.variables) : v \in 1..Len(Append(q.variables, b)) /\ Append(q.variables, b)[v] = q.variables[v]
    <3>1. PICK vs, ws : vs = q.variables /\ ws = Append(vs, b)
      OBVIOUS
    <3>2. IsList(vs) /\ n = Len(vs) /\ n \in Nat /\ Within(q.frames, n)
      BY <1>2, <1>4, <2>1, <3>1, ListIs DEF FramesHold, Within
    <3>3. IsList(ws) /\ Len(ws) = n + 1 /\ \A v \in 1..n : ws[v] = vs[v]
      BY <3>1, <3>2, ListAppended
    <3>4. Within(fs, n + 1)
      BY <1>5, <3>2, InsertHolds
    <3>5. \A v \in 1..n : v \in 1..(n + 1)
      BY <3>2
    <3> QED BY <3>1, <3>2, <3>3, <3>4, <3>5
  <2>2. PICK vs : vs = Append(q.variables, b)
    OBVIOUS
  <2>3. HoldWith(q, vs, fs)
    BY <2>1, <2>2 DEF HoldWith
  <2>4. s = [q EXCEPT !.variables = vs, !.frames = fs]
    BY <1>5, <2>2
  <2> QED BY <2>3, <2>4, FramesChanged
<1>6. Onward(r, Sim!AddVariable(r, x, type))
  <2>1. PICK s : s = [q EXCEPT !.variables = Append(q.variables, b), !.frames = Sim!Insert(q.frames, x, n + 1)]
    OBVIOUS
  <2>2. Onward(r, s)
    BY <1>4, <1>5, <2>1, OnwardTwice
  <2>3. \E v : Sim!AddVariable(r, x, type) \in {[s EXCEPT !.quantified = v], [s EXCEPT !.parameters = v]}
    BY <1>2, <1>3, <2>1 DEF Sim!AddVariable
  <2> QED BY <1>1, <2>2, <2>3, OnwardTwice
<1>7. Onward(r, Plan!AddVariable(r, x, type))
  <2>1. PICK s : s = [q EXCEPT !.variables = Append(q.variables, b), !.frames = Plan!Insert(q.frames, x, n + 1)]
    OBVIOUS
  <2>2. Onward(r, s)
    BY <1>4, <1>5, <2>1, OnwardTwice
  <2>3. Plan!Last(r.frames) = Sim!Last(r.frames)
    BY DEF Plan!Last, Sim!Last
  <2>4. \E v : Plan!AddVariable(r, x, type) \in {[s EXCEPT !.quantified = v], [s EXCEPT !.parameters = v]}
    BY <1>2, <1>3, <2>1, <2>3, Shared DEF Plan!AddVariable
  <2> QED BY <1>1, <2>2, <2>4, OnwardTwice
<1> QED BY <1>6, <1>7

LEMMA VariablesAdded ==
  ASSUME NEW r, NEW S, NEW xs \in Seq(S)
  PROVE  Onward(r, Sim!AddVariables(r, xs)) /\ Onward(r, Plan!AddVariables(r, xs))
<1>1. PICK f : /\ f[0] = r /\ f[Len(xs)] = Sim!AddVariables(r, xs)
               /\ \A i \in 1..Len(xs) : f[i] = Sim!AddVariable(Sim!TypeSpec(f[i - 1], xs[i][2]), xs[i][1], xs[i][2])
  BY VariableByVariable
<1>2. PICK g : /\ g[0] = r /\ g[Len(xs)] = Plan!AddVariables(r, xs)
               /\ \A i \in 1..Len(xs) : g[i] = Plan!AddVariable(Plan!TypeSpec(g[i - 1], xs[i][2]), xs[i][1], Plan!Union(xs[i][2]))
  BY PlannerVariableByVariable
<1>3. PICK n \in Nat : n = Len(xs)
  OBVIOUS
<1>4. PICK T : T = {i \in 0..n : Onward(r, f[i]) /\ Onward(r, g[i])}
  OBVIOUS
<1>5. 0 \in T
  BY <1>1, <1>2, <1>3, <1>4, OnwardTwice
<1>6. ASSUME NEW i \in 1..n, i - 1 \in T PROVE i \in T
  <2>1. Onward(r, f[i - 1]) /\ Onward(r, g[i - 1])
    BY <1>4, <1>6
  <2>2. PICK q, u : q = Sim!TypeSpec(f[i - 1], xs[i][2]) /\ u = Plan!TypeSpec(g[i - 1], xs[i][2])
    OBVIOUS
  <2>3. Onward(f[i - 1], q) /\ Onward(g[i - 1], u)
    BY <2>2, IdleNoted, IdleSteady
  <2>4. Onward(q, f[i]) /\ Onward(u, g[i])
    BY <1>1, <1>2, <1>3, <2>2, VariableAdded
  <2>5. Onward(r, f[i]) /\ Onward(r, g[i])
    BY <2>1, <2>3, <2>4, OnwardTwice
  <2> QED BY <1>3, <1>4, <2>5
<1>7. n \in T
  BY <1>3, <1>5, <1>6, UpTo
<1> QED BY <1>1, <1>2, <1>3, <1>4, <1>7

\* Actions and quantifiers, where they begin and where they end.
LEMMA ScopesRead ==
  ASSUME NEW r, NEW a, NEW requirement, NEW S, NEW xs \in Seq(S)
  PROVE  /\ Onward(r, Sim!AddVariables(Sim!MakeAction(r, a), xs)) /\ Onward(r, Plan!AddVariables(Plan!MakeAction(r, a), xs))
         /\ Onward(r, Sim!AddVariables(Sim!Prepare(r, requirement), xs))
         /\ Onward(r, Plan!AddVariables(Plan!Prepare(r, requirement), xs))
         /\ Onward(r, Sim!AddAction(r)) /\ Onward(r, Plan!AddAction(r))
         /\ Onward(r, Sim!MakeQuantified(r)) /\ Onward(r, Plan!MakeQuantified(r))
<1>1. \A q, v : /\ Onward(q, [q EXCEPT !.name = v]) /\ Onward(q, [q EXCEPT !.parameters = v])
                /\ Onward(q, [q EXCEPT !.quantified = v]) /\ Onward(q, [q EXCEPT !.lists = v])
                /\ Onward(q, [q EXCEPT !.actions = v])
  <2>1. "name" \notin Core /\ "parameters" \notin Core /\ "quantified" \notin Core /\ "lists" \notin Core /\ "actions" \notin Core
    BY DEF Core
  <2>2. \A f : f \notin Core => \A q, v : Onward(q, [q EXCEPT ![f] = v])
    BY IdleOne, IdleSteady
  <2> QED BY <2>1, <2>2
<1>2. \A q : Onward(q, Sim!PushFrame(q)) /\ Onward(q, Sim!PopFrame(q))
  BY FramePushed
<1>3. \A q, x, y : /\ Onward(q, [[q EXCEPT !.name = x] EXCEPT !.parameters = y])
                   /\ Onward(q, [[q EXCEPT !.lists = x] EXCEPT !.quantified = y])
                   /\ Onward(q, [[q EXCEPT !.actions = x] EXCEPT !.name = y])
  BY <1>1, OnwardTwice
<1>4. Onward(r, Sim!MakeAction(r, a)) /\ Plan!MakeAction(r, a) = Sim!MakeAction(r, a)
  <2>1. PICK q : q = Sim!PushFrame(r)
    OBVIOUS
  <2>2. Sim!MakeAction(r, a) = [[q EXCEPT !.name = a] EXCEPT !.parameters = <<>>]
    BY <2>1 DEF Sim!MakeAction
  <2> QED BY <1>2, <1>3, <2>1, <2>2, OnwardTwice, Shared
<1>5. Onward(r, Sim!Prepare(r, requirement)) /\ Onward(r, Plan!Prepare(r, requirement))
  <2>1. PICK q : q = Sim!Assume(r, requirement)
    OBVIOUS
  <2>2. Onward(r, q)
    BY <2>1, IdleNoted, IdleSteady
  <2>3. \E v : Sim!Prepare(r, requirement) = Sim!PushFrame([q EXCEPT !.quantified = v])
    BY <2>1 DEF Sim!Prepare
  <2>4. \E v : Plan!Prepare(r, requirement) = Sim!PushFrame([q EXCEPT !.quantified = v])
    BY <2>1, Shared DEF Plan!Prepare
  <2> QED BY <1>1, <1>2, <2>2, <2>3, <2>4, OnwardTwice
<1>6. Onward(r, Sim!AddAction(r)) /\ Plan!AddAction(r) = Sim!AddAction(r)
  <2>1. PICK q : q = Sim!PopFrame(r)
    OBVIOUS
  <2>2. \E x, y : Sim!AddAction(r) = [[q EXCEPT !.actions = x] EXCEPT !.name = y]
    BY <2>1 DEF Sim!AddAction
  <2> QED BY <1>2, <1>3, <2>1, <2>2, OnwardTwice, Shared
<1>7. Onward(r, Sim!MakeQuantified(r)) /\ Onward(r, Plan!MakeQuantified(r))
  <2>1. PICK q : q = Sim!PopFrame(r)
    OBVIOUS
  <2>2. \E x, y : Sim!MakeQuantified(r) = [[q EXCEPT !.lists = x] EXCEPT !.quantified = y]
    BY <2>1 DEF Sim!MakeQuantified
  <2>3. \E x, y : Plan!MakeQuantified(r) = [[q EXCEPT !.lists = x] EXCEPT !.quantified = y]
    BY <2>1, Shared DEF Plan!MakeQuantified
  <2>4. Onward(r, Sim!MakeQuantified(r))
    BY <1>2, <1>3, <2>1, <2>2, OnwardTwice
  <2>5. Onward(r, Plan!MakeQuantified(r))
    BY <1>2, <1>3, <2>1, <2>3, OnwardTwice
  <2> QED BY <2>4, <2>5
<1> QED BY <1>4, <1>5, <1>6, <1>7, VariablesAdded, OnwardTwice

-----------------------------------------------------------------------------
\* What is declared before there are any atoms.
Early(r, s) ==
  Typing(r) /\ (Good(r) => r.atoms = {}) =>
    Typing(s) /\ (Good(s) => Good(r) /\ s.problem = r.problem /\ s.atoms = {})

LEMMA EarlyTwice ==
  ASSUME NEW r, NEW s, NEW u
  PROVE  Early(r, r) /\ (Steady(r, s) => Early(r, s)) /\ (Early(r, s) /\ Early(s, u) => Early(r, u))
BY DEF Early, Steady

LEMMA EarlyChanged ==
  ASSUME NEW r, NEW v
  PROVE  Early(r, [r EXCEPT !.types = v]) /\ Early(r, [r EXCEPT !.constants = v])
<1>1. ASSUME NEW s, s = [r EXCEPT !.types = v] \/ s = [r EXCEPT !.constants = v], Typing(r), Good(r) => r.atoms = {}
      PROVE  Typing(s) /\ (Good(s) => Good(r) /\ s.problem = r.problem /\ s.atoms = {})
  <2>1. /\ Full(s) /\ (Good(s) => Good(r)) /\ s.problem = r.problem /\ s.objects = r.objects
        /\ s.predicates = r.predicates /\ s.functions = r.functions /\ s.atoms = r.atoms
        /\ s.variables = r.variables /\ s.frames = r.frames
    BY <1>1 DEF Typing, Full, Core, Good
  <2>2. \A t \in Heads : s[t] = r[t]
    BY <2>1 DEF Heads
  <2>3. Sound(r) /\ s.atoms = {} => Sound(s)
    BY <2>1, <2>2 DEF Sound, ParamsListed, FramesHold, DomainOnly, AtomsHold
  <2> QED BY <1>1, <2>1, <2>3 DEF Typing
<1> QED BY <1>1 DEF Early

LEMMA TypeDeclared ==
  ASSUME NEW r, NEW x, NEW B
  PROVE  /\ Early(r, Sim!AddTypeName(Sim!TypeSpec(r, B), x, B))
         /\ Early(r, Plan!AddTypeName(Plan!TypeSpec(r, B), x, B))
<1>1. \A q : Early(q, Sim!TypeSpec(q, B)) /\ Early(q, Plan!TypeSpec(q, B))
  BY IdleNoted, IdleSteady, EarlyTwice
<1>2. \A q, c : c \in BOOLEAN => Early(q, Sim!Check(q, c))
  BY IdleFailed, IdleSteady, EarlyTwice
<1>3. ASSUME NEW q PROVE Early(q, Sim!AddTypeName(q, x, B)) /\ Early(q, Plan!AddTypeName(q, x, B))
  <2>1. \E v, c : c \in BOOLEAN /\ Sim!AddTypeName(q, x, B) \in {q, Sim!Check([q EXCEPT !.types = v], c)}
    BY DEF Sim!AddTypeName, Sim!AllAcyclic
  <2>2. \E v, c : c \in BOOLEAN /\ Plan!AddTypeName(q, x, B) \in {q, Sim!Check([q EXCEPT !.types = v], c)}
    BY Shared DEF Plan!AddTypeName, Plan!AllAcyclic
  <2>3. \A v, c : c \in BOOLEAN => Early(q, Sim!Check([q EXCEPT !.types = v], c))
    BY <1>2, EarlyChanged, EarlyTwice
  <2> QED BY <2>1, <2>2, <2>3, EarlyTwice
<1> QED BY <1>1, <1>3, EarlyTwice

LEMMA ConstantDeclared ==
  ASSUME NEW r, NEW x, NEW B
  PROVE  /\ Early(r, Sim!AddConstantName(Sim!TypeSpec(r, B), x, B))
         /\ Early(r, Plan!AddConstantName(Plan!TypeSpec(r, B), x, B))
<1>1. \A q : Early(q, Sim!TypeSpec(q, B)) /\ Early(q, Plan!TypeSpec(q, B))
  BY IdleNoted, IdleSteady, EarlyTwice
<1>2. \A q : Early(q, Sim!AddConstantName(q, x, B))
  BY EarlyChanged DEF Sim!AddConstantName
<1>3. ASSUME NEW q PROVE Early(q, Plan!AddConstantName(q, x, B))
  <2>1. PICK s : s = [q EXCEPT !.end = "undefined"]
    OBVIOUS
  <2>2. Early(q, s)
    <3>1. Idle(q, s)
      BY <2>1, IdleEnded
    <3> QED BY <3>1, IdleSteady, EarlyTwice
  <2>3. \E v, w : Plan!AddConstantName(q, x, B) \in {s, [[q EXCEPT !.constants = v] EXCEPT !.dangling = w]}
    BY <2>1 DEF Plan!AddConstantName, Plan!Declare
  <2>4. PICK u, v, w, z : /\ u = [q EXCEPT !.constants = v] /\ z = [u EXCEPT !.dangling = w]
                          /\ Plan!AddConstantName(q, x, B) \in {s, z}
    BY <2>3
  <2>5. Idle(u, z)
    <3>1. "dangling" \notin Core
      BY DEF Core
    <3> QED BY <2>4, <3>1, IdleOne
  <2>6. Early(q, u)
    BY <2>4, EarlyChanged
  <2>7. Early(q, z)
    BY <2>5, <2>6, IdleSteady, EarlyTwice
  <2> QED BY <2>2, <2>4, <2>7
<1> QED BY <1>1, <1>2, <1>3, EarlyTwice

LEMMA ParameterDeclared ==
  ASSUME NEW r, NEW t \in Heads, NEW x, NEW type
  PROVE  Early(r, Sim!AddParameter(r, t, x, type)) /\ Plan!AddParameter(r, t, x, type) = Sim!AddParameter(r, t, x, type)
<1>1. PICK s : s = Sim!AddParameter(r, t, x, type)
  OBVIOUS
<1>2. Widened(r, s, t, x, type)
  BY <1>1, WidenedIs
<1>3. ASSUME Typing(r), Good(r) => r.atoms = {}
      PROVE  Typing(s) /\ (Good(s) => Good(r) /\ s.problem = r.problem /\ s.atoms = {})
  <2>1. Full(r) /\ Full(s) /\ (Good(s) => Good(r)) /\ SameRest(r, s)
    BY <1>2, <1>3 DEF Typing, Widened, Full, Good
  <2>2. ASSUME Good(s) PROVE Sound(s)
    <3>1. Sound(r) /\ r.atoms = {}
      BY <1>3, <2>1, <2>2 DEF Typing
    <3>2. Unused(r, t, x)
      BY <3>1 DEF Unused
    <3> QED BY <1>2, <2>1, <3>1, <3>2, WidenedSound
  <2> QED BY <1>3, <2>1, <2>2 DEF Typing, SameRest
<1> QED BY <1>1, <1>3, Shared DEF Early

LEMMA ParametersDeclared ==
  ASSUME NEW r, NEW t \in Heads, NEW x, NEW S, NEW xs \in Seq(S)
  PROVE  Early(r, Sim!AddParameters(r, t, x, xs)) /\ Early(r, Plan!AddParameters(r, t, x, xs))
<1>1. PICK f : /\ f[0] = r /\ f[Len(xs)] = Sim!AddParameters(r, t, x, xs)
               /\ \A i \in 1..Len(xs) : f[i] = Sim!AddParameter(Sim!TypeSpec(f[i - 1], xs[i]), t, x, xs[i])
  BY ParameterByParameter
<1>2. PICK g : /\ g[0] = r /\ g[Len(xs)] = Plan!AddParameters(r, t, x, xs)
               /\ \A i \in 1..Len(xs) : g[i] = Plan!AddParameter(Plan!TypeSpec(g[i - 1], xs[i]), t, x, Plan!Union(xs[i]))
  BY PlannerParameterByParameter
<1>3. PICK n \in Nat : n = Len(xs)
  OBVIOUS
<1>4. PICK T : T = {i \in 0..n : Early(r, f[i]) /\ Early(r, g[i])}
  OBVIOUS
<1>5. 0 \in T
  BY <1>1, <1>2, <1>3, <1>4, EarlyTwice
<1>6. ASSUME NEW i \in 1..n, i - 1 \in T PROVE i \in T
  <2>1. Early(r, f[i - 1]) /\ Early(r, g[i - 1])
    BY <1>4, <1>6
  <2>2. PICK q, u : q = Sim!TypeSpec(f[i - 1], xs[i]) /\ u = Plan!TypeSpec(g[i - 1], xs[i])
    OBVIOUS
  <2>3. Early(f[i - 1], q) /\ Early(g[i - 1], u)
    <3>1. \A p, B : Steady(p, Sim!TypeSpec(p, B)) /\ Steady(p, Plan!TypeSpec(p, B))
      BY IdleNoted, IdleSteady
    <3>2. \A p, B : Early(p, Sim!TypeSpec(p, B)) /\ Early(p, Plan!TypeSpec(p, B))
      BY <3>1, EarlyTwice
    <3> QED BY <2>2, <3>2
  <2>4. Early(q, f[i]) /\ Early(u, g[i])
    BY <1>1, <1>2, <1>3, <2>2, ParameterDeclared
  <2>5. Early(r, f[i]) /\ Early(r, g[i])
    BY <2>1, <2>3, <2>4, EarlyTwice
  <2> QED BY <1>3, <1>4, <2>5
<1>7. n \in T
  BY <1>3, <1>5, <1>6, UpTo
<1> QED BY <1>1, <1>2, <1>3, <1>4, <1>7

LEMMA HeadDeclared ==
  ASSUME NEW r, NEW x, NEW S, NEW xs \in Seq(S)
  PROVE  /\ Early(r, Sim!DeclarePredicate(r, x, xs)) /\ Early(r, Plan!DeclarePredicate(r, x, xs))
         /\ Early(r, Sim!DeclareFunction(r, x, xs)) /\ Early(r, Plan!DeclareFunction(r, x, xs))
<1>1. "predicates" \in Heads /\ "functions" \in Heads
  BY DEF Heads
<1>2. ASSUME NEW q, NEW t \in Heads, NEW u, Early(q, u)
      PROVE  Early(q, Sim!AddParameters(u, t, x, xs)) /\ Early(q, Plan!AddParameters(u, t, x, xs))
  BY <1>2, ParametersDeclared, EarlyTwice
<1>7. \A q : Early(q, Sim!TypeSpecs(q, xs)) /\ Early(q, Plan!TypeSpecs(q, xs))
  BY IdleNoted, IdleSteady, EarlyTwice
<1>3. Early(r, Sim!DeclarePredicate(r, x, xs)) /\ Early(r, Plan!DeclarePredicate(r, x, xs))
  <2>1. CASE x \in DOMAIN r.predicates
    BY <1>7, <2>1 DEF Sim!DeclarePredicate, Plan!DeclarePredicate
  <2>2. CASE x \notin DOMAIN r.predicates
    <3>1. PICK u : u = Sim!AddPredicate(r, x)
      OBVIOUS
    <3>2. Early(r, u)
      BY <1>1, <2>2, <3>1, EntersPredicate, EnteredSteady, EarlyTwice
    <3>3. /\ Sim!DeclarePredicate(r, x, xs) = Sim!AddParameters(u, "predicates", x, xs)
          /\ Plan!DeclarePredicate(r, x, xs) = Plan!AddParameters(u, "predicates", x, xs)
      BY <2>2, <3>1, Shared DEF Sim!DeclarePredicate, Plan!DeclarePredicate
    <3> QED BY <1>1, <1>2, <3>2, <3>3
  <2> QED BY <2>1, <2>2
<1>4. PICK q : q = Sim!Assume(r, "fluents")
  OBVIOUS
<1>5. Early(r, q)
  BY <1>4, IdleNoted, IdleSteady, EarlyTwice
<1>6. Early(q, Sim!DeclareFunction(r, x, xs)) /\ Early(q, Plan!DeclareFunction(r, x, xs))
  <2>1. CASE x \in DOMAIN q.functions
    BY <1>4, <1>7, <2>1, Shared DEF Sim!DeclareFunction, Plan!DeclareFunction
  <2>2. CASE x \notin DOMAIN q.functions
    <3>1. PICK u, v : u = Sim!AddFunction(q, x) /\ v = Plan!AddFunction(q, x)
      OBVIOUS
    <3>2. Early(q, u) /\ Early(q, v)
      BY <1>1, <2>2, <3>1, EntersFunction, EnteredSteady, EarlyTwice
    <3>3. /\ Sim!DeclareFunction(r, x, xs) = Sim!AddParameters(u, "functions", x, xs)
          /\ Plan!DeclareFunction(r, x, xs) = Plan!AddParameters(v, "functions", x, xs)
      BY <1>4, <2>2, <3>1, Shared DEF Sim!DeclareFunction, Plan!DeclareFunction
    <3> QED BY <1>1, <1>2, <3>2, <3>3
  <2> QED BY <2>1, <2>2
<1> QED BY <1>3, <1>5, <1>6, EarlyTwice

-----------------------------------------------------------------------------
\* What the problem declares is not what the actions of the domain refer to.
Settled(r) ==
  \A a \in r.atoms : a.table = "=" \/
    \A i \in 1..Len(a.terms) :
      a.terms[i].var = 0 => a.terms[i].name \in DOMAIN r.constants /\ a.terms[i].name \notin DOMAIN r.objects

Late(r, s) ==
  Typing(r) /\ (Good(r) => r.problem /\ Settled(r)) =>
    Typing(s) /\ (Good(s) => Good(r) /\ s.problem /\ Settled(s))

LEMMA LateTwice ==
  ASSUME NEW r, NEW s, NEW u
  PROVE  Late(r, r) /\ (Steady(r, s) => Late(r, s)) /\ (Late(r, s) /\ Late(s, u) => Late(r, u))
<1>1. ASSUME Steady(r, s), Typing(r), Good(r) => r.problem /\ Settled(r)
      PROVE  Typing(s) /\ (Good(s) => Good(r) /\ s.problem /\ Settled(s))
  BY <1>1 DEF Steady, Settled
<1> QED BY <1>1 DEF Late

LEMMA ObjectsChanged ==
  ASSUME NEW r, NEW v, NEW x, x \notin DOMAIN r.constants, DOMAIN v \subseteq DOMAIN r.objects \cup {x},
         NEW s, s = [r EXCEPT !.objects = v]
  PROVE  Late(r, s)
<1>1. SUFFICES ASSUME Typing(r), Good(r) => r.problem /\ Settled(r)
               PROVE  Typing(s) /\ (Good(s) => Good(r) /\ s.problem /\ Settled(s))
  BY DEF Late
<1>2. /\ Full(s) /\ (Good(s) => Good(r)) /\ s.problem = r.problem /\ s.objects = v
      /\ s.types = r.types /\ s.constants = r.constants
      /\ s.predicates = r.predicates /\ s.functions = r.functions /\ s.atoms = r.atoms
      /\ s.variables = r.variables /\ s.frames = r.frames
  BY <1>1 DEF Typing, Full, Core, Good
<1>3. ASSUME Good(s) PROVE Sound(s) /\ s.problem /\ Settled(s)
  <2>1. Sound(r) /\ r.problem /\ Settled(r)
    BY <1>1, <1>2, <1>3 DEF Typing
  <2>2. \A t \in Heads : s[t] = r[t]
    BY <1>2 DEF Heads
  <2>3. ParamsListed(s) /\ FramesHold(s) /\ DomainOnly(s)
    BY <1>2, <2>1, <2>2 DEF Sound, ParamsListed, FramesHold, DomainOnly
  <2>4. \A y : y \in DOMAIN r.constants /\ y \notin DOMAIN r.objects => y \in DOMAIN s.constants /\ y \notin DOMAIN s.objects
    BY <1>2
  <2>5. Settled(s)
    BY <1>2, <2>1, <2>4 DEF Settled
  <2>6. ASSUME NEW a \in s.atoms, a.table # "=" PROVE AtomOk(s, a)
    <3>1. AtomOk(r, a)
      BY <1>2, <2>1, <2>6 DEF Sound, AtomsHold
    <3>2. ASSUME NEW t, TermOk(r, t), t.var = 0 => t.name \in DOMAIN r.constants /\ t.name \notin DOMAIN r.objects
          PROVE  TermOk(s, t) /\ Sim!TypeOf(s, t) = Sim!TypeOf(r, t)
      BY <1>2, <2>4, <3>2 DEF TermOk, Sim!TypeOf, Sim!ObjectNames
    <3>3. ASSUME NEW i \in 1..Len(a.terms)
          PROVE  TermOk(s, a.terms[i]) /\ Sim!TypeOf(s, a.terms[i]) = Sim!TypeOf(r, a.terms[i])
      BY <1>2, <2>1, <2>6, <3>1, <3>2 DEF AtomOk, Settled
    <3>4. s[a.table] = r[a.table] /\ s.types = r.types
      BY <1>2, <2>2, <3>1 DEF AtomOk
    <3> QED BY <3>1, <3>3, <3>4 DEF AtomOk, Fits
  <2> QED BY <1>2, <2>1, <2>3, <2>5, <2>6 DEF Sound, AtomsHold
<1> QED BY <1>2, <1>3 DEF Typing

LEMMA ObjectDeclared ==
  ASSUME NEW r, NEW x, NEW B
  PROVE  /\ Late(r, Sim!AddObjectName(Sim!TypeSpec(r, B), x, B))
         /\ Late(r, Plan!AddObjectName(Plan!TypeSpec(r, B), x, B))
<1>1. \A q : Late(q, Sim!TypeSpec(q, B)) /\ Late(q, Plan!TypeSpec(q, B))
  BY IdleNoted, IdleSteady, LateTwice
<1>2. \A f, v : DOMAIN Sim!WithEntry(f, x, v) = DOMAIN f \cup {x} /\ DOMAIN Plan!WithEntry(f, x, v) = DOMAIN f \cup {x}
  BY DEF Sim!WithEntry, Plan!WithEntry
<1>3. ASSUME NEW q PROVE Late(q, Sim!AddObjectName(q, x, B))
  <2>1. CASE x \in DOMAIN q.constants
    BY <2>1, LateTwice DEF Sim!AddObjectName
  <2>2. CASE x \notin DOMAIN q.constants
    <3>1. PICK v : v = Sim!Declared(q.objects, x, B)
      OBVIOUS
    <3>2. DOMAIN v \subseteq DOMAIN q.objects \cup {x}
      BY <1>2, <3>1 DEF Sim!Declared
    <3>3. Sim!AddObjectName(q, x, B) = [q EXCEPT !.objects = v]
      BY <2>2, <3>1 DEF Sim!AddObjectName
    <3> QED BY <2>2, <3>2, <3>3, ObjectsChanged
  <2> QED BY <2>1, <2>2
<1>4. ASSUME NEW q PROVE Late(q, Plan!AddObjectName(q, x, B))
  <2>1. CASE x \in DOMAIN q.constants
    BY <2>1, LateTwice DEF Plan!AddObjectName
  <2>2. CASE x \notin DOMAIN q.constants /\ x \in q.dangling
    <3>1. Plan!AddObjectName(q, x, B) = [q EXCEPT !.end = "undefined"]
      BY <2>2 DEF Plan!AddObjectName
    <3>2. Idle(q, [q EXCEPT !.end = "undefined"])
      BY IdleEnded
    <3> QED BY <3>1, <3>2, IdleSteady, LateTwice
  <2>3. CASE x \notin DOMAIN q.constants /\ x \notin q.dangling
    <3>1. PICK v, w : /\ DOMAIN v = DOMAIN q.objects \cup {x}
                      /\ Plan!AddObjectName(q, x, B) = [[q EXCEPT !.objects = v] EXCEPT !.dangling = w]
      <4>1. \E e, w : Plan!AddObjectName(q, x, B) = [[q EXCEPT !.objects = Plan!WithEntry(q.objects, x, e)] EXCEPT !.dangling = w]
        BY <2>3 DEF Plan!AddObjectName, Plan!Declare
      <4> QED BY <1>2, <4>1
    <3>2. PICK s : s = [q EXCEPT !.objects = v]
      OBVIOUS
    <3>3. Late(q, s)
      BY <2>3, <3>1, <3>2, ObjectsChanged
    <3>4. "dangling" \notin Core
      BY DEF Core
    <3>5. Idle(s, [s EXCEPT !.dangling = w])
      BY <3>4, IdleOne
    <3> QED BY <3>1, <3>2, <3>3, <3>5, IdleSteady, LateTwice
  <2> QED BY <2>1, <2>2, <2>3
<1> QED BY <1>1, <1>3, <1>4, LateTwice

LEMMA ProblemMade ==
  ASSUME NEW r, Typing(r), Good(r) => ~r.problem, NEW known,
         NEW s \in {Sim!MakeProblem(r, known), Plan!MakeProblem(r, known)}
  PROVE  Typing(s) /\ (Good(s) => s.problem /\ Settled(s))
<1>1. CASE known
  <2>1. /\ s \in {[r EXCEPT !.problem = TRUE, !.objects = Sim!None, !.values = {}], [r EXCEPT !.problem = TRUE, !.objects = Sim!None]}
        /\ DOMAIN Sim!None = {}
    BY <1>1 DEF Sim!MakeProblem, Plan!MakeProblem, Sim!None, Plan!None
  <2>2. /\ Full(s) /\ (Good(s) => Good(r)) /\ s.problem /\ DOMAIN s.objects = {}
        /\ s.types = r.types /\ s.constants = r.constants
        /\ s.predicates = r.predicates /\ s.functions = r.functions /\ s.atoms = r.atoms
        /\ s.variables = r.variables /\ s.frames = r.frames
    BY <2>1 DEF Typing, Full, Core, Good
  <2>3. ASSUME Good(s) PROVE Sound(s) /\ Settled(s)
    <3>1. Sound(r) /\ DOMAIN r.objects = {}
      BY <2>2, <2>3 DEF Typing, Sound, DomainOnly
    <3>2. Refers(r, s)
      BY <2>2, <3>1 DEF Refers, ObjectType, Sim!ObjectNames
    <3>3. FramesHold(s) /\ DomainOnly(s)
      BY <2>2, <3>1 DEF Sound, FramesHold, DomainOnly
    <3>4. Sound(s)
      BY <2>2, <3>1, <3>2, <3>3, RefersSound
    <3>5. ASSUME NEW a \in s.atoms, a.table # "=", NEW i \in 1..Len(a.terms), a.terms[i].var = 0
          PROVE  a.terms[i].name \in DOMAIN s.constants /\ a.terms[i].name \notin DOMAIN s.objects
      <4>1. TermOk(s, a.terms[i])
        BY <3>4, <3>5 DEF Sound, AtomsHold, AtomOk
      <4> QED BY <2>2, <3>5, <4>1 DEF TermOk, Sim!ObjectNames
    <3> QED BY <3>4, <3>5 DEF Settled
  <2> QED BY <2>2, <2>3 DEF Typing
<1>2. CASE ~known
  <2>1. CASE s = Sim!MakeProblem(r, known)
    <3>1. PICK q, u : q = Sim!Start /\ u = Sim!Fail(q)
      OBVIOUS
    <3>2. Full(q)
      BY <3>1 DEF Sim!Start, Full, Core
    <3>3. Full(u) /\ ~u.success
      BY <3>1, <3>2 DEF Sim!Fail, Full, Core
    <3>4. s = [[u EXCEPT !.frames = r.frames, !.quantified = r.quantified]
                 EXCEPT !.problem = TRUE, !.objects = Sim!None, !.values = {}]
      BY <1>2, <2>1, <3>1 DEF Sim!MakeProblem
    <3>5. Full(s) /\ ~s.success
      BY <3>3, <3>4 DEF Full, Core
    <3> QED BY <3>5 DEF Typing, Good
  <2>2. CASE s = Plan!MakeProblem(r, known)
    <3>1. PICK q, u : q = Plan!Start /\ u = Plan!Fail(q)
      OBVIOUS
    <3>2. Full(q)
      BY <3>1 DEF Plan!Start, Full, Core
    <3>3. Full(u) /\ ~u.success
      BY <3>1, <3>2 DEF Plan!Fail, Full, Core
    <3>4. s = [[u EXCEPT !.frames = r.frames, !.quantified = r.quantified, !.reward = r.reward]
                 EXCEPT !.problem = TRUE, !.objects = Plan!None]
      BY <1>2, <2>2, <3>1 DEF Plan!MakeProblem
    <3>5. Full(s) /\ ~s.success
      BY <3>3, <3>4 DEF Full, Core
    <3> QED BY <3>5 DEF Typing, Good
  <2> QED BY <2>1, <2>2
<1> QED BY <1>1, <1>2

LEMMA ProblemEnded ==
  ASSUME NEW r
  PROVE  Steady(r, Sim!Instantiate(r)) /\ Steady(r, Sim!SetGoalReward(r))
<1>1. PICK m, e : Sim!Instantiate(r) = [[r EXCEPT !.metric = m] EXCEPT !.end = e] /\ e \in {"thrown", r.end}
  BY DEF Sim!Instantiate
<1>2. PICK q : q = [r EXCEPT !.metric = m]
  OBVIOUS
<1>3. Idle(r, q)
  <2>1. "metric" \notin Core
    BY DEF Core
  <2> QED BY <1>2, <2>1, IdleOne
<1>4. Idle(q, [q EXCEPT !.end = e])
  <2>1. CASE e = "thrown"
    BY <2>1, IdleEnded
  <2>2. CASE e = r.end
    <3>1. q.end = e
      BY <1>2, <2>2
    <3> QED BY <3>1 DEF Idle, Same, SameHead, Full, Core, Good
  <2> QED BY <1>1, <2>1, <2>2
<1>5. Steady(r, Sim!Instantiate(r))
  BY <1>1, <1>2, <1>3, <1>4, IdleTwice, IdleSteady
<1>6. Steady(r, Sim!SetGoalReward(r))
  BY IdleFailed, IdleNoted, IdleSteady DEF Sim!SetGoalReward
<1> QED BY <1>5, <1>6

-----------------------------------------------------------------------------
\* The invariant of both parsers, by the section that is read.
At(r, k) ==
  /\ Typing(r)
  /\ Good(r) => /\ k <= 5 => r.atoms = {}
                /\ k <= 6 => ~r.problem
                /\ k \in {7, 8} => r.problem /\ Settled(r)

TypedInv == text \in Texts /\ section \in 1..12 /\ At(sim, section) /\ At(plan, section)

LEMMA InitTyped == ASSUME Init PROVE TypedInv
<1>1. text \in Texts /\ section = 1 /\ sim = Sim!Start /\ plan = Plan!Start
  BY DEF Init
<1>2. ASSUME NEW r, Full(r), r.atoms = {}, ~r.problem, r.objects = [x \in {} |-> x], r.variables = <<>>, r.frames = <<>>,
             \A t \in Heads : \A x \in DOMAIN r[t] : r[t][x] = <<>>
      PROVE  At(r, 1)
  <2>1. FramesHold(r)
    BY <1>2, ListEmpty DEF FramesHold
  <2>2. ParamsListed(r)
    BY <1>2, ListEmpty DEF ParamsListed
  <2>3. DomainOnly(r)
    BY <1>2 DEF DomainOnly
  <2> QED BY <1>2, <2>1, <2>2, <2>3 DEF At, Typing, Sound, AtomsHold
<1>3. PICK r : r = Sim!Start
  OBVIOUS
<1>4. /\ Full(r) /\ r.atoms = {} /\ ~r.problem /\ r.objects = [x \in {} |-> x] /\ r.variables = <<>> /\ r.frames = <<>>
      /\ r.predicates = [x \in {} |-> x] /\ r.functions = [f \in {"total-time", "goal-achieved"} |-> <<>>]
  BY <1>3 DEF Sim!Start, Sim!None, Full, Core
<1>5. At(r, 1)
  <2>1. \A t \in Heads : \A x \in DOMAIN r[t] : r[t][x] = <<>>
    BY <1>4 DEF Heads
  <2> QED BY <1>2, <1>4, <2>1
<1>6. PICK s : s = Plan!Start
  OBVIOUS
<1>7. /\ Full(s) /\ s.atoms = {} /\ ~s.problem /\ s.objects = [x \in {} |-> x] /\ s.variables = <<>> /\ s.frames = <<>>
      /\ s.predicates = [x \in {} |-> x] /\ s.functions = [x \in {} |-> x]
  BY <1>6 DEF Plan!Start, Plan!None, Full, Core
<1>8. At(s, 1)
  <2>1. \A t \in Heads : \A x \in DOMAIN s[t] : s[t][x] = <<>>
    BY <1>7 DEF Heads
  <2> QED BY <1>2, <1>7, <2>1
<1> QED BY <1>1, <1>3, <1>5, <1>6, <1>8 DEF TypedInv

\* What an entry may do in section k.
Allowed(r, s, k) ==
  \/ Steady(r, s)
  \/ Early(r, s) /\ k <= 5
  \/ Onward(r, s) /\ k \in {6, 9, 10, 11}
  \/ Late(r, s) /\ k = 8

LEMMA AllowedStays ==
  ASSUME NEW k \in 1..12, NEW r, NEW s, At(r, k), Allowed(r, s, k)
  PROVE  At(s, k)
<1>1. CASE Steady(r, s)
  BY <1>1 DEF At, Steady, Settled
<1>2. CASE Early(r, s) /\ k <= 5
  <2>1. k <= 6 /\ ~(k \in {7, 8})
    BY <1>2
  <2> QED BY <1>2, <2>1 DEF At, Early
<1>3. CASE Onward(r, s) /\ k \in {6, 9, 10, 11}
  <2>1. ~(k <= 5) /\ ~(k \in {7, 8})
    BY <1>3
  <2> QED BY <1>3, <2>1 DEF At, Onward
<1>4. CASE Late(r, s) /\ k = 8
  <2>1. ~(k <= 5) /\ ~(k <= 6) /\ k \in {7, 8}
    BY <1>4
  <2> QED BY <1>4, <2>1 DEF At, Late
<1> QED BY <1>1, <1>2, <1>3, <1>4 DEF Allowed

LEMMA TypedEntry ==
  ASSUME TypedInv, NEW s, NEW p, Entry(s, p), Allowed(sim, s, section), Allowed(plan, p, section)
  PROVE  TypedInv'
<1>1. /\ text \in Texts /\ section \in 1..12 /\ text' = text /\ section' = section
      /\ sim' = (IF sim.end = "" THEN s ELSE sim) /\ plan' = (IF plan.end = "" THEN p ELSE plan)
  BY DEF TypedInv, Entry
<1>2. At(s, section) /\ At(p, section) /\ At(sim, section) /\ At(plan, section)
  BY <1>1, AllowedStays DEF TypedInv
<1>3. PICK r, q : r = sim' /\ q = plan'
  OBVIOUS
<1>4. At(r, section) /\ At(q, section)
  BY <1>1, <1>2, <1>3
<1> QED BY <1>1, <1>3, <1>4 DEF TypedInv

LEMMA TypedStepDeclare ==
  ASSUME TypedInv, ReadRequirement \/ ReadType \/ ReadName \/ ReadPredicate \/ ReadFunction
  PROVE  TypedInv'
<1>1. section \in 1..12 /\ text \in Texts
  BY DEF TypedInv
<1>2. CASE ReadRequirement
  <2>1. PICK key : Entry(Sim!RequireKey(sim, key), Plan!RequireKey(plan, key))
    BY <1>2 DEF ReadRequirement
  <2> QED BY <2>1, RequiredSteady, TypedEntry DEF Allowed
<1>3. CASE ReadType
  <2>1. PICK d : Entry(Sim!AddTypeName(Sim!TypeSpec(sim, d[2]), d[1], d[2]),
                       Plan!AddTypeName(Plan!TypeSpec(plan, d[2]), d[1], d[2]))
    BY <1>3 DEF ReadType
  <2>2. section = 2
    BY <1>1, <1>3, SectionsAre DEF ReadType
  <2>3. section <= 5
    BY <2>2
  <2> QED BY <2>1, <2>3, TypeDeclared, TypedEntry DEF Allowed
<1>4. CASE ReadName
  <2>1. PICK d, s, p : /\ s = Sim!TypeSpec(sim, d[2]) /\ p = Plan!TypeSpec(plan, d[2])
                       /\ IF In({"constants"})
                            THEN Entry(Sim!AddConstantName(s, d[1], d[2]), Plan!AddConstantName(p, d[1], d[2]))
                            ELSE Entry(Sim!AddObjectName(s, d[1], d[2]), Plan!AddObjectName(p, d[1], d[2]))
    BY <1>4 DEF ReadName
  <2>2. section \in {3, 8} /\ (In({"constants"}) <=> section = 3)
    <3>1. section \in {3, 8}
      BY <1>1, <1>4, SectionsAre DEF ReadName
    <3>2. Sections[3] = "constants" /\ Sections[8] = "objects"
      BY DEF Sections
    <3> QED BY <3>1, <3>2 DEF In
  <2>3. CASE In({"constants"})
    <3>1. section <= 5
      BY <2>2, <2>3
    <3> QED BY <2>1, <2>3, <3>1, ConstantDeclared, TypedEntry DEF Allowed
  <2>4. CASE ~In({"constants"})
    <3>1. section = 8
      BY <2>2, <2>4
    <3> QED BY <2>1, <2>4, <3>1, ObjectDeclared, TypedEntry DEF Allowed
  <2> QED BY <2>3, <2>4
<1>5. CASE ReadPredicate \/ ReadFunction
  <2>1. PICK t \in Texts : t = text
    BY <1>1
  <2>2. \A d \in t.predicates \cup t.functions : d[2] \in Seq(SUBSET STRING)
    BY TextsAssumption
  <2>3. section <= 5
    <3>1. section = 4 \/ section = 5
      BY <1>1, <1>5, SectionsAre DEF ReadPredicate, ReadFunction
    <3> QED BY <3>1
  <2>4. CASE ReadPredicate
    <3>1. PICK d \in text.predicates :
            Entry(Sim!DeclarePredicate(sim, d[1], d[2]), Plan!DeclarePredicate(plan, d[1], d[2]))
      BY <2>4 DEF ReadPredicate
    <3>2. Early(sim, Sim!DeclarePredicate(sim, d[1], d[2])) /\ Early(plan, Plan!DeclarePredicate(plan, d[1], d[2]))
      BY <2>1, <2>2, HeadDeclared
    <3> QED BY <2>3, <3>1, <3>2, TypedEntry DEF Allowed
  <2>5. CASE ReadFunction
    <3>1. PICK d \in text.functions :
            Entry(Sim!DeclareFunction(sim, d[1], d[2]), Plan!DeclareFunction(plan, d[1], d[2]))
      BY <2>5 DEF ReadFunction
    <3>2. Early(sim, Sim!DeclareFunction(sim, d[1], d[2])) /\ Early(plan, Plan!DeclareFunction(plan, d[1], d[2]))
      BY <2>1, <2>2, HeadDeclared
    <3> QED BY <2>3, <3>1, <3>2, TypedEntry DEF Allowed
  <2> QED BY <1>5, <2>4, <2>5
<1> QED BY <1>2, <1>3, <1>4, <1>5

LEMMA TypedOnward ==
  ASSUME TypedInv, section \in {6, 9, 10, 11}, NEW s, NEW p, Entry(s, p), Onward(sim, s), Onward(plan, p)
  PROVE  TypedInv'
BY TypedEntry DEF Allowed

LEMMA TypedStepRead ==
  ASSUME TypedInv, ReadAtom \/ ReadEqual \/ ReadChange \/ ReadUpdate \/ ReadValue \/ ReadOutcomes
  PROVE  TypedInv'
<1>1. section \in 1..12 /\ text \in Texts
  BY DEF TypedInv
<1>2. section \in {6, 9, 10, 11}
  <2>1. In({"actions"}) \/ In({"init"}) \/ In({"goal"})
    BY DEF ReadAtom, ReadEqual, ReadChange, ReadUpdate, ReadValue, ReadOutcomes, InFormula
  <2> QED BY <1>1, <2>1, SectionsAre
<1>3. <<>> \in Seq({}) /\ \A xs \in text.terms : xs \in Seq(STRING)
  <2>1. PICK t \in Texts : t = text
    BY <1>1
  <2>2. t.terms \subseteq Seq(STRING)
    BY TextsAssumption
  <2> QED BY <2>1, <2>2
<1>4. CASE ReadAtom
  <2>1. PICK p \in text.heads, xs \in text.terms : Entry(Sim!ReadAtom(sim, p, xs), Plan!ReadAtom(plan, p, xs))
    BY <1>4 DEF ReadAtom
  <2>2. Onward(sim, Sim!ReadAtom(sim, p, xs)) /\ Onward(plan, Plan!ReadAtom(plan, p, xs))
    BY <1>3, AtomRead
  <2> QED BY <1>2, <2>1, <2>2, TypedOnward
<1>5. CASE ReadEqual
  <2>1. PICK e \in text.equal : Entry(Sim!ReadEqual(sim, e[1], e[2]), Plan!ReadEqual(plan, e[1], e[2]))
    BY <1>5 DEF ReadEqual
  <2> QED BY <1>2, <2>1, EqualRead, TypedOnward
<1>6. CASE ReadChange
  <2>1. PICK p \in text.heads, xs \in text.terms : Entry(Sim!ReadChange(sim, p, xs), Plan!ReadChange(plan, p, xs))
    BY <1>6 DEF ReadChange
  <2>2. Onward(sim, Sim!ReadChange(sim, p, xs)) /\ Onward(plan, Plan!ReadChange(plan, p, xs))
    BY <1>3, ChangeRead
  <2> QED BY <1>2, <2>1, <2>2, TypedOnward
<1>7. CASE ReadUpdate
  <2>1. PICK f \in text.fluents, op \in {"assign", "increase"}, constant \in BOOLEAN :
           Entry(Sim!ReadUpdate(sim, op, f, <<>>, constant), Plan!ReadUpdate(plan, op, f, <<>>, constant))
    BY <1>7 DEF ReadUpdate
  <2>2. Onward(sim, Sim!ReadUpdate(sim, op, f, <<>>, constant)) /\ Onward(plan, Plan!ReadUpdate(plan, op, f, <<>>, constant))
    BY <1>3, ChangeRead
  <2> QED BY <1>2, <2>1, <2>2, TypedOnward
<1>8. CASE ReadValue
  <2>1. PICK f \in text.fluents :
           Entry(Sim!ReadValue(sim, f), Plan!ReadApplication(plan, f, <<>>))
    BY <1>8 DEF ReadValue
  <2>2. Onward(sim, Sim!ReadFluent(sim, f, <<>>, "formula")) /\ Onward(plan, Plan!ReadApplication(plan, f, <<>>))
    BY <1>3, AtomRead
  <2>3. PICK q, v : q = Sim!ReadFluent(sim, f, <<>>, "formula") /\ Sim!ReadValue(sim, f) = [q EXCEPT !.values = v]
    BY DEF Sim!ReadValue
  <2>4. Onward(q, [q EXCEPT !.values = v])
    <3>1. "values" \notin Core
      BY DEF Core
    <3> QED BY <3>1, IdleOne, IdleSteady
  <2>5. Onward(sim, Sim!ReadValue(sim, f))
    BY <2>2, <2>3, <2>4, OnwardTwice
  <2> QED BY <1>2, <2>1, <2>2, <2>5, TypedOnward
<1>9. CASE ReadOutcomes
  <2>1. PICK w \in text.weights : Entry(Sim!ReadOutcomes(sim, w, 4), Plan!ReadOutcomes(plan, w, 4))
    BY <1>9 DEF ReadOutcomes
  <2> QED BY <1>2, <2>1, OutcomesRead, TypedOnward
<1> QED BY <1>4, <1>5, <1>6, <1>7, <1>8, <1>9

LEMMA TypedStepOpen == ASSUME TypedInv, OpenAction \/ OpenQuantifier PROVE TypedInv'
<1>1. section \in 1..12 /\ text \in Texts
  BY DEF TypedInv
<1>2. section \in {6, 9, 10, 11}
  <2>1. In({"actions"}) \/ In({"goal"})
    BY DEF OpenAction, OpenQuantifier, InFormula
  <2> QED BY <1>1, <2>1, SectionsAre
<1>3. \A xs \in text.binders : xs \in Seq(VariableNames \X SUBSET STRING)
  <2>1. PICK t \in Texts : t = text
    BY <1>1
  <2>2. t.binders \subseteq Seq(VariableNames \X SUBSET STRING)
    BY TextsAssumption
  <2> QED BY <2>1, <2>2
<1>4. CASE OpenAction
  <2>1. PICK a \in text.actions, xs \in text.binders :
          Entry(Sim!AddVariables(Sim!MakeAction(sim, a), xs), Plan!AddVariables(Plan!MakeAction(plan, a), xs))
    BY <1>4 DEF OpenAction
  <2>2. /\ Onward(sim, Sim!AddVariables(Sim!MakeAction(sim, a), xs))
        /\ Onward(plan, Plan!AddVariables(Plan!MakeAction(plan, a), xs))
    BY <1>3, ScopesRead
  <2> QED BY <1>2, <2>1, <2>2, TypedOnward
<1>5. CASE OpenQuantifier
  <2>1. PICK requirement \in text.quantifiers, xs \in text.binders :
          Entry(Sim!AddVariables(Sim!Prepare(sim, requirement), xs), Plan!AddVariables(Plan!Prepare(plan, requirement), xs))
    BY <1>5 DEF OpenQuantifier
  <2>2. /\ Onward(sim, Sim!AddVariables(Sim!Prepare(sim, requirement), xs))
        /\ Onward(plan, Plan!AddVariables(Plan!Prepare(plan, requirement), xs))
    BY <1>3, ScopesRead
  <2> QED BY <1>2, <2>1, <2>2, TypedOnward
<1> QED BY <1>4, <1>5


LEMMA TypedStepClose == ASSUME TypedInv, BindersInv, Close PROVE TypedInv'
<1>1. text \in Texts /\ section \in 1..12 /\ At(sim, section) /\ At(plan, section)
  BY DEF TypedInv
<1>2. section \in {6, 10} /\ text' = text /\ section' = section
  BY DEF Close, BindersInv
<1>3. PICK s, p : s = sim' /\ p = plan'
  OBVIOUS
<1>4. \/ s \in {sim, Sim!AddAction(sim)} /\ p \in {plan, Plan!AddAction(plan)}
      \/ s \in {sim, Sim!MakeQuantified(sim)} /\ p \in {plan, Plan!MakeQuantified(plan)}
  BY <1>3 DEF Close
<1>5. <<>> \in Seq({})
  OBVIOUS
<1>6. Onward(sim, s) /\ Onward(plan, p)
  <2>1. \A r : /\ Onward(r, Sim!AddAction(r)) /\ Onward(r, Plan!AddAction(r))
              /\ Onward(r, Sim!MakeQuantified(r)) /\ Onward(r, Plan!MakeQuantified(r)) /\ Onward(r, r)
    BY <1>5, ScopesRead, OnwardTwice
  <2> QED BY <1>4, <2>1
<1>7. At(s, section) /\ At(p, section)
  <2>1. section \in {6, 9, 10, 11}
    BY <1>2
  <2>2. Allowed(sim, s, section) /\ Allowed(plan, p, section)
    BY <1>6, <2>1 DEF Allowed
  <2> QED BY <1>1, <2>2, AllowedStays
<1> QED BY <1>1, <1>2, <1>3, <1>7 DEF TypedInv

LEMMA NextAt ==
  ASSUME NEW r, NEW k \in 1..12, k \notin {6, 12}, At(r, k)
  PROVE  At(r, k + 1)
<1>1. k + 1 <= 5 => k <= 5
  OBVIOUS
<1>2. k + 1 <= 6 => k <= 6
  OBVIOUS
<1>3. k + 1 \in {7, 8} => k \in {7, 8}
  OBVIOUS
<1> QED BY <1>1, <1>2, <1>3 DEF At

LEMMA TypedStepSection ==
  ASSUME TypedInv, NextSection \/ BeginProblem \/ EndProblem
  PROVE  TypedInv'
<1>1. text \in Texts /\ section \in 1..12 /\ At(sim, section) /\ At(plan, section)
  BY DEF TypedInv
<1>2. PICK s, p : s = sim' /\ p = plan'
  OBVIOUS
<1>3. text' = text /\ section' = section + 1
  BY DEF NextSection, BeginProblem, EndProblem
<1>4. SUFFICES section + 1 \in 1..12 /\ At(s, section + 1) /\ At(p, section + 1)
  BY <1>1, <1>2, <1>3 DEF TypedInv
<1>5. CASE NextSection
  <2>1. section \notin {6, 11, 12}
    BY <1>1, <1>5, SectionsAre DEF NextSection, In
  <2>2. section + 1 \in 1..12 /\ section \notin {6, 12}
    BY <1>1, <2>1
  <2>3. s = sim /\ p = plan
    BY <1>2, <1>5 DEF NextSection
  <2> QED BY <1>1, <2>2, <2>3, NextAt
<1>6. CASE BeginProblem
  <2>1. section = 6
    BY <1>1, <1>6, SectionsAre DEF BeginProblem
  <2>2. PICK known : /\ s = IF sim.end = "" THEN Sim!MakeProblem(sim, known) ELSE sim
                     /\ p = IF plan.end = "" THEN Plan!MakeProblem(plan, known) ELSE plan
    BY <1>2, <1>6 DEF BeginProblem
  <2>3. ASSUME NEW r, At(r, section) PROVE Typing(r) /\ (Good(r) => ~r.problem)
    BY <2>1, <2>3 DEF At
  <2>4. ASSUME NEW r, Typing(r), Good(r) => r.problem /\ Settled(r) PROVE At(r, 7)
    BY <2>4 DEF At
  <2>5. ASSUME NEW r, At(r, section), r.end # "" PROVE At(r, 7)
    BY <2>3, <2>4, <2>5 DEF Good
  <2>6. At(s, 7)
    BY <1>1, <2>2, <2>3, <2>4, <2>5, ProblemMade
  <2>7. At(p, 7)
    BY <1>1, <2>2, <2>3, <2>4, <2>5, ProblemMade
  <2> QED BY <2>1, <2>6, <2>7
<1>7. CASE EndProblem
  <2>1. section = 11
    BY <1>1, <1>7, SectionsAre DEF EndProblem
  <2>2. PICK q : q \in {sim, Sim!SetGoalReward(sim)} /\ s \in {sim, Sim!Instantiate(q)} /\ p = plan
    BY <1>2, <1>7 DEF EndProblem
  <2>3. Steady(sim, q) /\ Steady(q, Sim!Instantiate(q)) /\ Steady(sim, sim)
    BY <2>2, ProblemEnded, OnwardTwice
  <2>4. Steady(sim, s)
    BY <2>2, <2>3, OnwardTwice
  <2>5. At(s, 11)
    BY <1>1, <2>1, <2>4, AllowedStays DEF Allowed
  <2>6. section + 1 \in 1..12 /\ section \in 1..12 /\ section \notin {6, 12}
    BY <2>1
  <2> QED BY <1>1, <2>1, <2>2, <2>5, <2>6, NextAt
<1> QED BY <1>5, <1>6, <1>7

LEMMA TypedStep == ASSUME TypedInv, BindersInv, [Next]_vars PROVE TypedInv'
<1>1. CASE UNCHANGED vars
  <2>1. text' = text /\ section' = section /\ sim' = sim /\ plan' = plan
    BY <1>1 DEF vars
  <2> QED BY <2>1 DEF TypedInv
<1>2. CASE Next
  BY <1>2, TypedStepDeclare, TypedStepRead, TypedStepOpen, TypedStepClose, TypedStepSection DEF Next
<1> QED BY <1>1, <1>2

LEMMA TypedEnough == ASSUME TypedInv PROVE WellTyped
<1>1. ASSUME NEW r, Typing(r), r.success, r.end = "", NEW a \in r.atoms, a.table # "="
      PROVE  WellTypedIn(r, a)
  <2>1. Sound(r)
    BY <1>1 DEF Typing, Good
  <2>2. AtomOk(r, a)
    BY <1>1, <2>1 DEF Sound, AtomsHold
  <2>3. PICK types : types = r[a.table][a.name]
    OBVIOUS
  <2>4. IsList(types)
    BY <2>1, <2>2, <2>3 DEF Sound, ParamsListed, AtomOk
  <2>5. DOMAIN types = 1..Len(a.terms) /\ Len(a.terms) = Len(types)
    BY <2>2, <2>3, <2>4, ListIs DEF AtomOk
  <2>6. \A i \in DOMAIN types : Subtype(r.types, Sim!TypeOf(r, a.terms[i]), types[i])
    BY <2>2, <2>3, <2>5 DEF AtomOk, Fits
  <2>7. \A t : Sim!TypeOf(r, t) = IF t.var # 0 THEN r.variables[t.var][2]
                                  ELSE IF t.name \in DOMAIN r.objects THEN r.objects[t.name] ELSE r.constants[t.name]
    BY DEF Sim!TypeOf
  <2> QED BY <2>3, <2>5, <2>6, <2>7 DEF WellTypedIn
<1>2. Typing(sim) /\ Typing(plan)
  BY DEF TypedInv, At
<1> QED BY <1>1, <1>2 DEF WellTyped

\* Whatever the file declares and uses, in the order of the sections, and whichever of the
\* predicates, constants and objects get declared by their use: every atom and every
\* application a parser has accepted has as many terms as parameters, and every term is of
\* a type below its parameter's, in mdpsim and in mini-gpt.
THEOREM AtomsStayTyped == Spec => []WellTyped
<1>1. Init => TypedInv /\ BindersInv
  BY InitTyped, InitBinders
<1>2. TypedInv /\ BindersInv /\ [Next]_vars => TypedInv' /\ BindersInv'
  BY TypedStep, BindersStep
<1>3. TypedInv => WellTyped
  BY TypedEnough
<1> QED BY <1>1, <1>2, <1>3, PTL DEF Spec

-----------------------------------------------------------------------------
(* Both parsers make the same of a file: what is done to the record of one  *)
(* and what is done to the record of the other keep the two records twins.  *)

\* The fields in which the two records agree.
Told == {"types", "constants", "objects", "problem", "predicates", "variables", "frames", "quantified",
         "parameters", "name", "actions", "lists", "head", "terms", "term", "atoms"}
Whole(r) == /\ Told \cup {"success", "end", "requirements", "functions", "static"} \subseteq DOMAIN r
            /\ r.success \in BOOLEAN

\* Functions agree as far as both programs know them, what is static among the predicates only.
SameFunctions(F, G) ==
  \A x : x \notin OwnFunctions => /\ x \in DOMAIN F <=> x \in DOMAIN G
                                  /\ x \in DOMAIN F => F[x] = G[x]
SameStatic(A, B) == \A x : <<"predicates", x>> \in A <=> <<"predicates", x>> \in B

Twins(r, p) ==
  /\ \A f \in Told : r[f] = p[f]
  /\ SameFunctions(r.functions, p.functions) /\ SameStatic(r.static, p.static)

\* The file uses none of what the programs take differently.
Own == OwnFunctions \cup {"reward"}
Clean(r, p) ==
  /\ "rewards" \notin r.requirements /\ "rewards" \notin p.requirements
  /\ \A a \in r.atoms \cup p.atoms : a.name \notin Own

Ready(r, p) ==
  Whole(r) /\ Whole(p) /\ r.end = "" /\ p.end = "" /\ r.success /\ p.success /\ Clean(r, p) /\ Twins(r, p)
Matched(r, p) ==
  /\ Whole(r) /\ Whole(p)
  /\ r.end = "" /\ p.end = "" =>
       /\ "rewards" \in r.requirements <=> "rewards" \in p.requirements
       /\ Clean(r, p) => r.success = p.success /\ (r.success => Twins(r, p))

\* What no step of a parser takes back.
Grows(r, s) ==
  Whole(r) =>
    /\ Whole(s) /\ (s.end = "" => r.end = "") /\ (s.success => r.success)
    /\ "rewards" \in s.requirements <=> "rewards" \in r.requirements
    /\ r.atoms \subseteq s.atoms

LEMMA GrowsTwice == ASSUME NEW r, NEW s, NEW u
                    PROVE  Grows(r, r) /\ (Grows(r, s) /\ Grows(s, u) => Grows(r, u))
BY DEF Grows

\* As soon as the two are not twins, nothing more is claimed.
LEMMA MatchedSpoiled ==
  ASSUME NEW r, NEW p, NEW s, NEW q, Matched(r, p), ~Ready(r, p), Grows(r, s), Grows(p, q)
  PROVE  Matched(s, q)
<1>1. /\ Whole(r) /\ Whole(p) /\ Whole(s) /\ Whole(q)
      /\ s.end = "" => r.end = "" /\ (q.end = "" => p.end = "")
  BY DEF Matched, Grows
<1>2. SUFFICES ASSUME s.end = "", q.end = ""
               PROVE  /\ "rewards" \in s.requirements <=> "rewards" \in q.requirements
                      /\ Clean(s, q) => s.success = q.success /\ (s.success => Twins(s, q))
  BY <1>1 DEF Matched
<1>3. r.end = "" /\ p.end = ""
  BY <1>1, <1>2 DEF Grows
<1>4. "rewards" \in s.requirements <=> "rewards" \in q.requirements
  BY <1>1, <1>3 DEF Matched, Grows
<1>5. ASSUME Clean(s, q) PROVE s.success = FALSE /\ q.success = FALSE
  <2>1. Clean(r, p)
    BY <1>1, <1>5 DEF Clean, Grows
  <2>2. r.success = p.success /\ (r.success => Twins(r, p))
    BY <1>1, <1>3, <2>1 DEF Matched
  <2>3. ~r.success /\ ~p.success
    BY <1>1, <1>3, <2>1, <2>2 DEF Ready
  <2> QED BY <1>1, <2>3 DEF Grows, Whole
<1> QED BY <1>4, <1>5

\* So that twins are all that has to be looked at.
LEMMA MatchedReady ==
  ASSUME NEW r, NEW p, NEW s, NEW q, Matched(r, p), Grows(r, s), Grows(p, q), Ready(r, p) => Matched(s, q)
  PROVE  Matched(s, q)
BY MatchedSpoiled

\* A field gets a value, the others stay.
Put(r, s, f, v) ==
  /\ Whole(s) /\ s.end = r.end /\ s.success = r.success /\ s.requirements = r.requirements
  /\ s.functions = r.functions /\ s.static = r.static
  /\ s[f] = v /\ \A g \in Told \ {f} : s[g] = r[g]

LEMMA FieldPut == ASSUME NEW r, Whole(r), NEW f \in Told, NEW v PROVE Put(r, [r EXCEPT ![f] = v], f, v)
<1>1. f \notin {"success", "end", "requirements", "functions", "static"}
  BY DEF Told
<1>2. PICK s : s = [r EXCEPT ![f] = v]
  OBVIOUS
<1>3. DOMAIN s = DOMAIN r /\ f \in DOMAIN r /\ \A g : g \in DOMAIN r => s[g] = IF g = f THEN v ELSE r[g]
  BY <1>2 DEF Whole
<1>4. Whole(s)
  BY <1>1, <1>3 DEF Whole
<1> QED BY <1>1, <1>2, <1>3, <1>4 DEF Whole, Put

\* The same value in a field of both.
LEMMA MatchedField ==
  ASSUME NEW r, NEW p, NEW f \in Told, f # "atoms", NEW v, NEW w, Ready(r, p) => v = w
  PROVE  /\ Grows(r, [r EXCEPT ![f] = v])
         /\ Matched(r, p) => Matched([r EXCEPT ![f] = v], [p EXCEPT ![f] = w])
<1>1. PICK s, q : s = [r EXCEPT ![f] = v] /\ q = [p EXCEPT ![f] = w]
  OBVIOUS
<1>2. (Whole(r) => Put(r, s, f, v)) /\ (Whole(p) => Put(p, q, f, w))
  BY <1>1, FieldPut
<1>3. "atoms" \in Told \ {f}
  BY DEF Told
<1>4. Grows(r, s) /\ Grows(p, q)
  BY <1>2, <1>3 DEF Grows, Put
<1>5. ASSUME Matched(r, p), Ready(r, p) PROVE Matched(s, q)
  <2>1. Put(r, s, f, v) /\ Put(p, q, f, w) /\ Twins(r, p) /\ v = w /\ r.success = p.success /\ Clean(r, p)
    BY <1>2, <1>5 DEF Ready, Whole
  <2>2. Twins(s, q)
    BY <2>1 DEF Twins, Put
  <2> QED BY <2>1, <2>2 DEF Matched, Put, Clean
<1> QED BY <1>1, <1>4, <1>5, MatchedSpoiled

-----------------------------------------------------------------------------
\* What changes one record, but nothing the two agree in.
Aside(r, s) ==
  Whole(r) =>
    /\ Whole(s) /\ s.success = r.success /\ (s.end = "" => r.end = "")
    /\ "rewards" \in s.requirements <=> "rewards" \in r.requirements
    /\ \A f \in Told : s[f] = r[f]
    /\ SameFunctions(r.functions, s.functions) /\ SameStatic(r.static, s.static)

LEMMA AsideTwice ==
  ASSUME NEW r, NEW s, NEW u
  PROVE  Aside(r, r) /\ (Aside(r, s) /\ Aside(s, u) => Aside(r, u))
BY DEF Aside, SameFunctions, SameStatic

LEMMA AsideMatched ==
  ASSUME NEW r, NEW s, Aside(r, s), NEW p
  PROVE  Grows(r, s) /\ (Matched(r, p) => Matched(s, p)) /\ (Matched(p, r) => Matched(p, s))
<1>1. Whole(r) => s.atoms = r.atoms
  BY DEF Aside, Told
<1>2. Grows(r, s) /\ Grows(p, p)
  BY <1>1 DEF Aside, Grows
<1>3. ASSUME Ready(r, p) PROVE Matched(s, p)
  <2>1. Twins(s, p)
    BY <1>3 DEF Ready, Aside, Twins, SameFunctions, SameStatic
  <2> QED BY <1>3, <2>1 DEF Ready, Whole, Aside, Matched, Clean
<1>4. ASSUME Ready(p, r) PROVE Matched(p, s)
  <2>1. Twins(p, s)
    BY <1>4 DEF Ready, Aside, Twins, SameFunctions, SameStatic
  <2> QED BY <1>4, <2>1 DEF Ready, Whole, Aside, Matched, Clean
<1> QED BY <1>2, <1>3, <1>4, MatchedSpoiled

\* Two of them.
LEMMA AsideBoth == ASSUME NEW r, NEW p, NEW s, NEW q, Aside(r, s), Aside(p, q) PROVE Matched(r, p) => Matched(s, q)
BY AsideMatched

LEMMA AsideOne ==
  ASSUME NEW r, NEW f, f \notin Told \cup {"success", "end", "requirements", "functions", "static"}, NEW v
  PROVE  Aside(r, [r EXCEPT ![f] = v])
<1>1. PICK s : s = [r EXCEPT ![f] = v]
  OBVIOUS
<1>2. DOMAIN s = DOMAIN r /\ \A g : g \in DOMAIN r => s[g] = IF g = f THEN v ELSE r[g]
  BY <1>1
<1>3. Whole(r) => Whole(s) /\ \A g \in Told \cup {"success", "end", "requirements", "functions", "static"} : s[g] = r[g]
  BY <1>2 DEF Whole
<1> QED BY <1>1, <1>3 DEF Aside, SameFunctions, SameStatic

\* One of the other fields.
Laid(r, s, f, v) ==
  /\ Whole(s) /\ s[f] = v
  /\ \A g \in Told \cup {"success", "end", "requirements", "functions", "static"} : g # f => s[g] = r[g]

LEMMA OtherPut ==
  ASSUME NEW r, Whole(r), NEW f \in {"end", "requirements", "functions", "static"}, NEW v
  PROVE  Laid(r, [r EXCEPT ![f] = v], f, v)
<1>1. PICK s : s = [r EXCEPT ![f] = v]
  OBVIOUS
<1>2. DOMAIN s = DOMAIN r /\ \A g : g \in DOMAIN r => s[g] = IF g = f THEN v ELSE r[g]
  BY <1>1
<1>3. f # "success"
  OBVIOUS
<1> QED BY <1>1, <1>2, <1>3 DEF Whole, Laid

LEMMA AsideOther ==
  ASSUME NEW r, NEW v
  PROVE  /\ v # "" => Aside(r, [r EXCEPT !.end = v])
         /\ "rewards" \notin v => Aside(r, [r EXCEPT !.requirements = @ \cup v])
         /\ (\A x : <<"predicates", x>> \notin v) => Aside(r, [r EXCEPT !.static = @ \ v]) /\ Aside(r, [r EXCEPT !.static = @ \cup v])
         /\ SameFunctions(r.functions, v) => Aside(r, [r EXCEPT !.functions = v])
<1>1. \A g \in Told : g \notin {"end", "requirements", "functions", "static"}
  BY DEF Told
<1>2. ASSUME v # "" PROVE Aside(r, [r EXCEPT !.end = v])
  <2>1. PICK s : s = [r EXCEPT !.end = v]
    OBVIOUS
  <2>2. Whole(r) => Laid(r, s, "end", v)
    BY <2>1, OtherPut
  <2> QED BY <1>1, <1>2, <2>1, <2>2 DEF Laid, Aside, SameFunctions, SameStatic
<1>3. ASSUME "rewards" \notin v PROVE Aside(r, [r EXCEPT !.requirements = @ \cup v])
  <2>1. PICK w, s : w = r.requirements \cup v /\ s = [r EXCEPT !.requirements = w]
    OBVIOUS
  <2>2. Whole(r) => Laid(r, s, "requirements", w)
    BY <2>1, OtherPut
  <2> QED BY <1>1, <1>3, <2>1, <2>2 DEF Laid, Aside, SameFunctions, SameStatic
<1>4. ASSUME NEW w, SameStatic(r.static, w) PROVE Aside(r, [r EXCEPT !.static = w])
  <2>1. PICK s : s = [r EXCEPT !.static = w]
    OBVIOUS
  <2>2. Whole(r) => Laid(r, s, "static", w)
    BY <2>1, OtherPut
  <2> QED BY <1>1, <1>4, <2>1, <2>2 DEF Laid, Aside, SameFunctions
<1>5. ASSUME \A x : <<"predicates", x>> \notin v
      PROVE  SameStatic(r.static, r.static \ v) /\ SameStatic(r.static, r.static \cup v)
  BY <1>5 DEF SameStatic
<1>6. ASSUME SameFunctions(r.functions, v) PROVE Aside(r, [r EXCEPT !.functions = v])
  <2>1. PICK s : s = [r EXCEPT !.functions = v]
    OBVIOUS
  <2>2. Whole(r) => Laid(r, s, "functions", v)
    BY <2>1, OtherPut
  <2> QED BY <1>1, <1>6, <2>1, <2>2 DEF Laid, Aside, SameStatic
<1> QED BY <1>2, <1>3, <1>4, <1>5, <1>6

LEMMA AsideNoted ==
  ASSUME NEW r, NEW x
  PROVE  /\ x # "rewards" => Aside(r, Sim!Assume(r, x))
         /\ Aside(r, Sim!MakeDynamic(r, "functions", x))
         /\ \A B : Aside(r, Sim!TypeSpec(r, B)) /\ Aside(r, Plan!TypeSpec(r, B))
         /\ \A B : Aside(r, Sim!TypeSpecs(r, B)) /\ Aside(r, Plan!TypeSpecs(r, B))
<1>1. \A q, y : y # "rewards" => Aside(q, Sim!Assume(q, y))
  <2>1. \A y : y # "rewards" => "rewards" \notin {y}
    OBVIOUS
  <2> QED BY <2>1, AsideOther DEF Sim!Assume
<1>2. Aside(r, Sim!MakeDynamic(r, "functions", x))
  <2>1. \A y : <<"predicates", y>> \notin {<<"functions", x>>}
    OBVIOUS
  <2> QED BY <2>1, AsideOther DEF Sim!MakeDynamic
<1>3. ASSUME NEW B PROVE Aside(r, Sim!TypeSpec(r, B)) /\ Aside(r, Sim!TypeSpecs(r, B))
  <2>1. ASSUME NEW q \in {r, Sim!Assume(r, "typing")}
        PROVE  Aside(r, q) /\ Aside(r, [q EXCEPT !.end = "thrown"])
    <3>1. Aside(r, q)
      BY <1>1, <2>1, AsideTwice
    <3>2. Aside(q, [q EXCEPT !.end = "thrown"])
      BY AsideOther
    <3> QED BY <3>1, <3>2, AsideTwice
  <2> QED BY <2>1, SpecifiedIs
<1>4. ASSUME NEW B PROVE Aside(r, Plan!TypeSpec(r, B)) /\ Aside(r, Plan!TypeSpecs(r, B))
  <2>1. {Plan!TypeSpec(r, B), Plan!TypeSpecs(r, B)} \subseteq {r, Sim!Assume(r, "typing")}
    BY Shared DEF Plan!TypeSpec, Plan!TypeSpecs
  <2> QED BY <1>1, <2>1, AsideTwice
<1> QED BY <1>1, <1>2, <1>3, <1>4

-----------------------------------------------------------------------------
\* What changes both.
LEMMA MatchedOther ==
  ASSUME NEW r, NEW p, NEW f \in {"functions", "static"}, NEW v, NEW w,
         Ready(r, p) => IF f = "functions" THEN SameFunctions(v, w) ELSE SameStatic(v, w)
  PROVE  /\ Grows(r, [r EXCEPT ![f] = v])
         /\ Matched(r, p) => Matched([r EXCEPT ![f] = v], [p EXCEPT ![f] = w])
<1>1. PICK s, q : s = [r EXCEPT ![f] = v] /\ q = [p EXCEPT ![f] = w]
  OBVIOUS
<1>2. (Whole(r) => Laid(r, s, f, v)) /\ (Whole(p) => Laid(p, q, f, w))
  BY <1>1, OtherPut
<1>3. \A g \in Told \cup {"success", "end", "requirements"} : g # f
  BY DEF Told
<1>4. "atoms" \in Told
  BY DEF Told
<1>5. ASSUME NEW u, NEW y, NEW z, Whole(u) => Laid(u, y, f, z) PROVE Grows(u, y)
  BY <1>3, <1>4, <1>5 DEF Grows, Laid
<1>6. Grows(r, s) /\ Grows(p, q)
  BY <1>2, <1>5
<1>7. ASSUME Matched(r, p), Ready(r, p) PROVE Matched(s, q)
  <2>1. Laid(r, s, f, v) /\ Laid(p, q, f, w) /\ Twins(r, p) /\ r.success = p.success /\ Clean(r, p)
    BY <1>2, <1>7 DEF Ready, Whole
  <2>2. \A g \in Told : s[g] = q[g]
    BY <1>3, <2>1 DEF Laid, Twins
  <2>3. SameFunctions(s.functions, q.functions) /\ SameStatic(s.static, q.static)
    <3>1. CASE f = "functions"
      <4>1. s.functions = v /\ q.functions = w /\ s.static = r.static /\ q.static = p.static
        BY <2>1, <3>1 DEF Laid
      <4> QED BY <1>7, <2>1, <3>1, <4>1 DEF Twins
    <3>2. CASE f = "static"
      <4>1. s.static = v /\ q.static = w /\ s.functions = r.functions /\ q.functions = p.functions
        BY <2>1, <3>2 DEF Laid
      <4> QED BY <1>7, <2>1, <3>2, <4>1 DEF Twins
    <3> QED BY <3>1, <3>2
  <2>4. Twins(s, q)
    BY <2>2, <2>3 DEF Twins
  <2>5. /\ s.success = r.success /\ q.success = p.success
        /\ s.requirements = r.requirements /\ q.requirements = p.requirements
    BY <1>3, <2>1 DEF Laid
  <2>6. Whole(s) /\ Whole(q)
    BY <2>1 DEF Laid
  <2> QED BY <1>7, <2>4, <2>5, <2>6 DEF Matched, Clean, Ready
<1> QED BY <1>1, <1>6, <1>7, MatchedSpoiled

LEMMA MatchedChecked ==
  ASSUME NEW r, NEW p, NEW c \in BOOLEAN, NEW d \in BOOLEAN, Ready(r, p) => c = d
  PROVE  /\ Grows(r, Sim!Check(r, c)) /\ Grows(r, Sim!Fail(r))
         /\ Matched(r, p) => Matched(Sim!Check(r, c), Sim!Check(p, d)) /\ Matched(Sim!Fail(r), Sim!Fail(p))
<1>1. ASSUME NEW u, NEW y, y = Sim!Fail(u)
      PROVE  Grows(u, y) /\ (Whole(u) => Whole(y) /\ ~y.success /\ y.requirements = u.requirements)
  <2>1. Whole(u) => /\ DOMAIN y = DOMAIN u /\ ~y.success /\ y.success \in BOOLEAN /\ y.end = u.end
                    /\ y.requirements = u.requirements /\ y.atoms = u.atoms
    BY <1>1 DEF Sim!Fail, Whole, Told
  <2>2. Whole(u) => Whole(y)
    BY <2>1 DEF Whole
  <2> QED BY <2>1, <2>2 DEF Grows
<1>2. PICK s, q : s = Sim!Fail(r) /\ q = Sim!Fail(p)
  OBVIOUS
<1>3. Grows(r, s) /\ Grows(p, q) /\ Grows(r, r) /\ Grows(p, p)
  BY <1>1, <1>2, GrowsTwice
<1>4. ASSUME Ready(r, p) PROVE Matched(s, q)
  <2>1. /\ Whole(s) /\ ~s.success /\ s.requirements = r.requirements
        /\ Whole(q) /\ ~q.success /\ q.requirements = p.requirements
    BY <1>1, <1>2, <1>4 DEF Ready
  <2>2. s.success = q.success
    BY <2>1 DEF Whole
  <2> QED BY <1>4, <2>1, <2>2 DEF Ready, Clean, Matched
<1>5. Sim!Check(r, c) = (IF c THEN r ELSE s) /\ Sim!Check(p, d) = (IF d THEN p ELSE q)
  BY <1>2 DEF Sim!Check
<1>6. PICK y, z : y = (IF c THEN r ELSE s) /\ z = IF d THEN p ELSE q
  OBVIOUS
<1>7. Grows(r, y) /\ Grows(p, z)
  BY <1>3, <1>6
<1>8. ASSUME Matched(r, p) PROVE Matched(y, z) /\ Matched(s, q)
  <2>1. Matched(s, q)
    BY <1>3, <1>4, <1>8, MatchedSpoiled
  <2>2. Ready(r, p) => Matched(y, z)
    BY <1>6, <1>8, <2>1
  <2> QED BY <1>7, <1>8, <2>1, <2>2, MatchedSpoiled
<1> QED BY <1>2, <1>3, <1>5, <1>6, <1>7, <1>8

\* Twins agree in each of these.
LEMMA TwinsAre ==
  ASSUME NEW r, NEW p, Ready(r, p)
  PROVE  /\ r.types = p.types /\ r.constants = p.constants /\ r.objects = p.objects /\ r.problem = p.problem
         /\ r.predicates = p.predicates /\ r.variables = p.variables /\ r.frames = p.frames
         /\ r.quantified = p.quantified /\ r.parameters = p.parameters /\ r.name = p.name
         /\ r.actions = p.actions /\ r.lists = p.lists /\ r.head = p.head /\ r.terms = p.terms
         /\ r.term = p.term /\ r.atoms = p.atoms
         /\ r.end = "" /\ p.end = "" /\ Clean(r, p) /\ SameFunctions(r.functions, p.functions)
BY DEF Ready, Twins, Told

LEMMA MatchedTables ==
  ASSUME NEW r, NEW p, NEW x
  PROVE  /\ Grows(r, Sim!AddPredicate(r, x)) /\ Grows(r, Sim!MakeDynamic(r, "predicates", x))
         /\ Matched(r, p) => /\ Matched(Sim!AddPredicate(r, x), Sim!AddPredicate(p, x))
                             /\ Matched(Sim!MakeDynamic(r, "predicates", x), Sim!MakeDynamic(p, "predicates", x))
<1>1. ASSUME NEW u, NEW y, NEW A, NEW B, A = (u.static \cup {<<"predicates", x>>}), B = (y.static \cup {<<"predicates", x>>})
      PROVE  /\ Grows(u, [u EXCEPT !.static = A])
             /\ Matched(u, y) => Matched([u EXCEPT !.static = A], [y EXCEPT !.static = B])
  <2>1. Ready(u, y) => SameStatic(A, B)
    BY <1>1 DEF Ready, Twins, SameStatic
  <2> QED BY <2>1, MatchedOther
<1>2. ASSUME NEW A, NEW B, A = (r.static \ {<<"predicates", x>>}), B = (p.static \ {<<"predicates", x>>})
      PROVE  /\ Grows(r, [r EXCEPT !.static = A])
             /\ Matched(r, p) => Matched([r EXCEPT !.static = A], [p EXCEPT !.static = B])
  <2>1. Ready(r, p) => SameStatic(A, B)
    BY <1>2 DEF Ready, Twins, SameStatic
  <2> QED BY <2>1, MatchedOther
<1>3. PICK v, w : v = Sim!WithEntry(r.predicates, x, <<>>) /\ w = Sim!WithEntry(p.predicates, x, <<>>)
  OBVIOUS
<1>4. PICK s, q : s = [r EXCEPT !.predicates = v] /\ q = [p EXCEPT !.predicates = w]
  OBVIOUS
<1>5. Grows(r, s) /\ (Matched(r, p) => Matched(s, q))
  <2>1. Ready(r, p) => v = w
    BY <1>3, TwinsAre
  <2>2. "predicates" \in Told /\ "predicates" # "atoms"
    BY DEF Told
  <2> QED BY <1>4, <2>1, <2>2, MatchedField
<1>6. Sim!AddPredicate(r, x) = [s EXCEPT !.static = s.static \cup {<<"predicates", x>>}]
  BY <1>3, <1>4 DEF Sim!AddPredicate
<1>7. Sim!AddPredicate(p, x) = [q EXCEPT !.static = q.static \cup {<<"predicates", x>>}]
  BY <1>3, <1>4 DEF Sim!AddPredicate
<1>8. PICK A, B : A = (s.static \cup {<<"predicates", x>>}) /\ B = (q.static \cup {<<"predicates", x>>})
  OBVIOUS
<1>9. /\ Grows(s, [s EXCEPT !.static = A])
      /\ Matched(s, q) => Matched([s EXCEPT !.static = A], [q EXCEPT !.static = B])
  BY <1>1, <1>8
<1>10. /\ Grows(r, Sim!AddPredicate(r, x))
       /\ Matched(r, p) => Matched(Sim!AddPredicate(r, x), Sim!AddPredicate(p, x))
  BY <1>5, <1>6, <1>7, <1>8, <1>9, GrowsTwice
<1>11. /\ Sim!MakeDynamic(r, "predicates", x) = [r EXCEPT !.static = r.static \ {<<"predicates", x>>}]
       /\ Sim!MakeDynamic(p, "predicates", x) = [p EXCEPT !.static = p.static \ {<<"predicates", x>>}]
  BY DEF Sim!MakeDynamic
<1>12. /\ Grows(r, Sim!MakeDynamic(r, "predicates", x))
       /\ Matched(r, p) => Matched(Sim!MakeDynamic(r, "predicates", x), Sim!MakeDynamic(p, "predicates", x))
  <2>1. PICK C, D : C = (r.static \ {<<"predicates", x>>}) /\ D = (p.static \ {<<"predicates", x>>})
    OBVIOUS
  <2>2. /\ Grows(r, [r EXCEPT !.static = C])
        /\ Matched(r, p) => Matched([r EXCEPT !.static = C], [p EXCEPT !.static = D])
    BY <1>2, <2>1
  <2> QED BY <1>11, <2>1, <2>2
<1> QED BY <1>10, <1>12

LEMMA GrowsOne ==
  ASSUME NEW r, NEW v
  PROVE  /\ \A f \in (Told \ {"atoms"}) \cup {"functions", "static"} : Grows(r, [r EXCEPT ![f] = v])
         /\ v # "" => Grows(r, [r EXCEPT !.end = v])
<1>1. ASSUME NEW f \in Told \ {"atoms"} PROVE Grows(r, [r EXCEPT ![f] = v])
  BY <1>1, MatchedField
<1>2. SameFunctions(v, v) /\ SameStatic(v, v)
  BY DEF SameFunctions, SameStatic
<1>3. ASSUME NEW f \in {"functions", "static"} PROVE Grows(r, [r EXCEPT ![f] = v])
  BY <1>2, <1>3, MatchedOther
<1>4. ASSUME v # "" PROVE Grows(r, [r EXCEPT !.end = v])
  BY <1>4, AsideOther, AsideMatched
<1> QED BY <1>1, <1>3, <1>4

WithFunctions(r, v, x) == [[r EXCEPT !.functions = v] EXCEPT !.static = @ \cup {<<"functions", x>>}]

LEMMA FunctionsLaid ==
  ASSUME NEW r, NEW p, NEW v, NEW w, NEW x, Ready(r, p) => SameFunctions(v, w)
  PROVE  Matched(r, p) => Matched(WithFunctions(r, v, x), WithFunctions(p, w, x))
<1>0. PICK s, q : s = [r EXCEPT !.functions = v] /\ q = [p EXCEPT !.functions = w]
  OBVIOUS
<1>01. PICK y, z : /\ y = [s EXCEPT !.static = @ \cup {<<"functions", x>>}]
                  /\ z = [q EXCEPT !.static = @ \cup {<<"functions", x>>}]
  OBVIOUS
<1>02. y = WithFunctions(r, v, x) /\ z = WithFunctions(p, w, x)
  BY <1>0, <1>01 DEF WithFunctions
<1>1. Matched(r, p) => Matched(s, q)
  BY <1>0, GrowsOne, MatchedOther
<1>2. Aside(s, y) /\ Aside(q, z)
  <2>1. \A u : <<"predicates", u>> \notin {<<"functions", x>>}
    OBVIOUS
  <2> QED BY <1>01, <2>1, AsideOther
<1> QED BY <1>02, <1>1, <1>2, AsideBoth

LEMMA MatchedFunction ==
  ASSUME NEW r, NEW p, NEW x
  PROVE  /\ Grows(r, Sim!AddFunction(r, x)) /\ Grows(p, Plan!AddFunction(p, x))
         /\ x \in OwnFunctions \/ (Ready(r, p) => x \notin DOMAIN r.functions) =>
              (Matched(r, p) => Matched(Sim!AddFunction(r, x), Plan!AddFunction(p, x)))
<1>1. PICK v, w : /\ v = IF x \in DOMAIN r.functions THEN r.functions ELSE Sim!WithEntry(r.functions, x, <<>>)
                  /\ w = Plan!WithEntry(p.functions, x, <<>>)
  OBVIOUS
<1>2. PICK s, q : s = [r EXCEPT !.functions = v] /\ q = [p EXCEPT !.functions = w]
  OBVIOUS
<1>3. PICK y, z : /\ y = [s EXCEPT !.static = @ \cup {<<"functions", x>>}]
                  /\ z = [q EXCEPT !.static = @ \cup {<<"functions", x>>}]
  OBVIOUS
<1>4. y = Sim!AddFunction(r, x)
  BY <1>1, <1>2, <1>3 DEF Sim!AddFunction
<1>5. z = Plan!AddFunction(p, x)
  BY <1>1, <1>2, <1>3 DEF Plan!AddFunction
<1>6. Grows(r, y) /\ Grows(p, z)
  <2>1. "functions" \in (Told \ {"atoms"}) \cup {"functions", "static"}
        /\ "static" \in (Told \ {"atoms"}) \cup {"functions", "static"}
    OBVIOUS
  <2> QED BY <1>2, <1>3, <2>1, GrowsOne, GrowsTwice
<1>7. ASSUME x \in OwnFunctions \/ (Ready(r, p) => x \notin DOMAIN r.functions), Matched(r, p)
      PROVE  Matched(y, z)
  <2>1. ASSUME Ready(r, p) PROVE SameFunctions(v, w)
    <3>1. SameFunctions(r.functions, p.functions)
      BY <2>1, TwinsAre
    <3>2. CASE x \in OwnFunctions
      BY <1>1, <3>1, <3>2 DEF SameFunctions, Sim!WithEntry, Plan!WithEntry
    <3>3. CASE x \notin DOMAIN r.functions
      BY <1>1, <3>1, <3>3 DEF SameFunctions, Sim!WithEntry, Plan!WithEntry
    <3> QED BY <1>7, <2>1, <3>2, <3>3
  <2>2. Ready(r, p) => SameFunctions(v, w)
    BY <2>1
  <2>3. y = WithFunctions(r, v, x) /\ z = WithFunctions(p, w, x)
    BY <1>2, <1>3 DEF WithFunctions
  <2>4. Matched(r, p) => Matched(y, z)
    BY <2>2, <2>3, FunctionsLaid
  <2> QED BY <1>7, <2>4
<1> QED BY <1>4, <1>5, <1>6, <1>7

LEMMA AsideOwn ==
  ASSUME NEW r, NEW x \in OwnFunctions
  PROVE  Aside(r, Sim!AddFunction(r, x)) /\ Aside(r, Plan!AddFunction(r, x))
<1>1. ASSUME NEW v, SameFunctions(r.functions, v),
             NEW s, s = [[r EXCEPT !.functions = v] EXCEPT !.static = @ \cup {<<"functions", x>>}]
      PROVE  Aside(r, s)
  <2>1. PICK q : q = [r EXCEPT !.functions = v]
    OBVIOUS
  <2>2. Aside(r, q)
    BY <1>1, <2>1, AsideOther
  <2>3. Aside(q, s)
    <3>1. \A u : <<"predicates", u>> \notin {<<"functions", x>>}
      OBVIOUS
    <3>2. s = [q EXCEPT !.static = @ \cup {<<"functions", x>>}]
      BY <1>1, <2>1
    <3> QED BY <3>1, <3>2, AsideOther
  <2> QED BY <2>2, <2>3, AsideTwice
<1>2. PICK v, w : /\ v = IF x \in DOMAIN r.functions THEN r.functions ELSE Sim!WithEntry(r.functions, x, <<>>)
                  /\ w = Plan!WithEntry(r.functions, x, <<>>)
  OBVIOUS
<1>3. SameFunctions(r.functions, v) /\ SameFunctions(r.functions, w)
  BY <1>2 DEF SameFunctions, Sim!WithEntry, Plan!WithEntry
<1>4. Sim!AddFunction(r, x) = [[r EXCEPT !.functions = v] EXCEPT !.static = @ \cup {<<"functions", x>>}]
  BY <1>2 DEF Sim!AddFunction
<1>5. Plan!AddFunction(r, x) = [[r EXCEPT !.functions = w] EXCEPT !.static = @ \cup {<<"functions", x>>}]
  BY <1>2 DEF Plan!AddFunction
<1> QED BY <1>1, <1>3, <1>4, <1>5

-----------------------------------------------------------------------------
\* One step of the one parser beside one of the other.
Together(r, p, s, q) == Grows(r, s) /\ Grows(p, q) /\ (Matched(r, p) => Matched(s, q))

LEMMA TogetherTwice ==
  ASSUME NEW r, NEW p, NEW s, NEW q, Together(r, p, s, q)
  PROVE  \A u, w : Together(s, q, u, w) => Together(r, p, u, w)
BY GrowsTwice DEF Together

LEMMA TogetherSame == ASSUME NEW r, NEW p PROVE Together(r, p, r, p)
BY GrowsTwice DEF Together

LEMMA TogetherReady ==
  ASSUME NEW r, NEW p, NEW s, NEW q, Grows(r, s), Grows(p, q), Ready(r, p) => Matched(s, q)
  PROVE  Together(r, p, s, q)
BY MatchedReady DEF Together

LEMMA ReadyIs == ASSUME NEW r, NEW p, Ready(r, p) PROVE Matched(r, p) /\ Whole(r) /\ Whole(p)
BY DEF Ready, Matched, Clean

LEMMA EndedMatched == ASSUME NEW s, NEW q, Whole(s), Whole(q), s.end # "" \/ q.end # "" PROVE Matched(s, q)
BY DEF Matched

LEMMA TogetherAside == ASSUME NEW r, NEW p, NEW s, NEW q, Aside(r, s), Aside(p, q) PROVE Together(r, p, s, q)
BY AsideBoth, AsideMatched DEF Together

LEMMA TogetherField ==
  ASSUME NEW r, NEW p, NEW f \in Told \ {"atoms"}, NEW v, NEW w, Ready(r, p) => v = w
  PROVE  Together(r, p, [r EXCEPT ![f] = v], [p EXCEPT ![f] = w])
<1>1. Matched(r, p) => Matched([r EXCEPT ![f] = v], [p EXCEPT ![f] = w])
  BY MatchedField
<1>2. Grows(r, [r EXCEPT ![f] = v]) /\ Grows(p, [p EXCEPT ![f] = w])
  BY GrowsOne
<1> QED BY <1>1, <1>2 DEF Together

LEMMA TogetherChecked ==
  ASSUME NEW r, NEW p, NEW c \in BOOLEAN, NEW d \in BOOLEAN, Ready(r, p) => c = d
  PROVE  Together(r, p, Sim!Check(r, c), Plan!Check(p, d))
<1>1. Grows(r, Sim!Check(r, c)) /\ (Matched(r, p) => Matched(Sim!Check(r, c), Sim!Check(p, d)))
  BY MatchedChecked
<1>2. Grows(p, Sim!Check(p, d))
  BY MatchedChecked
<1> QED BY <1>1, <1>2, Shared DEF Together

LEMMA TogetherFailed == ASSUME NEW r, NEW p PROVE Together(r, p, Sim!Fail(r), Plan!Fail(p))
<1>1. Sim!Fail(r) = Sim!Check(r, FALSE) /\ Plan!Fail(p) = Plan!Check(p, FALSE)
  BY DEF Sim!Check, Plan!Check
<1> QED BY <1>1, TogetherChecked

LEMMA TogetherNoted ==
  ASSUME NEW r, NEW p, NEW x, x # "rewards" PROVE Together(r, p, Sim!Assume(r, x), Plan!Assume(p, x))
<1>1. Aside(r, Sim!Assume(r, x)) /\ Aside(p, Plan!Assume(p, x))
  BY AsideNoted, Shared
<1> QED BY <1>1, TogetherAside

LEMMA TogetherDynamic ==
  ASSUME NEW r, NEW p, NEW x
  PROVE  Together(r, p, Sim!MakeDynamic(r, "functions", x), Plan!MakeDynamic(p, "functions", x))
<1>1. Aside(r, Sim!MakeDynamic(r, "functions", x)) /\ Aside(p, Plan!MakeDynamic(p, "functions", x))
  BY AsideNoted, Shared
<1> QED BY <1>1, TogetherAside

LEMMA TogetherSpecified ==
  ASSUME NEW r, NEW p, NEW B PROVE Together(r, p, Sim!TypeSpec(r, B), Plan!TypeSpec(p, B))
<1>1. Aside(r, Sim!TypeSpec(r, B)) /\ Aside(p, Plan!TypeSpec(p, B))
  BY AsideNoted
<1> QED BY <1>1, TogetherAside

LEMMA TogetherTables ==
  ASSUME NEW r, NEW p, NEW x
  PROVE  /\ Together(r, p, Sim!AddPredicate(r, x), Plan!AddPredicate(p, x))
         /\ Together(r, p, Sim!MakeDynamic(r, "predicates", x), Plan!MakeDynamic(p, "predicates", x))
<1>1. \A u : Grows(u, Sim!AddPredicate(u, x)) /\ Grows(u, Sim!MakeDynamic(u, "predicates", x))
  BY MatchedTables
<1> QED BY <1>1, MatchedTables, Shared DEF Together

-----------------------------------------------------------------------------
\* Types and names.
LEMMA PlannerTypes ==
  \A T, t, B : /\ Plan!AddSupertypes(T, t, B) = AddSupertypes(T, t, B)
               /\ Plan!AllAcyclic(T, t, B) = AllAcyclic(T, t, B)
BY DEF Plan!AddSupertypes, AddSupertypes, Plan!AllAcyclic, AllAcyclic, Plan!AddSupertype, AddSupertype,
       Plan!Acyclic, Acyclic, Plan!Linked, Linked, Plan!Below, Below, Plan!Names, Names,
       Plan!Components, Components, Plan!OBJECT, OBJECT, Plan!SetToSeq, SetToSeq, Plan!IsInjective, IsInjective,
       Plan!Cardinality, Cardinality

\* mdpsim throws an exception where mini-gpt takes object.
LEMMA NoTypes == ASSUME NEW r, NEW B, NEW q, Ready(Sim!TypeSpec(r, B), q) PROVE B # {} /\ Plan!Union(B) = B
<1>1. PICK s : s = Sim!TypeSpec(r, B)
  OBVIOUS
<1>2. "end" \in DOMAIN s /\ s.end = ""
  BY <1>1 DEF Ready, Whole
<1>3. B # {}
  <2>1. SUFFICES ASSUME B = {} PROVE FALSE
    OBVIOUS
  <2>2. PICK u : u = IF B = {Sim!OBJECT} THEN r ELSE Sim!Assume(r, "typing")
    OBVIOUS
  <2>3. s = [u EXCEPT !.end = "thrown"]
    BY <1>1, <2>1, <2>2 DEF Sim!TypeSpec
  <2> QED BY <1>2, <2>3
<1> QED BY <1>3 DEF Plan!Union

LEMMA TogetherType ==
  ASSUME NEW r, NEW p, NEW x, NEW B, Ready(r, p) => B # {}
  PROVE  Together(r, p, Sim!AddTypeName(r, x, B), Plan!AddTypeName(p, x, B))
<1>1. PICK C : C = Plan!Union(B)
  OBVIOUS
<1>2. Ready(r, p) => C = B
  BY <1>1 DEF Plan!Union
<1>3. PICK v, w : v = AddSupertypes(r.types, x, B) /\ w = AddSupertypes(p.types, x, C)
  OBVIOUS
<1>4. PICK c \in BOOLEAN, d \in BOOLEAN : c = AllAcyclic(r.types, x, B) /\ d = AllAcyclic(p.types, x, C)
  BY DEF AllAcyclic
<1>5. PICK s, q : s = [r EXCEPT !.types = v] /\ q = [p EXCEPT !.types = w]
  OBVIOUS
<1>6. Together(r, p, s, q)
  <2>1. Ready(r, p) => v = w
    BY <1>2, <1>3, TwinsAre
  <2>2. "types" \in Told \ {"atoms"}
    BY DEF Told
  <2> QED BY <1>5, <2>1, <2>2, TogetherField
<1>7. Together(r, p, Sim!Check(s, c), Plan!Check(q, d))
  <2>1. Grows(s, Sim!Check(s, c)) /\ Grows(q, Plan!Check(q, d))
    BY TogetherChecked, MatchedChecked, Shared
  <2>2. ASSUME Ready(r, p) PROVE Matched(Sim!Check(s, c), Plan!Check(q, d))
    <3>1. c = d
      BY <1>2, <1>4, <2>2, TwinsAre
    <3> QED BY <1>6, <2>2, <3>1, ReadyIs, TogetherChecked DEF Together
  <2> QED BY <1>6, <2>1, <2>2, GrowsTwice, TogetherReady DEF Together
<1>8. x \notin {OBJECT, "number"} => Sim!AddTypeName(r, x, B) = Sim!Check(s, c)
  BY <1>3, <1>4, <1>5, SameTypes DEF Sim!AddTypeName, Sim!OBJECT, OBJECT
<1>9. x \notin {OBJECT, "number"} => Plan!AddTypeName(p, x, B) = Plan!Check(q, d)
  BY <1>1, <1>3, <1>4, <1>5, PlannerTypes DEF Plan!AddTypeName, Plan!OBJECT, OBJECT
<1>10. x \in {OBJECT, "number"} => Sim!AddTypeName(r, x, B) = r /\ Plan!AddTypeName(p, x, B) = p
  BY DEF Sim!AddTypeName, Sim!OBJECT, Plan!AddTypeName, Plan!OBJECT, OBJECT
<1> QED BY <1>7, <1>8, <1>9, <1>10, TogetherSame

LEMMA TogetherNamed ==
  ASSUME NEW r, NEW p, NEW t \in {"constants", "objects"}, NEW x, NEW B, Ready(r, p) => B # {}
  PROVE  Together(r, p, [r EXCEPT ![t] = Sim!Declared(@, x, B)], Plan!Declare(p, t, x, Plan!Union(B)))
<1>1. PICK C : C = Plan!Union(B)
  OBVIOUS
<1>2. Ready(r, p) => C = B
  BY <1>1 DEF Plan!Union
<1>3. PICK new : new = IF x \in DOMAIN p[t] THEN Plan!Components(p[t][x]) \cup C ELSE C
  OBVIOUS
<1>4. PICK v, w : v = Sim!Declared(r[t], x, B) /\ w = Plan!WithEntry(p[t], x, new)
  OBVIOUS
<1>5. t \in Told \ {"atoms"}
  BY DEF Told
<1>6. Ready(r, p) => v = w
  <2>1. Ready(r, p) => r[t] = p[t]
    BY <1>5 DEF Ready, Twins
  <2>2. \A A : Sim!Components(A) = Plan!Components(A)
    BY DEF Sim!Components, Plan!Components, Sim!OBJECT, Plan!OBJECT
  <2> QED BY <1>2, <1>3, <1>4, <2>1, <2>2, Shared DEF Sim!Declared
<1>7. PICK s, q : s = [r EXCEPT ![t] = v] /\ q = [p EXCEPT ![t] = w]
  OBVIOUS
<1>8. Together(r, p, s, q)
  BY <1>5, <1>6, <1>7, TogetherField
<1>9. PICK D : D = IF x \in DOMAIN p[t] /\ Plan!Cardinality(new) > 1 THEN p.dangling \cup {x} ELSE p.dangling
  OBVIOUS
<1>10. Plan!Declare(p, t, x, C) = [q EXCEPT !.dangling = D]
  BY <1>3, <1>4, <1>7, <1>9 DEF Plan!Declare
<1>11. Aside(q, [q EXCEPT !.dangling = D])
  <2>1. "dangling" \notin Told \cup {"success", "end", "requirements", "functions", "static"}
    BY DEF Told
  <2> QED BY <2>1, AsideOne
<1>12. Together(s, q, s, [q EXCEPT !.dangling = D])
  BY <1>11, AsideTwice, TogetherAside
<1>13. [r EXCEPT ![t] = Sim!Declared(@, x, B)] = s
  BY <1>4, <1>7
<1>14. PICK z : z = [q EXCEPT !.dangling = D]
  OBVIOUS
<1>15. Together(s, q, s, z)
  BY <1>12, <1>14
<1>16. Together(r, p, s, z)
  BY <1>8, <1>15, TogetherTwice
<1> QED BY <1>1, <1>10, <1>13, <1>14, <1>16

\* A type that has gone ends the reading.
LEMMA TogetherEnded ==
  ASSUME NEW r, NEW p, NEW s, Grows(r, s), NEW v, v # ""
  PROVE  Together(r, p, s, [p EXCEPT !.end = v])
<1>1. PICK q : q = [p EXCEPT !.end = v]
  OBVIOUS
<1>2. Grows(p, q)
  BY <1>1, GrowsOne
<1>3. Ready(r, p) => Matched(s, q)
  <2>1. Ready(r, p) => Whole(s) /\ Whole(q)
    BY <1>2, ReadyIs DEF Grows
  <2>2. Ready(r, p) => q.end # ""
    BY <1>1, ReadyIs DEF Whole
  <2> QED BY <2>1, <2>2, EndedMatched
<1> QED BY <1>1, <1>2, <1>3, TogetherReady

LEMMA TogetherNames ==
  ASSUME NEW r, NEW p, NEW x, NEW B, Ready(r, p) => B # {}
  PROVE  /\ Together(r, p, Sim!AddConstantName(r, x, B), Plan!AddConstantName(p, x, B))
         /\ Together(r, p, Sim!AddObjectName(r, x, B), Plan!AddObjectName(p, x, B))
<1>1. PICK s, q : s = [r EXCEPT !.constants = Sim!Declared(@, x, B)] /\ q = Plan!Declare(p, "constants", x, Plan!Union(B))
  OBVIOUS
<1>2. PICK u, w : u = [r EXCEPT !.objects = Sim!Declared(@, x, B)] /\ w = Plan!Declare(p, "objects", x, Plan!Union(B))
  OBVIOUS
<1>3. Together(r, p, s, q)
  BY <1>1, TogetherNamed
<1>4. Together(r, p, u, w)
  BY <1>2, TogetherNamed
<1>5. PICK e : e = [p EXCEPT !.end = "undefined"]
  OBVIOUS
<1>6. Together(r, p, s, e) /\ Together(r, p, u, e) /\ Together(r, p, r, p) /\ Together(r, p, r, e)
  BY <1>3, <1>4, <1>5, TogetherSame, TogetherEnded DEF Together
<1>7. Together(r, p, Sim!AddConstantName(r, x, B), Plan!AddConstantName(p, x, B))
  BY <1>1, <1>3, <1>5, <1>6 DEF Sim!AddConstantName, Plan!AddConstantName
<1>8. /\ Sim!AddObjectName(r, x, B) = IF x \in DOMAIN r.constants THEN r ELSE u
      /\ Plan!AddObjectName(p, x, B) =
           IF x \in DOMAIN p.constants THEN p ELSE IF x \in p.dangling THEN e ELSE w
  BY <1>2, <1>5 DEF Sim!AddObjectName, Plan!AddObjectName
<1>9. PICK y, z : y = Sim!AddObjectName(r, x, B) /\ z = Plan!AddObjectName(p, x, B)
  OBVIOUS
<1>10. Grows(r, y) /\ Grows(p, z)
  BY <1>4, <1>6, <1>8, <1>9 DEF Together
<1>11. ASSUME Ready(r, p) PROVE Matched(y, z)
  <2>1. r.constants = p.constants /\ Matched(r, p)
    BY <1>11, TwinsAre, ReadyIs
  <2> QED BY <1>4, <1>6, <1>8, <1>9, <2>1 DEF Together
<1>12. Together(r, p, y, z)
  BY <1>10, <1>11, TogetherReady
<1> QED BY <1>7, <1>9, <1>12

-----------------------------------------------------------------------------
\* A further step, after which the two may also be looked at where they were before.
LEMMA TogetherThen ==
  ASSUME NEW r, NEW p, NEW s, NEW q, Together(r, p, s, q), NEW u, NEW w, Grows(s, u), Grows(q, w),
         Ready(r, p) /\ Ready(s, q) => Matched(u, w)
  PROVE  Together(r, p, u, w)
<1>1. Grows(r, u) /\ Grows(p, w)
  BY GrowsTwice DEF Together
<1>2. ASSUME Ready(r, p) PROVE Matched(u, w)
  <2>1. Matched(s, q)
    BY <1>2, ReadyIs DEF Together
  <2>2. Ready(s, q) => Matched(u, w)
    BY <1>2
  <2> QED BY <2>1, <2>2, MatchedReady
<1> QED BY <1>1, <1>2, TogetherReady

LEMMA TogetherFieldThen ==
  ASSUME NEW r, NEW p, NEW s, NEW q, Together(r, p, s, q), NEW f \in Told \ {"atoms"}, NEW v, NEW w,
         Ready(r, p) /\ Ready(s, q) => v = w
  PROVE  Together(r, p, [s EXCEPT ![f] = v], [q EXCEPT ![f] = w])
<1>1. PICK y, z : y = [s EXCEPT ![f] = v] /\ z = [q EXCEPT ![f] = w]
  OBVIOUS
<1>2. Grows(s, y) /\ Grows(q, z)
  BY <1>1, GrowsOne
<1>3. ASSUME Ready(r, p), Ready(s, q) PROVE Matched(y, z)
  <2>1. v = w
    BY <1>3
  <2>2. Together(s, q, y, z)
    BY <1>1, <2>1, TogetherField
  <2> QED BY <1>3, <2>2, ReadyIs DEF Together
<1>4. Together(r, p, y, z)
  BY <1>2, <1>3, TogetherThen
<1> QED BY <1>1, <1>4

LEMMA TogetherCheckedThen ==
  ASSUME NEW r, NEW p, NEW s, NEW q, Together(r, p, s, q), NEW c \in BOOLEAN, NEW d \in BOOLEAN,
         Ready(r, p) /\ Ready(s, q) => c = d
  PROVE  Together(r, p, Sim!Check(s, c), Plan!Check(q, d))
<1>1. PICK y, z : y = Sim!Check(s, c) /\ z = Plan!Check(q, d)
  OBVIOUS
<1>2. Grows(s, y) /\ Grows(q, z)
  BY <1>1, MatchedChecked, Shared
<1>3. ASSUME Ready(r, p), Ready(s, q) PROVE Matched(y, z)
  <2>1. c = d
    BY <1>3
  <2>2. Together(s, q, y, z)
    BY <1>1, <2>1, TogetherChecked
  <2> QED BY <1>3, <2>2, ReadyIs DEF Together
<1>4. Together(r, p, y, z)
  BY <1>2, <1>3, TogetherThen
<1> QED BY <1>1, <1>4

\* Twins go the same way.
LEMMA TogetherBranch ==
  ASSUME NEW r, NEW p, NEW c \in BOOLEAN, NEW d \in BOOLEAN, Ready(r, p) => c = d,
         NEW s, NEW q, Together(r, p, s, q), NEW u, NEW w, Together(r, p, u, w)
  PROVE  Together(r, p, IF c THEN s ELSE u, IF d THEN q ELSE w)
<1>1. PICK y, z : y = (IF c THEN s ELSE u) /\ z = IF d THEN q ELSE w
  OBVIOUS
<1>2. Grows(r, y) /\ Grows(p, z)
  BY <1>1 DEF Together
<1>3. Ready(r, p) => Matched(y, z)
  BY <1>1, ReadyIs DEF Together
<1>4. Together(r, p, y, z)
  BY <1>2, <1>3, TogetherReady
<1> QED BY <1>1, <1>4

LEMMA CheckedIs ==
  ASSUME NEW r, Whole(r), NEW c \in BOOLEAN, Sim!Check(r, c).success
  PROVE  c /\ Sim!Check(r, c) = r
BY DEF Whole, Sim!Check, Sim!Fail

-----------------------------------------------------------------------------
\* The requirements: both begin to require the reward.
LEMMA RewardedMatched ==
  ASSUME NEW s, NEW q, Whole(s), Whole(q), "rewards" \in s.requirements, "rewards" \in q.requirements
  PROVE  Matched(s, q)
BY DEF Matched, Clean

LEMMA Required == ASSUME NEW r, Whole(r), NEW B PROVE Whole([r EXCEPT !.requirements = @ \cup B])
                                                      /\ [r EXCEPT !.requirements = @ \cup B].requirements = r.requirements \cup B
BY DEF Whole

LEMMA MatchedRequired ==
  ASSUME NEW r, NEW p, Matched(r, p), NEW key
  PROVE  LET s == Sim!RequireKey(r, key)
             q == Plan!RequireKey(p, key)
         IN  Whole(s) /\ Whole(q) /\ Matched(s, q)
<1>1. PICK s, q : s = Sim!RequireKey(r, key) /\ q = Plan!RequireKey(p, key)
  OBVIOUS
<1>2. Whole(r) /\ Whole(p)
  BY DEF Matched
<1>3. SUFFICES Whole(s) /\ Whole(q) /\ Matched(s, q)
  BY <1>1
<1>4. ASSUME Aside(r, s), Aside(p, q) PROVE Whole(s) /\ Whole(q) /\ Matched(s, q)
  BY <1>2, <1>4, AsideBoth DEF Aside
<1>5. ASSUME NEW u, Whole(u), NEW B
      PROVE  /\ Whole(Sim!AddFunction([u EXCEPT !.requirements = @ \cup B], "reward"))
             /\ "rewards" \in B => "rewards" \in Sim!AddFunction([u EXCEPT !.requirements = @ \cup B], "reward").requirements
             /\ Whole(Plan!AddFunction([u EXCEPT !.requirements = @ \cup B], "reward"))
             /\ "rewards" \in B => "rewards" \in Plan!AddFunction([u EXCEPT !.requirements = @ \cup B], "reward").requirements
  <2>1. PICK w : w = [u EXCEPT !.requirements = @ \cup B]
    OBVIOUS
  <2>2. Whole(w) /\ w.requirements = u.requirements \cup B
    BY <1>5, <2>1, Required
  <2>3. Grows(w, Sim!AddFunction(w, "reward")) /\ Grows(w, Plan!AddFunction(w, "reward"))
    BY MatchedFunction
  <2> QED BY <2>1, <2>2, <2>3 DEF Grows
<1>6. ASSUME NEW u, Whole(u), NEW w, w = Plan!RequireReward(u) PROVE Whole(w) /\ "rewards" \in w.requirements
  <2>1. PICK y : y = Sim!Assume(u, "rewards")
    OBVIOUS
  <2>2. Whole(y) /\ "rewards" \in y.requirements
    BY <1>6, <2>1, Required DEF Sim!Assume
  <2>3. CASE "reward" \in DOMAIN u.functions
    <3>1. w = [y EXCEPT !.reward = "reward again"]
      BY <1>6, <2>1, <2>3, Shared DEF Plan!RequireReward
    <3> QED BY <2>2, <3>1 DEF Whole
  <2>4. CASE "reward" \notin DOMAIN u.functions
    <3>1. PICK z : z = Plan!AddFunction(y, "reward")
      OBVIOUS
    <3>2. w = [z EXCEPT !.reward = "reward"]
      BY <1>6, <2>1, <2>4, <3>1, Shared DEF Plan!RequireReward
    <3>3. Grows(y, z)
      BY <3>1, MatchedFunction
    <3>4. Whole(z) /\ "rewards" \in z.requirements
      BY <2>2, <3>3 DEF Grows
    <3> QED BY <3>2, <3>4 DEF Whole
  <2> QED BY <2>3, <2>4
<1>7. \A u : Aside(u, Plan!RequireProbabilities(u))
  <2>1. TAKE u
  <2>2. PICK y : y = Sim!Assume(u, "probabilistic-effects")
    OBVIOUS
  <2>3. Aside(u, y) /\ Aside(y, y) /\ Aside(y, Plan!AddFunction(y, "goal-probability"))
    BY <2>2, AsideNoted, AsideTwice, AsideOwn DEF OwnFunctions
  <2>4. Plan!RequireProbabilities(u) \in {y, Plan!AddFunction(y, "goal-probability")}
    BY <2>2, Shared DEF Plan!RequireProbabilities
  <2> QED BY <2>3, <2>4, AsideTwice
<1>8. CASE key = "adl"
  <2>1. "rewards" \notin Sim!Adl /\ "rewards" \notin Plan!Adl
    BY DEF Sim!Adl, Plan!Adl
  <2>2. s = [r EXCEPT !.requirements = @ \cup Sim!Adl] /\ q = [p EXCEPT !.requirements = @ \cup Plan!Adl]
    BY <1>1, <1>8 DEF Sim!RequireKey, Plan!RequireKey
  <2> QED BY <1>4, <2>1, <2>2, AsideOther
<1>9. CASE key = "mdp"
  <2>1. s = Sim!AddFunction([r EXCEPT !.requirements = @ \cup {"probabilistic-effects", "rewards"}], "reward")
    BY <1>1, <1>9 DEF Sim!RequireKey
  <2>2. Whole(s) /\ "rewards" \in s.requirements
    BY <1>2, <1>5, <2>1
  <2>3. PICK y : y = Plan!RequireProbabilities(p)
    OBVIOUS
  <2>4. Whole(y)
    BY <1>2, <1>7, <2>3 DEF Aside
  <2>5. q = Plan!RequireReward(y)
    BY <1>1, <1>9, <2>3 DEF Plan!RequireKey
  <2> QED BY <1>6, <2>2, <2>4, <2>5, RewardedMatched
<1>10. CASE key = "rewards"
  <2>1. s = Sim!AddFunction([r EXCEPT !.requirements = @ \cup {"rewards"}], "reward")
    BY <1>1, <1>10 DEF Sim!RequireKey, Sim!Assume
  <2>2. Whole(s) /\ "rewards" \in s.requirements
    BY <1>2, <1>5, <2>1
  <2>3. q = Plan!RequireReward(p)
    BY <1>1, <1>10 DEF Plan!RequireKey
  <2> QED BY <1>2, <1>6, <2>2, <2>3, RewardedMatched
<1>11. CASE key \notin {"adl", "mdp", "rewards"}
  <2>1. s = Sim!Assume(r, key)
    BY <1>1, <1>11 DEF Sim!RequireKey
  <2>2. q \in {Sim!Assume(p, key), Plan!RequireProbabilities(p)}
    BY <1>1, <1>11, Shared DEF Plan!RequireKey
  <2>3. Aside(r, Sim!Assume(r, key)) /\ Aside(p, Sim!Assume(p, key))
    BY <1>11, AsideNoted
  <2> QED BY <1>4, <1>7, <2>1, <2>2, <2>3
<1> QED BY <1>8, <1>9, <1>10, <1>11

-----------------------------------------------------------------------------
\* Variables, quantifiers and actions.
LEMMA TogetherFrames ==
  ASSUME NEW r, NEW p
  PROVE  Together(r, p, Sim!PushFrame(r), Plan!PushFrame(p)) /\ Together(r, p, Sim!PopFrame(r), Plan!PopFrame(p))
<1>1. "frames" \in Told \ {"atoms"}
  BY DEF Told
<1>2. Together(r, p, Sim!PushFrame(r), Sim!PushFrame(p))
  <2>1. PICK v, w : v = Append(r.frames, Sim!None) /\ w = Append(p.frames, Sim!None)
    OBVIOUS
  <2>2. Ready(r, p) => v = w
    BY <2>1, TwinsAre
  <2>3. Sim!PushFrame(r) = [r EXCEPT !.frames = v] /\ Sim!PushFrame(p) = [p EXCEPT !.frames = w]
    BY <2>1 DEF Sim!PushFrame
  <2>4. Together(r, p, [r EXCEPT !["frames"] = v], [p EXCEPT !["frames"] = w])
    BY <1>1, <2>2, TogetherField
  <2> QED BY <2>3, <2>4
<1>3. Together(r, p, Sim!PopFrame(r), Sim!PopFrame(p))
  <2>1. PICK v, w : v = Sim!Front(r.frames) /\ w = Sim!Front(p.frames)
    OBVIOUS
  <2>2. Ready(r, p) => v = w
    BY <2>1, TwinsAre
  <2>3. Sim!PopFrame(r) = [r EXCEPT !.frames = v] /\ Sim!PopFrame(p) = [p EXCEPT !.frames = w]
    BY <2>1 DEF Sim!PopFrame
  <2>4. Together(r, p, [r EXCEPT !["frames"] = v], [p EXCEPT !["frames"] = w])
    BY <1>1, <2>2, TogetherField
  <2> QED BY <2>3, <2>4
<1> QED BY <1>2, <1>3, Shared

LEMMA TogetherPrepared ==
  ASSUME NEW r, NEW p, NEW x, x # "rewards"
  PROVE  Together(r, p, Sim!Prepare(r, x), Plan!Prepare(p, x))
<1>1. PICK s, q : s = Sim!Assume(r, x) /\ q = Plan!Assume(p, x)
  OBVIOUS
<1>2. Together(r, p, s, q)
  BY <1>1, TogetherNoted
<1>3. PICK v, w : v = Append(s.quantified, 0) /\ w = Append(q.quantified, 0)
  OBVIOUS
<1>4. PICK y, z : y = [s EXCEPT !.quantified = v] /\ z = [q EXCEPT !.quantified = w]
  OBVIOUS
<1>5. Together(s, q, y, z)
  <2>1. "quantified" \in Told \ {"atoms"}
    BY DEF Told
  <2>2. Ready(s, q) => v = w
    BY <1>3, TwinsAre
  <2> QED BY <1>4, <2>1, <2>2, TogetherField
<1>6. Together(y, z, Sim!PushFrame(y), Plan!PushFrame(z))
  BY TogetherFrames
<1>7. Sim!Prepare(r, x) = Sim!PushFrame(y) /\ Plan!Prepare(p, x) = Plan!PushFrame(z)
  BY <1>1, <1>3, <1>4 DEF Sim!Prepare, Plan!Prepare, Sim!MARK, Plan!NULL_TERM
<1> QED BY <1>2, <1>5, <1>6, <1>7, TogetherTwice

LEMMA TogetherAction ==
  ASSUME NEW r, NEW p, NEW x
  PROVE  Together(r, p, Sim!MakeAction(r, x), Plan!MakeAction(p, x))
<1>1. PICK s, q : s = Sim!PushFrame(r) /\ q = Sim!PushFrame(p)
  OBVIOUS
<1>2. Together(r, p, s, q)
  BY <1>1, TogetherFrames, Shared
<1>3. PICK y, z : y = [s EXCEPT !.name = x] /\ z = [q EXCEPT !.name = x]
  OBVIOUS
<1>4. "name" \in Told \ {"atoms"} /\ "parameters" \in Told \ {"atoms"}
  BY DEF Told
<1>5. Together(s, q, y, z)
  BY <1>3, <1>4, TogetherField
<1>6. Together(y, z, [y EXCEPT !.parameters = <<>>], [z EXCEPT !.parameters = <<>>])
  BY <1>4, TogetherField
<1>7. Sim!MakeAction(r, x) = [y EXCEPT !.parameters = <<>>] /\ Sim!MakeAction(p, x) = [z EXCEPT !.parameters = <<>>]
  BY <1>1, <1>3 DEF Sim!MakeAction
<1> QED BY <1>2, <1>5, <1>6, <1>7, TogetherTwice, Shared

LEMMA TogetherClosed ==
  ASSUME NEW r, NEW p
  PROVE  Together(r, p, Sim!AddAction(r), Plan!AddAction(p))
<1>1. PICK s, q : s = Sim!PopFrame(r) /\ q = Sim!PopFrame(p)
  OBVIOUS
<1>2. Together(r, p, s, q)
  BY <1>1, TogetherFrames, Shared
<1>3. PICK v, w : /\ v = IF r.name \in DOMAIN s.actions THEN s.actions ELSE Sim!WithEntry(s.actions, r.name, r.parameters)
                  /\ w = IF p.name \in DOMAIN q.actions THEN q.actions ELSE Sim!WithEntry(q.actions, p.name, p.parameters)
  OBVIOUS
<1>4. PICK y, z : y = [s EXCEPT !.actions = v] /\ z = [q EXCEPT !.actions = w]
  OBVIOUS
<1>5. "name" \in Told \ {"atoms"} /\ "actions" \in Told \ {"atoms"}
  BY DEF Told
<1>6. Together(r, p, y, z)
  <2>1. ASSUME Ready(r, p), Ready(s, q) PROVE v = w
    <3>1. r.name = p.name /\ r.parameters = p.parameters /\ s.actions = q.actions
      BY <2>1, TwinsAre
    <3> QED BY <1>3, <3>1
  <2> QED BY <1>2, <1>4, <1>5, <2>1, TogetherFieldThen
<1>7. Together(y, z, [y EXCEPT !.name = ""], [z EXCEPT !.name = ""])
  BY <1>5, TogetherField
<1>8. Sim!AddAction(r) = [y EXCEPT !.name = ""] /\ Sim!AddAction(p) = [z EXCEPT !.name = ""]
  BY <1>1, <1>3, <1>4 DEF Sim!AddAction
<1>9. PICK u, t : u = Sim!AddAction(r) /\ t = Sim!AddAction(p)
  OBVIOUS
<1>10. Together(y, z, u, t)
  BY <1>7, <1>8, <1>9
<1>11. Together(r, p, u, t)
  BY <1>6, <1>10, TogetherTwice
<1> QED BY <1>9, <1>11, Shared

LEMMA TogetherQuantified ==
  ASSUME NEW r, NEW p
  PROVE  Together(r, p, Sim!MakeQuantified(r), Plan!MakeQuantified(p))
<1>1. PICK s, q : s = Sim!PopFrame(r) /\ q = Plan!PopFrame(p)
  OBVIOUS
<1>2. Together(r, p, s, q)
  BY <1>1, TogetherFrames
<1>3. PICK m, n : /\ m = Sim!Max({i \in DOMAIN r.quantified : r.quantified[i] = 0})
                  /\ n = Plan!Max({i \in DOMAIN p.quantified : p.quantified[i] = 0})
  OBVIOUS
<1>4. Ready(r, p) => m = n /\ r.quantified = p.quantified
  BY <1>3, TwinsAre DEF Sim!Max, Plan!Max
<1>5. PICK v, w : /\ v = Append(s.lists, SubSeq(r.quantified, m + 1, Len(r.quantified)))
                  /\ w = Append(q.lists, SubSeq(p.quantified, n + 1, Len(p.quantified)))
  OBVIOUS
<1>6. PICK y, z : y = [s EXCEPT !.lists = v] /\ z = [q EXCEPT !.lists = w]
  OBVIOUS
<1>7. "lists" \in Told \ {"atoms"} /\ "quantified" \in Told \ {"atoms"}
  BY DEF Told
<1>8. Together(r, p, y, z)
  <2>1. ASSUME Ready(r, p), Ready(s, q) PROVE v = w
    BY <1>4, <1>5, <2>1, TwinsAre
  <2> QED BY <1>2, <1>6, <1>7, <2>1, TogetherFieldThen
<1>9. PICK A, B : A = SubSeq(y.quantified, 1, m - 1) /\ B = SubSeq(z.quantified, 1, n - 1)
  OBVIOUS
<1>10. Together(r, p, [y EXCEPT !.quantified = A], [z EXCEPT !.quantified = B])
  <2>1. ASSUME Ready(r, p), Ready(y, z) PROVE A = B
    BY <1>4, <1>9, <2>1, TwinsAre
  <2> QED BY <1>7, <1>8, <2>1, TogetherFieldThen
<1>11. Sim!MakeQuantified(r) = [y EXCEPT !.quantified = A]
  BY <1>1, <1>3, <1>5, <1>6, <1>9 DEF Sim!MakeQuantified, Sim!LastMark, Sim!MARK
<1>12. Plan!MakeQuantified(p) = [z EXCEPT !.quantified = B]
  BY <1>1, <1>3, <1>5, <1>6, <1>9 DEF Plan!MakeQuantified, Plan!NULL_TERM
<1> QED BY <1>10, <1>11, <1>12

LEMMA TogetherVariable ==
  ASSUME NEW r, NEW p, NEW x, NEW B, NEW C, Ready(r, p) => B = C
  PROVE  Together(r, p, Sim!AddVariable(r, x, B), Plan!AddVariable(p, x, C))
<1>1. PICK c \in BOOLEAN, d \in BOOLEAN : c = (x \notin DOMAIN Sim!Last(r.frames)) /\ d = (x \notin DOMAIN Plan!Last(p.frames))
  OBVIOUS
<1>2. Ready(r, p) => c = d
  BY <1>1, TwinsAre DEF Sim!Last, Plan!Last
<1>3. PICK s, q : s = Sim!Check(r, c) /\ q = Plan!Check(p, d)
  OBVIOUS
<1>4. Together(r, p, s, q)
  BY <1>2, <1>3, TogetherChecked
<1>5. PICK m, n : m = Len(r.variables) + 1 /\ n = Len(p.variables) + 1
  OBVIOUS
<1>6. Ready(r, p) => m = n
  BY <1>5, TwinsAre
<1>7. PICK v, w : v = Append(s.variables, <<x, B>>) /\ w = Append(q.variables, <<x, C>>)
  OBVIOUS
<1>8. PICK y, z : y = [s EXCEPT !.variables = v] /\ z = [q EXCEPT !.variables = w]
  OBVIOUS
<1>9. /\ "variables" \in Told \ {"atoms"} /\ "frames" \in Told \ {"atoms"}
      /\ "quantified" \in Told \ {"atoms"} /\ "parameters" \in Told \ {"atoms"}
  BY DEF Told
<1>10. Together(r, p, y, z)
  <2>1. Ready(r, p) /\ Ready(s, q) => v = w
    BY <1>7, TwinsAre
  <2> QED BY <1>4, <1>8, <1>9, <2>1, TogetherFieldThen
<1>11. PICK F, G : F = Sim!Insert(y.frames, x, m) /\ G = Plan!Insert(z.frames, x, n)
  OBVIOUS
<1>12. PICK e, h : e = [y EXCEPT !.frames = F] /\ h = [z EXCEPT !.frames = G]
  OBVIOUS
<1>13. Together(r, p, e, h)
  <2>1. ASSUME Ready(r, p), Ready(y, z) PROVE F = G
    <3>1. y.frames = z.frames /\ m = n
      BY <1>6, <2>1, TwinsAre
    <3>2. Whole(r) /\ c /\ s = r
      <4>1. Whole(r) /\ Whole(y) /\ y.success
        BY <2>1 DEF Ready
      <4>2. Grows(r, s)
        BY <1>4 DEF Together
      <4>3. Whole(s)
        BY <4>1, <4>2 DEF Grows
      <4>4. s.success
        BY <1>8, <4>1, <4>3 DEF Whole
      <4> QED BY <1>3, <4>1, <4>4, CheckedIs
    <3>3. y.frames = r.frames
      BY <1>8, <3>2 DEF Whole, Told
    <3>4. x \notin DOMAIN Sim!Last(r.frames)
      BY <1>1, <3>2
    <3>5. x \notin DOMAIN (y.frames[Len(y.frames)])
      BY <3>3, <3>4 DEF Sim!Last
    <3>6. Sim!Insert(y.frames, x, m) = Plan!Insert(y.frames, x, m)
      BY <3>5, Shared DEF Sim!Insert, Plan!Insert
    <3> QED BY <1>11, <3>1, <3>6
  <2> QED BY <1>9, <1>10, <1>12, <2>1, TogetherFieldThen
<1>14. PICK K, L : K = Append(e.quantified, m) /\ L = Append(h.quantified, n)
  OBVIOUS
<1>15. PICK A, D : A = Append(e.parameters, m) /\ D = Append(h.parameters, n)
  OBVIOUS
<1>16. PICK s1, q1 : s1 = [e EXCEPT !.quantified = K] /\ q1 = [h EXCEPT !.quantified = L]
  OBVIOUS
<1>17. PICK s2, q2 : s2 = [e EXCEPT !.parameters = A] /\ q2 = [h EXCEPT !.parameters = D]
  OBVIOUS
<1>18. PICK s3, q3 : s3 = (IF e.quantified # <<>> THEN s1 ELSE s2) /\ q3 = IF h.quantified # <<>> THEN q1 ELSE q2
  OBVIOUS
<1>19. Together(r, p, s1, q1)
  <2>1. Ready(r, p) /\ Ready(e, h) => K = L
    BY <1>6, <1>14, TwinsAre
  <2> QED BY <1>9, <1>13, <1>16, <2>1, TogetherFieldThen
<1>20. Together(r, p, s2, q2)
  <2>1. Ready(r, p) /\ Ready(e, h) => A = D
    BY <1>6, <1>15, TwinsAre
  <2> QED BY <1>9, <1>13, <1>17, <2>1, TogetherFieldThen
<1>21. Together(r, p, s3, q3)
  <2>1. Grows(e, s1) /\ Grows(e, s2) /\ Grows(h, q1) /\ Grows(h, q2)
    BY <1>9, <1>16, <1>17, GrowsOne
  <2>2. Grows(e, s3) /\ Grows(h, q3)
    BY <1>18, <2>1
  <2>3. ASSUME Ready(r, p), Ready(e, h) PROVE Matched(s3, q3)
    <3>1. e.quantified = h.quantified
      BY <2>3, TwinsAre
    <3> QED BY <1>18, <1>19, <1>20, <2>3, <3>1, ReadyIs DEF Together
  <2> QED BY <1>13, <2>2, <2>3, TogetherThen
<1>22. s3 = Sim!AddVariable(r, x, B)
  BY <1>1, <1>3, <1>5, <1>7, <1>8, <1>11, <1>12, <1>14, <1>15, <1>16, <1>17, <1>18 DEF Sim!AddVariable
<1>23. q3 = Plan!AddVariable(p, x, C)
  BY <1>1, <1>3, <1>5, <1>7, <1>8, <1>11, <1>12, <1>14, <1>15, <1>16, <1>17, <1>18 DEF Plan!AddVariable
<1> QED BY <1>21, <1>22, <1>23

\* One variable after the other.
LEMMA TogetherVariables ==
  ASSUME NEW r, NEW p, NEW S, NEW xs \in Seq(S)
  PROVE  Together(r, p, Sim!AddVariables(r, xs), Plan!AddVariables(p, xs))
<1>1. PICK f : /\ f[0] = r /\ f[Len(xs)] = Sim!AddVariables(r, xs)
               /\ \A i \in 1..Len(xs) : f[i] = Sim!AddVariable(Sim!TypeSpec(f[i - 1], xs[i][2]), xs[i][1], xs[i][2])
  BY VariableByVariable
<1>2. PICK g : /\ g[0] = p /\ g[Len(xs)] = Plan!AddVariables(p, xs)
               /\ \A i \in 1..Len(xs) : g[i] = Plan!AddVariable(Plan!TypeSpec(g[i - 1], xs[i][2]), xs[i][1], Plan!Union(xs[i][2]))
  BY PlannerVariableByVariable
<1>3. PICK n \in Nat : n = Len(xs)
  OBVIOUS
<1>4. PICK T : T = {i \in 0..n : Together(r, p, f[i], g[i])}
  OBVIOUS
<1>5. 0 \in T
  BY <1>1, <1>2, <1>3, <1>4, TogetherSame
<1>6. ASSUME NEW i \in 1..n, i - 1 \in T PROVE i \in T
  <2>1. PICK y, z, x, B, C : y = f[i - 1] /\ z = g[i - 1] /\ x = xs[i][1] /\ B = xs[i][2] /\ C = Plan!Union(B)
    OBVIOUS
  <2>2. Together(r, p, y, z)
    BY <1>4, <1>6, <2>1
  <2>3. PICK s, q : s = Sim!TypeSpec(y, B) /\ q = Plan!TypeSpec(z, B)
    OBVIOUS
  <2>4. Together(y, z, s, q)
    BY <2>3, TogetherSpecified
  <2>5. Ready(s, q) => B = C
    BY <2>1, <2>3, NoTypes
  <2>6. PICK u, w : u = Sim!AddVariable(s, x, B) /\ w = Plan!AddVariable(q, x, C)
    OBVIOUS
  <2>7. Together(s, q, u, w)
    BY <2>5, <2>6, TogetherVariable
  <2>8. f[i] = u /\ g[i] = w
    BY <1>1, <1>2, <1>3, <2>1, <2>3, <2>6
  <2>9. Together(r, p, u, w)
    BY <2>2, <2>4, <2>7, TogetherTwice
  <2> QED BY <1>3, <1>4, <2>8, <2>9
<1>7. n \in T
  BY <1>3, <1>5, <1>6, UpTo
<1> QED BY <1>1, <1>2, <1>3, <1>4, <1>7

-----------------------------------------------------------------------------
\* The parameters of predicates and functions.
LEMMA TogetherParameter ==
  ASSUME NEW r, NEW p, NEW t \in {"predicates", "functions"}, NEW x, NEW B, NEW C, Ready(r, p) => B = C
  PROVE  Together(r, p, Sim!AddParameter(r, t, x, B), Plan!AddParameter(p, t, x, C))
<1>1. PICK F, G : F = r[t] /\ G = p[t]
  OBVIOUS
<1>2. PICK v, w : v = [F EXCEPT ![x] = Append(@, B)] /\ w = [G EXCEPT ![x] = Append(@, C)]
  OBVIOUS
<1>3. PICK s, q : s = [r EXCEPT ![t] = v] /\ q = [p EXCEPT ![t] = w]
  OBVIOUS
<1>4. s = Sim!AddParameter(r, t, x, B) /\ q = Plan!AddParameter(p, t, x, C)
  BY <1>1, <1>2, <1>3 DEF Sim!AddParameter, Plan!AddParameter
<1>5. CASE t = "predicates"
  <2>1. Ready(r, p) => v = w
    BY <1>1, <1>2, <1>5, TwinsAre
  <2>2. t \in Told \ {"atoms"}
    BY <1>5 DEF Told
  <2>3. Together(r, p, [r EXCEPT ![t] = v], [p EXCEPT ![t] = w])
    BY <2>1, <2>2, TogetherField
  <2> QED BY <1>3, <1>4, <2>3
<1>6. CASE t = "functions"
  <2>1. ASSUME Ready(r, p) PROVE SameFunctions(v, w)
    <3>1. SameFunctions(F, G) /\ B = C
      BY <1>1, <1>6, <2>1, TwinsAre
    <3>2. DOMAIN v = DOMAIN F /\ \A y \in DOMAIN F : v[y] = IF y = x THEN Append(F[x], B) ELSE F[y]
      BY <1>2
    <3>3. DOMAIN w = DOMAIN G /\ \A y \in DOMAIN G : w[y] = IF y = x THEN Append(G[x], C) ELSE G[y]
      BY <1>2
    <3> QED BY <3>1, <3>2, <3>3 DEF SameFunctions
  <2>2. t \in {"functions", "static"} /\ t \in (Told \ {"atoms"}) \cup {"functions", "static"}
    BY <1>6
  <2>3. Matched(r, p) => Matched([r EXCEPT ![t] = v], [p EXCEPT ![t] = w])
    BY <1>6, <2>1, <2>2, MatchedOther
  <2>4. Grows(r, [r EXCEPT ![t] = v]) /\ Grows(p, [p EXCEPT ![t] = w])
    BY <2>2, GrowsOne
  <2> QED BY <1>3, <1>4, <2>3, <2>4 DEF Together
<1> QED BY <1>5, <1>6

\* One's own functions are the concern of that one.
LEMMA AsideParameter ==
  ASSUME NEW r, NEW x \in OwnFunctions, NEW B
  PROVE  Aside(r, Sim!AddParameter(r, "functions", x, B))
<1>1. PICK v : v = [r.functions EXCEPT ![x] = Append(@, B)]
  OBVIOUS
<1>2. Sim!AddParameter(r, "functions", x, B) = [r EXCEPT !.functions = v]
  BY <1>1 DEF Sim!AddParameter
<1>3. SameFunctions(r.functions, v)
  BY <1>1 DEF SameFunctions
<1>4. Aside(r, [r EXCEPT !.functions = v])
  BY <1>3, AsideOther
<1> QED BY <1>2, <1>4

LEMMA AsideParameters ==
  ASSUME NEW r, NEW x \in OwnFunctions, NEW S, NEW xs \in Seq(S)
  PROVE  Aside(r, Sim!AddParameters(r, "functions", x, xs)) /\ Aside(r, Plan!AddParameters(r, "functions", x, xs))
<1>1. PICK f : /\ f[0] = r /\ f[Len(xs)] = Sim!AddParameters(r, "functions", x, xs)
               /\ \A i \in 1..Len(xs) : f[i] = Sim!AddParameter(Sim!TypeSpec(f[i - 1], xs[i]), "functions", x, xs[i])
  BY ParameterByParameter
<1>2. PICK g : /\ g[0] = r /\ g[Len(xs)] = Plan!AddParameters(r, "functions", x, xs)
               /\ \A i \in 1..Len(xs) : g[i] = Plan!AddParameter(Plan!TypeSpec(g[i - 1], xs[i]), "functions", x, Plan!Union(xs[i]))
  BY PlannerParameterByParameter
<1>3. PICK n \in Nat : n = Len(xs)
  OBVIOUS
<1>4. PICK T : T = {i \in 0..n : Aside(r, f[i]) /\ Aside(r, g[i])}
  OBVIOUS
<1>5. 0 \in T
  BY <1>1, <1>2, <1>3, <1>4, AsideTwice
<1>6. ASSUME NEW i \in 1..n, i - 1 \in T PROVE i \in T
  <2>1. Aside(r, f[i - 1]) /\ Aside(r, g[i - 1])
    BY <1>4, <1>6
  <2>2. PICK q, u : q = Sim!TypeSpec(f[i - 1], xs[i]) /\ u = Plan!TypeSpec(g[i - 1], xs[i])
    OBVIOUS
  <2>3. Aside(f[i - 1], q) /\ Aside(g[i - 1], u)
    BY <2>2, AsideNoted
  <2>4. Aside(q, f[i]) /\ Aside(u, g[i])
    BY <1>1, <1>2, <1>3, <2>2, AsideParameter, Shared
  <2>5. Aside(r, f[i]) /\ Aside(r, g[i])
    BY <2>1, <2>3, <2>4, AsideTwice
  <2> QED BY <1>3, <1>4, <2>5
<1>7. n \in T
  BY <1>3, <1>5, <1>6, UpTo
<1> QED BY <1>1, <1>2, <1>3, <1>4, <1>7

LEMMA TogetherParameters ==
  ASSUME NEW r, NEW p, NEW t \in {"predicates", "functions"}, NEW x, NEW S, NEW xs \in Seq(S)
  PROVE  Together(r, p, Sim!AddParameters(r, t, x, xs), Plan!AddParameters(p, t, x, xs))
<1>1. PICK f : /\ f[0] = r /\ f[Len(xs)] = Sim!AddParameters(r, t, x, xs)
               /\ \A i \in 1..Len(xs) : f[i] = Sim!AddParameter(Sim!TypeSpec(f[i - 1], xs[i]), t, x, xs[i])
  BY ParameterByParameter
<1>2. PICK g : /\ g[0] = p /\ g[Len(xs)] = Plan!AddParameters(p, t, x, xs)
               /\ \A i \in 1..Len(xs) : g[i] = Plan!AddParameter(Plan!TypeSpec(g[i - 1], xs[i]), t, x, Plan!Union(xs[i]))
  BY PlannerParameterByParameter
<1>3. PICK n \in Nat : n = Len(xs)
  OBVIOUS
<1>4. PICK T : T = {i \in 0..n : Together(r, p, f[i], g[i])}
  OBVIOUS
<1>5. 0 \in T
  BY <1>1, <1>2, <1>3, <1>4, TogetherSame
<1>6. ASSUME NEW i \in 1..n, i - 1 \in T PROVE i \in T
  <2>1. PICK y, z, B, C : y = f[i - 1] /\ z = g[i - 1] /\ B = xs[i] /\ C = Plan!Union(B)
    OBVIOUS
  <2>2. Together(r, p, y, z)
    BY <1>4, <1>6, <2>1
  <2>3. PICK s, q : s = Sim!TypeSpec(y, B) /\ q = Plan!TypeSpec(z, B)
    OBVIOUS
  <2>4. Together(y, z, s, q)
    BY <2>3, TogetherSpecified
  <2>5. Ready(s, q) => B = C
    BY <2>1, <2>3, NoTypes
  <2>6. PICK u, w : u = Sim!AddParameter(s, t, x, B) /\ w = Plan!AddParameter(q, t, x, C)
    OBVIOUS
  <2>7. Together(s, q, u, w)
    BY <2>5, <2>6, TogetherParameter
  <2>8. f[i] = u /\ g[i] = w
    BY <1>1, <1>2, <1>3, <2>1, <2>3, <2>6
  <2>9. Together(r, p, u, w)
    BY <2>2, <2>4, <2>7, TogetherTwice
  <2> QED BY <1>3, <1>4, <2>8, <2>9
<1>7. n \in T
  BY <1>3, <1>5, <1>6, UpTo
<1> QED BY <1>1, <1>2, <1>3, <1>4, <1>7

LEMMA TogetherPredicate ==
  ASSUME NEW r, NEW p, NEW x, NEW S, NEW xs \in Seq(S)
  PROVE  Together(r, p, Sim!DeclarePredicate(r, x, xs), Plan!DeclarePredicate(p, x, xs))
<1>1. PICK s, q : s = Sim!AddPredicate(r, x) /\ q = Plan!AddPredicate(p, x)
  OBVIOUS
<1>2. Together(r, p, s, q)
  BY <1>1, TogetherTables
<1>3. PICK u, w : u = Sim!AddParameters(s, "predicates", x, xs) /\ w = Plan!AddParameters(q, "predicates", x, xs)
  OBVIOUS
<1>4. Together(s, q, u, w)
  BY <1>3, TogetherParameters
<1>5. Together(r, p, u, w) /\ Together(r, p, Sim!TypeSpecs(r, xs), Plan!TypeSpecs(p, xs))
  BY <1>2, <1>4, TogetherTwice, AsideNoted, TogetherAside
<1>6. PICK c \in BOOLEAN, d \in BOOLEAN : c = (x \notin DOMAIN r.predicates) /\ d = (x \notin DOMAIN p.predicates)
  OBVIOUS
<1>7. Ready(r, p) => c = d
  BY <1>6, TwinsAre
<1>8. Together(r, p, IF c THEN u ELSE Sim!TypeSpecs(r, xs), IF d THEN w ELSE Plan!TypeSpecs(p, xs))
  BY <1>5, <1>7, TogetherBranch
<1> QED BY <1>1, <1>3, <1>6, <1>8 DEF Sim!DeclarePredicate, Plan!DeclarePredicate

LEMMA TogetherFunction ==
  ASSUME NEW r, NEW p, NEW x, NEW S, NEW xs \in Seq(S)
  PROVE  Together(r, p, Sim!DeclareFunction(r, x, xs), Plan!DeclareFunction(p, x, xs))
<1>1. PICK s, q : s = Sim!Assume(r, "fluents") /\ q = Plan!Assume(p, "fluents")
  OBVIOUS
<1>2. Together(r, p, s, q)
  BY <1>1, TogetherNoted
<1>3. PICK y, z : y = Sim!AddFunction(s, x) /\ z = Plan!AddFunction(q, x)
  OBVIOUS
<1>4. PICK u, w : u = Sim!AddParameters(y, "functions", x, xs) /\ w = Plan!AddParameters(z, "functions", x, xs)
  OBVIOUS
<1>5. PICK c \in BOOLEAN, d \in BOOLEAN : c = (x \notin DOMAIN s.functions) /\ d = (x \notin DOMAIN q.functions)
  OBVIOUS
<1>6. PICK e, h : e = (IF c THEN u ELSE Sim!TypeSpecs(s, xs)) /\ h = IF d THEN w ELSE Plan!TypeSpecs(q, xs)
  OBVIOUS
<1>10. Aside(s, Sim!TypeSpecs(s, xs)) /\ Aside(q, Plan!TypeSpecs(q, xs))
  BY AsideNoted
<1>7. e = Sim!DeclareFunction(r, x, xs) /\ h = Plan!DeclareFunction(p, x, xs)
  BY <1>1, <1>3, <1>4, <1>5, <1>6 DEF Sim!DeclareFunction, Plan!DeclareFunction
<1>8. CASE x \in OwnFunctions
  <2>1. Aside(s, y) /\ Aside(q, z)
    BY <1>3, <1>8, AsideOwn
  <2>2. Aside(y, u) /\ Aside(z, w)
    BY <1>4, <1>8, AsideParameters
  <2>3. Aside(s, e) /\ Aside(q, h)
    BY <1>6, <1>10, <2>1, <2>2, AsideTwice
  <2>4. Together(s, q, e, h)
    BY <2>3, TogetherAside
  <2> QED BY <1>2, <1>7, <2>4, TogetherTwice
<1>9. CASE x \notin OwnFunctions
  <2>1. Ready(s, q) => c = d
    BY <1>5, <1>9, TwinsAre DEF SameFunctions
  <2>2. Grows(s, y) /\ Grows(q, z)
    BY <1>3, MatchedFunction
  <2>3. Together(y, z, u, w)
    BY <1>4, TogetherParameters
  <2>4. Grows(s, e) /\ Grows(q, h)
    BY <1>6, <1>10, <2>2, <2>3, AsideMatched, GrowsTwice DEF Together
  <2>5. ASSUME Ready(s, q) PROVE Matched(e, h)
    <3>1. CASE ~c
      BY <1>6, <1>10, <2>1, <2>5, <3>1, ReadyIs, AsideBoth
    <3>2. CASE c
      <4>1. x \notin DOMAIN s.functions
        BY <1>5, <3>2
      <4>2. Matched(y, z)
        BY <1>3, <2>5, <4>1, ReadyIs, MatchedFunction
      <4> QED BY <1>6, <2>1, <2>3, <2>5, <3>2, <4>2 DEF Together
    <3> QED BY <3>1, <3>2
  <2>6. Together(s, q, e, h)
    BY <2>4, <2>5, TogetherReady
  <2> QED BY <1>2, <1>7, <2>6, TogetherTwice
<1> QED BY <1>8, <1>9

-----------------------------------------------------------------------------
\* Terms.  A field that is left alone:
Spares(r, s, g) == g \in DOMAIN r => g \in DOMAIN s /\ s[g] = r[g]

LEMMA SparesOne == ASSUME NEW r, NEW f, NEW g, f # g, NEW v PROVE Spares(r, [r EXCEPT ![f] = v], g)
BY DEF Spares

LEMMA SparesTwice == ASSUME NEW r, NEW g PROVE Spares(r, r, g) /\ \A s, u : Spares(r, s, g) /\ Spares(s, u, g) => Spares(r, u, g)
BY DEF Spares

LEMMA SparesChecked ==
  ASSUME NEW r, NEW g, g # "success", NEW c
  PROVE  Spares(r, Sim!Fail(r), g) /\ Spares(r, Sim!Check(r, c), g)
<1>1. Spares(r, Sim!Fail(r), g)
  BY DEF Spares, Sim!Fail
<1>2. Sim!Check(r, c) \in {r, Sim!Fail(r)}
  BY DEF Sim!Check
<1> QED BY <1>1, <1>2, SparesTwice

\* Once the two are no twins, nothing more has to be compared.
LEMMA TogetherSpoiled ==
  ASSUME NEW r, NEW p, NEW s, NEW q, Together(r, p, s, q), ~Ready(s, q), NEW u, NEW w, Grows(s, u), Grows(q, w)
  PROVE  Together(r, p, u, w)
BY TogetherThen

LEMMA FailedIsNot == ASSUME NEW r, NEW q PROVE ~Ready(Sim!Fail(r), q)
<1>1. PICK s : s = Sim!Fail(r)
  OBVIOUS
<1>2. "success" \in DOMAIN s => s.success = FALSE
  BY <1>1 DEF Sim!Fail
<1> QED BY <1>1, <1>2 DEF Ready, Whole

LEMMA SameFind == \A F, x : Sim!Find(F, x) = Plan!Find(F, x)
BY DEF Sim!Find, Plan!Find, Sim!Max, Plan!Max

\* The variable that is made up is a mistake in both.
Unknown(s, V, F, t) == [[[s EXCEPT !.variables = V] EXCEPT !.frames = F] EXCEPT !.term = t]

LEMMA MadeUp ==
  ASSUME NEW r, NEW V, NEW F, NEW t, NEW u, u = Unknown(Sim!Fail(r), V, F, t)
  PROVE  Grows(Sim!Fail(r), u) /\ \A g \in {"head", "functions"} : Spares(r, u, g)
<1>1. PICK s : s = Sim!Fail(r)
  OBVIOUS
<1>2. PICK y : y = [s EXCEPT !.variables = V]
  OBVIOUS
<1>3. PICK z : z = [y EXCEPT !.frames = F]
  OBVIOUS
<1>4. u = [z EXCEPT !.term = t]
  BY <1>1, <1>2, <1>3 DEF Unknown
<1>5. {"variables", "frames", "term"} \subseteq (Told \ {"atoms"}) \cup {"functions", "static"}
  BY DEF Told
<1>6. Grows(s, y) /\ Grows(y, z) /\ Grows(z, u)
  <2>1. Grows(s, [s EXCEPT !["variables"] = V])
    BY <1>5, GrowsOne
  <2>2. Grows(y, [y EXCEPT !["frames"] = F])
    BY <1>5, GrowsOne
  <2>3. Grows(z, [z EXCEPT !["term"] = t])
    BY <1>5, GrowsOne
  <2> QED BY <1>2, <1>3, <1>4, <2>1, <2>2, <2>3
<1>7. Grows(s, u)
  BY <1>6, GrowsTwice
<1>8. ASSUME NEW g \in {"head", "functions"} PROVE Spares(r, u, g)
  <2>1. Spares(r, s, g)
    BY <1>1, SparesChecked
  <2>2. Spares(s, y, g) /\ Spares(y, z, g) /\ Spares(z, u, g)
    BY <1>2, <1>3, <1>4 DEF Spares
  <2> QED BY <2>1, <2>2, SparesTwice
<1> QED BY <1>1, <1>7, <1>8

LEMMA TogetherVariableTerm ==
  ASSUME NEW r, NEW p, NEW x \in VariableNames
  PROVE  /\ Together(r, p, Sim!MakeTerm(r, x), Plan!MakeTerm(p, x))
         /\ \A g \in {"head", "functions"} : Spares(r, Sim!MakeTerm(r, x), g) /\ Spares(p, Plan!MakeTerm(p, x), g)
<1>1. PICK k, l : k = Sim!Find(r.frames, x) /\ l = Sim!Find(p.frames, x)
  OBVIOUS
<1>2. Ready(r, p) => k = l /\ r.frames = p.frames
  BY <1>1, TwinsAre
<1>3. PICK a1, a2 : a1 = [r EXCEPT !.term = [var |-> k, name |-> ""]] /\ a2 = [p EXCEPT !.term = [var |-> l, name |-> ""]]
  OBVIOUS
<1>4. PICK s, q : s = Sim!Fail(r) /\ q = Sim!Fail(p)
  OBVIOUS
<1>5. Together(r, p, s, q) /\ ~Ready(s, q)
  BY <1>4, TogetherFailed, FailedIsNot, Shared
<1>6. PICK b1, b2 : b1 = [s EXCEPT !.end = "undefined"] /\ b2 = [q EXCEPT !.end = "undefined"]
  OBVIOUS
<1>7. PICK V, W, F, G, t, u : /\ V = Append(s.variables, <<x, {OBJECT}>>) /\ W = Append(q.variables, <<x, {OBJECT}>>)
                              /\ F = Sim!Insert(s.frames, x, Len(r.variables) + 1)
                              /\ G = Plan!Insert(q.frames, x, Len(p.variables) + 1)
                              /\ t = [var |-> Len(r.variables) + 1, name |-> ""]
                              /\ u = [var |-> Len(p.variables) + 1, name |-> ""]
  OBVIOUS
<1>8. PICK c1, c2 : c1 = Unknown(s, V, F, t) /\ c2 = Unknown(q, W, G, u)
  OBVIOUS
<1>9. Together(r, p, a1, a2)
  <2>1. "term" \in Told \ {"atoms"}
    BY DEF Told
  <2>2. PICK v, w : v = [var |-> k, name |-> ""] /\ w = [var |-> l, name |-> ""]
    OBVIOUS
  <2>3. Ready(r, p) => v = w
    BY <1>2, <2>2
  <2>4. Together(r, p, [r EXCEPT !["term"] = v], [p EXCEPT !["term"] = w])
    BY <2>1, <2>3, TogetherField
  <2> QED BY <1>3, <2>2, <2>4
<1>10. Together(r, p, b1, b2)
  <2>1. Grows(s, b1) /\ Grows(q, b2)
    BY <1>6, GrowsOne
  <2> QED BY <1>5, <2>1, TogetherSpoiled
<1>11. Together(r, p, c1, c2)
  <2>1. Grows(s, c1) /\ Grows(q, c2)
    BY <1>4, <1>8, MadeUp
  <2> QED BY <1>5, <2>1, TogetherSpoiled
<1>12. PICK c \in BOOLEAN, d \in BOOLEAN, e \in BOOLEAN, h \in BOOLEAN :
         c = (k # 0) /\ d = (l # 0) /\ e = (r.frames # <<>>) /\ h = (p.frames # <<>>)
  OBVIOUS
<1>13. PICK d1, d2 : d1 = (IF e THEN c1 ELSE b1) /\ d2 = IF h THEN c2 ELSE b2
  OBVIOUS
<1>14. Together(r, p, d1, d2)
  BY <1>2, <1>10, <1>11, <1>12, <1>13, TogetherBranch
<1>15. PICK e1, e2 : e1 = (IF c THEN a1 ELSE d1) /\ e2 = IF d THEN a2 ELSE d2
  OBVIOUS
<1>16. Together(r, p, e1, e2)
  BY <1>2, <1>9, <1>12, <1>14, <1>15, TogetherBranch
<1>17. Sim!MakeTerm(r, x) = e1
  BY <1>1, <1>3, <1>4, <1>6, <1>7, <1>8, <1>12, <1>13, <1>15 DEF Sim!MakeTerm, Sim!OBJECT, OBJECT, Unknown
<1>18. Plan!MakeTerm(p, x) = e2
  BY <1>1, <1>3, <1>4, <1>6, <1>7, <1>8, <1>12, <1>13, <1>15, Shared, SameFind DEF Plan!MakeTerm, Plan!OBJECT, OBJECT, Unknown
<1>19. ASSUME NEW g \in {"head", "functions"} PROVE Spares(r, e1, g) /\ Spares(p, e2, g)
  <2>1. Spares(r, a1, g) /\ Spares(p, a2, g)
    BY <1>3, <1>19 DEF Spares
  <2>2. Spares(r, s, g) /\ Spares(p, q, g)
    BY <1>4, <1>19, SparesChecked
  <2>3. Spares(s, b1, g) /\ Spares(q, b2, g)
    BY <1>6, <1>19 DEF Spares
  <2>4. Spares(r, c1, g) /\ Spares(p, c2, g)
    <3>1. \A f \in {"head", "functions"} : Spares(r, c1, f)
      BY <1>4, <1>8, MadeUp
    <3>2. \A f \in {"head", "functions"} : Spares(p, c2, f)
      BY <1>4, <1>8, MadeUp
    <3> QED BY <1>19, <3>1, <3>2
  <2>5. Spares(r, b1, g) /\ Spares(p, b2, g)
    BY <2>2, <2>3, SparesTwice
  <2> QED BY <1>13, <1>15, <2>1, <2>4, <2>5
<1> QED BY <1>16, <1>17, <1>18, <1>19

LEMMA TogetherObjectTerm ==
  ASSUME NEW r, NEW p, NEW x, x \notin VariableNames
  PROVE  /\ Together(r, p, Sim!MakeTerm(r, x), Plan!MakeTerm(p, x))
         /\ \A g \in {"head", "functions"} : Spares(r, Sim!MakeTerm(r, x), g) /\ Spares(p, Plan!MakeTerm(p, x), g)
<1> DEFINE Type(u) == IF u.head.table = "predicates" /\ Len(Sim!Parameters(u)) > Len(u.terms)
                        THEN Sim!Parameters(u)[Len(u.terms) + 1] ELSE {OBJECT}
<1>1. Ready(r, p) => Type(r) = Type(p)
  <2>1. SUFFICES ASSUME Ready(r, p) PROVE Type(r) = Type(p)
    OBVIOUS
  <2>2. r.head = p.head /\ r.terms = p.terms /\ r.predicates = p.predicates
    BY <2>1, TwinsAre
  <2>3. CASE r.head.table = "predicates"
    <3>1. Sim!Parameters(r) = r.predicates[r.head.name] /\ Sim!Parameters(p) = p.predicates[p.head.name]
      BY <2>2, <2>3 DEF Sim!Parameters
    <3>2. Sim!Parameters(r) = Sim!Parameters(p)
      BY <2>2, <3>1
    <3> QED BY <2>2, <3>2
  <2>4. CASE r.head.table # "predicates"
    BY <2>2, <2>4
  <2> QED BY <2>3, <2>4
<1>2. PICK A, B : A = Type(r) /\ B = Type(p)
  OBVIOUS
<1> HIDE DEF Type
<1>3. PICK v, w, m, n : /\ v = Sim!WithEntry(r.objects, x, A) /\ w = Sim!WithEntry(p.objects, x, B)
                        /\ m = Sim!WithEntry(r.constants, x, A) /\ n = Sim!WithEntry(p.constants, x, B)
  OBVIOUS
<1>4. Ready(r, p) => v = w /\ m = n
  BY <1>1, <1>2, <1>3, TwinsAre
<1>5. PICK a1, a2, b1, b2 : /\ a1 = [r EXCEPT !.objects = v] /\ a2 = [p EXCEPT !.objects = w]
                            /\ b1 = [r EXCEPT !.constants = m] /\ b2 = [p EXCEPT !.constants = n]
  OBVIOUS
<1>6. Together(r, p, a1, a2) /\ Together(r, p, b1, b2)
  <2>1. "objects" \in Told \ {"atoms"} /\ "constants" \in Told \ {"atoms"}
    BY DEF Told
  <2>2. Together(r, p, [r EXCEPT !["objects"] = v], [p EXCEPT !["objects"] = w])
    BY <1>4, <2>1, TogetherField
  <2>3. Together(r, p, [r EXCEPT !["constants"] = m], [p EXCEPT !["constants"] = n])
    BY <1>4, <2>1, TogetherField
  <2> QED BY <1>5, <2>2, <2>3
<1>7. PICK c \in BOOLEAN, d \in BOOLEAN, e \in BOOLEAN, h \in BOOLEAN :
        c = (~r.problem) /\ d = (~p.problem) /\ e = (x \notin Sim!ObjectNames(r)) /\ h = (x \notin Sim!ObjectNames(p))
  OBVIOUS
<1>8. Ready(r, p) => c = d /\ e = h
  BY <1>7, TwinsAre DEF Sim!ObjectNames
<1>9. PICK c1, c2 : c1 = (IF c THEN b1 ELSE a1) /\ c2 = IF d THEN b2 ELSE a2
  OBVIOUS
<1>10. Together(r, p, c1, c2)
  BY <1>6, <1>8, <1>9, TogetherBranch
<1>11. PICK s, q : s = (IF e THEN c1 ELSE r) /\ q = IF h THEN c2 ELSE p
  OBVIOUS
<1>12. Together(r, p, s, q)
  BY <1>8, <1>10, <1>11, TogetherBranch, TogetherSame
<1>13. PICK t : t = [var |-> 0, name |-> x]
  OBVIOUS
<1>14. PICK y, z : y = [s EXCEPT !.term = t] /\ z = [q EXCEPT !.term = t]
  OBVIOUS
<1>15. Together(r, p, y, z)
  <2>1. "term" \in Told \ {"atoms"}
    BY DEF Told
  <2>2. Together(r, p, [s EXCEPT !["term"] = t], [q EXCEPT !["term"] = t])
    BY <1>12, <2>1, TogetherFieldThen
  <2> QED BY <1>14, <2>2
<1>16. Sim!MakeTerm(r, x) = y
  <2>1. c1 = Sim!AddObject(r, x, A)
    BY <1>3, <1>5, <1>7, <1>9 DEF Sim!AddObject
  <2> QED BY <1>2, <1>7, <1>11, <1>13, <1>14, <2>1 DEF Sim!MakeTerm, Type, Sim!OBJECT, OBJECT
<1>17. Plan!MakeTerm(p, x) = z
  BY <1>2, <1>3, <1>5, <1>7, <1>9, <1>11, <1>13, <1>14, Shared DEF Plan!MakeTerm, Type, Plan!OBJECT, OBJECT
<1>18. ASSUME NEW g \in {"head", "functions"} PROVE Spares(r, y, g) /\ Spares(p, z, g)
  <2>1. Spares(r, a1, g) /\ Spares(p, a2, g) /\ Spares(r, b1, g) /\ Spares(p, b2, g)
    BY <1>5, <1>18 DEF Spares
  <2>2. Spares(r, s, g) /\ Spares(p, q, g)
    BY <1>9, <1>11, <2>1, SparesTwice
  <2>3. Spares(s, y, g) /\ Spares(q, z, g)
    BY <1>14, <1>18 DEF Spares
  <2> QED BY <2>2, <2>3, SparesTwice
<1> QED BY <1>15, <1>16, <1>17, <1>18

LEMMA TogetherTerm ==
  ASSUME NEW r, NEW p, NEW x
  PROVE  /\ Together(r, p, Sim!MakeTerm(r, x), Plan!MakeTerm(p, x))
         /\ \A g \in {"head", "functions"} : Spares(r, Sim!MakeTerm(r, x), g) /\ Spares(p, Plan!MakeTerm(p, x), g)
BY TogetherVariableTerm, TogetherObjectTerm

\* Only predicates have terms in the file.
Heading(r) == "head" \in DOMAIN r /\ r.head.table = "predicates"

LEMMA HeadingStays == ASSUME NEW r, NEW s, Spares(r, s, "head"), Heading(r) PROVE Heading(s)
BY DEF Spares, Heading

LEMMA SameTypeOf == ASSUME NEW r, NEW p, Ready(r, p), NEW t PROVE Sim!TypeOf(r, t) = Sim!TypeOf(p, t)
<1>1. r.variables = p.variables /\ r.objects = p.objects /\ r.constants = p.constants
  BY TwinsAre
<1> QED BY <1>1 DEF Sim!TypeOf

LEMMA TogetherTyped ==
  ASSUME NEW r, NEW p, Heading(r), Heading(p)
  PROVE  /\ Together(r, p, Sim!Typed(r), Plan!Typed(p))
         /\ Spares(r, Sim!Typed(r), "head") /\ Spares(p, Plan!Typed(p), "head")
<1>1. PICK A, B : A = Sim!TypeOf(r, r.term) /\ B = Sim!TypeOf(p, p.term)
  OBVIOUS
<1>2. Ready(r, p) => A = B
  <2>1. Ready(r, p) => r.term = p.term
    BY TwinsAre
  <2>2. Ready(r, p) => Sim!TypeOf(r, p.term) = Sim!TypeOf(p, p.term)
    BY SameTypeOf
  <2> QED BY <1>1, <2>1, <2>2
<1>3. PICK a1, a2 : a1 = Sim!AddParameter(r, "predicates", r.head.name, A) /\ a2 = Sim!AddParameter(p, "predicates", p.head.name, B)
  OBVIOUS
<1>4. Together(r, p, a1, a2)
  <2>1. \A y : Together(r, p, Sim!AddParameter(r, "predicates", y, A), Plan!AddParameter(p, "predicates", y, B))
    BY <1>2, TogetherParameter
  <2>2. \A y, u, C, D : Together(u, u, Sim!AddParameter(u, "predicates", y, C), Plan!AddParameter(u, "predicates", y, C))
    BY TogetherParameter
  <2>3. Grows(r, a1) /\ Grows(p, a2)
    BY <1>3, <2>2, Shared DEF Together
  <2>4. ASSUME Ready(r, p) PROVE Matched(a1, a2)
    <3>1. r.head.name = p.head.name
      BY <2>4, TwinsAre
    <3>2. a1 = Sim!AddParameter(r, "predicates", p.head.name, A) /\ a2 = Plan!AddParameter(p, "predicates", p.head.name, B)
      BY <1>3, <3>1, Shared
    <3> QED BY <2>1, <2>4, <3>2, ReadyIs DEF Together
  <2> QED BY <2>3, <2>4, TogetherReady
<1>5. PICK P, Q : P = r.predicates[r.head.name] /\ Q = p.predicates[p.head.name]
  OBVIOUS
<1>6. P = Sim!Parameters(r) /\ Q = Sim!Parameters(p)
  BY <1>5 DEF Sim!Parameters, Heading
<1>7. Ready(r, p) => P = Q /\ r.terms = p.terms /\ r.head = p.head /\ r.types = p.types
  <2>1. Ready(r, p) => r.terms = p.terms /\ r.head = p.head /\ r.types = p.types /\ r.predicates = p.predicates
    BY TwinsAre
  <2> QED BY <1>5, <2>1
<1>8. PICK e \in BOOLEAN, h \in BOOLEAN :
        e = Subtype(r.types, A, P[Len(r.terms) + 1]) /\ h = Subtype(p.types, B, Q[Len(p.terms) + 1])
  BY DEF Subtype
<1>9. Ready(r, p) => e = h
  BY <1>2, <1>7, <1>8
<1>10. PICK b1, b2 : b1 = Sim!Check(r, e) /\ b2 = Sim!Check(p, h)
  OBVIOUS
<1>11. Together(r, p, b1, b2)
  BY <1>9, <1>10, TogetherChecked, Shared
<1>12. PICK m \in BOOLEAN, n \in BOOLEAN : m = (~(Len(P) > Len(r.terms))) /\ n = (~(Len(Q) > Len(p.terms)))
  OBVIOUS
<1>13. PICK c1, c2 : c1 = (IF m THEN r ELSE b1) /\ c2 = IF n THEN p ELSE b2
  OBVIOUS
<1>14. Together(r, p, c1, c2)
  BY <1>7, <1>11, <1>12, <1>13, TogetherBranch, TogetherSame
<1>15. PICK c \in BOOLEAN, d \in BOOLEAN : c = (~r.head.fresh) /\ d = (~p.head.fresh)
  OBVIOUS
<1>16. PICK s, q : s = (IF c THEN c1 ELSE a1) /\ q = IF d THEN c2 ELSE a2
  OBVIOUS
<1>17. Together(r, p, s, q)
  BY <1>4, <1>7, <1>14, <1>15, <1>16, TogetherBranch
<1>18. Sim!Typed(r) = s
  BY <1>1, <1>3, <1>6, <1>8, <1>10, <1>12, <1>13, <1>15, <1>16, SubtypeIs DEF Sim!Typed, Heading
<1>19. Plan!Typed(p) = q
  BY <1>1, <1>3, <1>6, <1>8, <1>10, <1>12, <1>13, <1>15, <1>16, Shared, SubtypeIs DEF Plan!Typed, Plan!Known, Heading
<1>20. Spares(r, s, "head") /\ Spares(p, q, "head")
  <2>1. Spares(r, a1, "head") /\ Spares(p, a2, "head")
    BY <1>3 DEF Spares, Sim!AddParameter
  <2>2. Spares(r, b1, "head") /\ Spares(p, b2, "head")
    BY <1>10, SparesChecked
  <2>3. Spares(r, r, "head") /\ Spares(p, p, "head")
    BY SparesTwice
  <2> QED BY <1>13, <1>16, <2>1, <2>2, <2>3
<1> QED BY <1>17, <1>18, <1>19, <1>20

LEMMA TogetherPlaced ==
  ASSUME NEW r, NEW p, Heading(r), Heading(p)
  PROVE  /\ Together(r, p, Sim!WithTerm(r), Plan!WithTerm(p))
         /\ Heading(Sim!WithTerm(r)) /\ Heading(Plan!WithTerm(p))
<1>1. PICK s, q : s = Sim!Typed(r) /\ q = Plan!Typed(p)
  OBVIOUS
<1>2. Together(r, p, s, q) /\ Spares(r, s, "head") /\ Spares(p, q, "head")
  BY <1>1, TogetherTyped
<1>3. PICK v, w : v = Append(s.terms, r.term) /\ w = Append(q.terms, p.term)
  OBVIOUS
<1>4. PICK y, z : y = [s EXCEPT !.terms = v] /\ z = [q EXCEPT !.terms = w]
  OBVIOUS
<1>5. Together(r, p, y, z)
  <2>1. Ready(r, p) /\ Ready(s, q) => v = w
    BY <1>3, TwinsAre
  <2>2. "terms" \in Told \ {"atoms"}
    BY DEF Told
  <2>3. Together(r, p, [s EXCEPT !["terms"] = v], [q EXCEPT !["terms"] = w])
    BY <1>2, <2>1, <2>2, TogetherFieldThen
  <2> QED BY <1>4, <2>3
<1>6. PICK e : e = [p EXCEPT !.end = "undefined"]
  OBVIOUS
<1>7. Together(r, p, y, e) /\ Together(r, p, r, p)
  BY <1>5, <1>6, TogetherEnded, TogetherSame DEF Together
<1>8. PICK u, x : u = Sim!WithTerm(r) /\ x = Plan!WithTerm(p)
  OBVIOUS
<1>9. u = IF r.end # "" THEN r ELSE y
  BY <1>1, <1>3, <1>4, <1>8 DEF Sim!WithTerm
<1>10. x \in {p, e, z} /\ (p.end = "" => x \in {e, z})
  BY <1>1, <1>3, <1>4, <1>6, <1>8 DEF Plan!WithTerm
<1>11. Grows(r, u) /\ Grows(p, x)
  BY <1>5, <1>7, <1>9, <1>10 DEF Together
<1>12. ASSUME Ready(r, p) PROVE Matched(u, x)
  <2>1. r.end = "" /\ p.end = "" /\ Matched(r, p)
    BY <1>12, ReadyIs DEF Ready
  <2> QED BY <1>5, <1>7, <1>9, <1>10, <2>1 DEF Together
<1>13. Together(r, p, u, x)
  BY <1>11, <1>12, TogetherReady
<1>14. Spares(r, u, "head") /\ Spares(p, x, "head")
  <2>1. Spares(s, y, "head") /\ Spares(q, z, "head") /\ Spares(p, e, "head")
    BY <1>4, <1>6 DEF Spares
  <2>2. Spares(r, y, "head") /\ Spares(p, z, "head") /\ Spares(r, r, "head") /\ Spares(p, p, "head")
    BY <1>2, <2>1, SparesTwice
  <2> QED BY <1>9, <1>10, <2>1, <2>2
<1> QED BY <1>8, <1>13, <1>14, HeadingStays

LEMMA TogetherAdded ==
  ASSUME NEW r, NEW p, Heading(r), Heading(p), NEW x
  PROVE  /\ Together(r, p, Sim!AddTerm(r, x), Plan!AddTerm(p, x))
         /\ Heading(Sim!AddTerm(r, x)) /\ Heading(Plan!AddTerm(p, x))
<1>1. PICK s, q : s = Sim!MakeTerm(r, x) /\ q = Plan!MakeTerm(p, x)
  OBVIOUS
<1>2. Together(r, p, s, q) /\ Heading(s) /\ Heading(q)
  BY <1>1, TogetherTerm, HeadingStays
<1>3. PICK y, z : y = Sim!WithTerm(s) /\ z = Plan!WithTerm(q)
  OBVIOUS
<1>4. Together(s, q, y, z) /\ Heading(y) /\ Heading(z)
  BY <1>2, <1>3, TogetherPlaced
<1>5. Together(r, p, y, z)
  BY <1>2, <1>4, TogetherTwice
<1>6. PICK c \in BOOLEAN, d \in BOOLEAN : c = (r.end # "") /\ d = (p.end # "")
  OBVIOUS
<1>7. Ready(r, p) => c = d
  BY <1>6 DEF Ready
<1>8. PICK u, w : u = (IF c THEN r ELSE y) /\ w = IF d THEN p ELSE z
  OBVIOUS
<1>9. Together(r, p, u, w)
  BY <1>5, <1>7, <1>8, TogetherBranch, TogetherSame
<1>10. u = Sim!AddTerm(r, x) /\ w = Plan!AddTerm(p, x)
  BY <1>1, <1>3, <1>6, <1>8 DEF Sim!AddTerm, Plan!AddTerm
<1>11. Heading(u) /\ Heading(w)
  BY <1>4, <1>8
<1> QED BY <1>9, <1>10, <1>11

LEMMA TogetherTerms ==
  ASSUME NEW r, NEW p, Heading(r), Heading(p), NEW S, NEW xs \in Seq(S)
  PROVE  /\ Together(r, p, Sim!AddTerms(r, xs), Plan!AddTerms(p, xs))
         /\ Heading(Sim!AddTerms(r, xs)) /\ Heading(Plan!AddTerms(p, xs))
<1>1. PICK f : /\ f[0] = r /\ f[Len(xs)] = Sim!AddTerms(r, xs)
               /\ \A i \in 1..Len(xs) : f[i] = Sim!AddTerm(f[i - 1], xs[i])
  BY TermByTerm
<1>2. PICK g : /\ g[0] = p /\ g[Len(xs)] = Plan!AddTerms(p, xs)
               /\ \A i \in 1..Len(xs) : g[i] = Plan!AddTerm(g[i - 1], xs[i])
  BY PlannerTermByTerm
<1>3. PICK n \in Nat : n = Len(xs)
  OBVIOUS
<1>4. PICK T : T = {i \in 0..n : Together(r, p, f[i], g[i]) /\ Heading(f[i]) /\ Heading(g[i])}
  OBVIOUS
<1>5. 0 \in T
  BY <1>1, <1>2, <1>3, <1>4, TogetherSame
<1>6. ASSUME NEW i \in 1..n, i - 1 \in T PROVE i \in T
  <2>1. PICK y, z, x : y = f[i - 1] /\ z = g[i - 1] /\ x = xs[i]
    OBVIOUS
  <2>2. Together(r, p, y, z) /\ Heading(y) /\ Heading(z)
    BY <1>4, <1>6, <2>1
  <2>3. PICK s, q : s = Sim!AddTerm(y, x) /\ q = Plan!AddTerm(z, x)
    OBVIOUS
  <2>4. Together(y, z, s, q) /\ Heading(s) /\ Heading(q)
    BY <2>2, <2>3, TogetherAdded
  <2>5. f[i] = s /\ g[i] = q
    BY <1>1, <1>2, <1>3, <2>1, <2>3
  <2>6. Together(r, p, s, q)
    BY <2>2, <2>4, TogetherTwice
  <2> QED BY <1>3, <1>4, <2>4, <2>5, <2>6
<1>7. n \in T
  BY <1>3, <1>5, <1>6, UpTo
<1> QED BY <1>1, <1>2, <1>3, <1>4, <1>7

-----------------------------------------------------------------------------
\* Atoms.
LEMMA TogetherAtoms ==
  ASSUME NEW r, NEW p, NEW A, NEW B, Ready(r, p) => A = B
  PROVE  Together(r, p, [r EXCEPT !.atoms = @ \cup A], [p EXCEPT !.atoms = @ \cup B])
<1>1. PICK v, w : v = r.atoms \cup A /\ w = p.atoms \cup B
  OBVIOUS
<1>2. PICK s, q : s = [r EXCEPT !.atoms = v] /\ q = [p EXCEPT !.atoms = w]
  OBVIOUS
<1>3. "atoms" \in Told
  BY DEF Told
<1>4. (Whole(r) => Put(r, s, "atoms", v)) /\ (Whole(p) => Put(p, q, "atoms", w))
  <2>1. Whole(r) => Put(r, [r EXCEPT !["atoms"] = v], "atoms", v)
    BY <1>3, FieldPut
  <2>2. Whole(p) => Put(p, [p EXCEPT !["atoms"] = w], "atoms", w)
    BY <1>3, FieldPut
  <2> QED BY <1>2, <2>1, <2>2
<1>5. Whole(r) => s.atoms = v
  BY <1>4 DEF Put
<1>6. Whole(p) => q.atoms = w
  BY <1>4 DEF Put
<1>7. Grows(r, s) /\ Grows(p, q)
  BY <1>1, <1>4, <1>5, <1>6 DEF Grows, Put
<1>8. ASSUME Ready(r, p) PROVE Matched(s, q)
  <2>1. Put(r, s, "atoms", v) /\ Put(p, q, "atoms", w)
    BY <1>4, <1>8, ReadyIs
  <2>2. v = w /\ Twins(r, p) /\ r.success = p.success /\ Clean(r, p)
    BY <1>1, <1>8, TwinsAre DEF Ready, Whole
  <2>3. Twins(s, q)
    BY <2>1, <2>2 DEF Twins, Put
  <2>4. s.success = q.success /\ s.requirements = r.requirements /\ q.requirements = p.requirements /\ Whole(s) /\ Whole(q)
    BY <2>1, <2>2 DEF Put
  <2> QED BY <2>2, <2>3, <2>4 DEF Matched, Clean
<1>9. Together(r, p, s, q)
  BY <1>7, <1>8, TogetherReady
<1> QED BY <1>1, <1>2, <1>9

LEMMA TogetherMade ==
  ASSUME NEW r, NEW p, Ready(r, p) => Sim!Parameters(r) = Sim!Parameters(p)
  PROVE  Together(r, p, Sim!MakeAtom(r), Plan!MakeAtom(p))
<1>1. PICK c \in BOOLEAN, d \in BOOLEAN : /\ c = (Len(r.terms) = Len(Sim!Parameters(r)))
                                          /\ d = (Len(p.terms) = Len(Sim!Parameters(p)))
  OBVIOUS
<1>2. Ready(r, p) => c = d
  <2>1. Ready(r, p) => r.terms = p.terms
    BY TwinsAre
  <2> QED BY <1>1, <2>1
<1>3. PICK s, q : s = Sim!Check(r, c) /\ q = Sim!Check(p, d)
  OBVIOUS
<1>4. Together(r, p, s, q)
  BY <1>2, <1>3, TogetherChecked, Shared
<1>5. PICK A, B : /\ A = {[table |-> r.head.table, name |-> r.head.name, terms |-> r.terms]}
                  /\ B = {[table |-> p.head.table, name |-> p.head.name, terms |-> p.terms]}
  OBVIOUS
<1>6. Ready(r, p) => A = B
  <2>1. Ready(r, p) => r.terms = p.terms /\ r.head = p.head
    BY TwinsAre
  <2> QED BY <1>5, <2>1
<1>7. PICK y, z : y = [s EXCEPT !.atoms = @ \cup A] /\ z = [q EXCEPT !.atoms = @ \cup B]
  OBVIOUS
<1>8. \A C : Together(s, q, [s EXCEPT !.atoms = @ \cup C], [q EXCEPT !.atoms = @ \cup C])
  BY TogetherAtoms
<1>9. \A u, C : Together(u, u, [u EXCEPT !.atoms = @ \cup C], [u EXCEPT !.atoms = @ \cup C])
  BY TogetherAtoms
<1>10. Together(r, p, y, z)
  <2>1. Grows(s, y) /\ Grows(q, z)
    BY <1>7, <1>9 DEF Together
  <2>2. ASSUME Ready(r, p), Ready(s, q) PROVE Matched(y, z)
    BY <1>6, <1>7, <1>8, <2>2, ReadyIs DEF Together
  <2> QED BY <1>4, <2>1, <2>2, TogetherThen
<1>11. PICK H, G : H = [y.head EXCEPT !.table = "", !.fresh = FALSE] /\ G = [z.head EXCEPT !.table = "", !.fresh = FALSE]
  OBVIOUS
<1>12. PICK e, h : e = [y EXCEPT !.head = H] /\ h = [z EXCEPT !.head = G]
  OBVIOUS
<1>13. Together(r, p, e, h)
  <2>1. Ready(y, z) => y.head = z.head
    BY TwinsAre
  <2>2. Ready(y, z) => H = G
    BY <1>11, <2>1
  <2>3. "head" \in Told \ {"atoms"}
    BY DEF Told
  <2>4. Together(r, p, [y EXCEPT !["head"] = H], [z EXCEPT !["head"] = G])
    BY <1>10, <2>2, <2>3, TogetherFieldThen
  <2> QED BY <1>12, <2>4
<1>14. PICK m \in BOOLEAN, n \in BOOLEAN : m = (r.end # "") /\ n = (p.end # "")
  OBVIOUS
<1>15. Ready(r, p) => m = n
  BY <1>14 DEF Ready
<1>16. PICK u, w : u = (IF m THEN r ELSE e) /\ w = IF n THEN p ELSE h
  OBVIOUS
<1>17. Together(r, p, u, w)
  BY <1>13, <1>15, <1>16, TogetherBranch, TogetherSame
<1>18. u = Sim!MakeAtom(r)
  BY <1>1, <1>3, <1>5, <1>7, <1>11, <1>12, <1>14, <1>16 DEF Sim!MakeAtom
<1>19. w = Sim!MakeAtom(p)
  BY <1>1, <1>3, <1>5, <1>7, <1>11, <1>12, <1>14, <1>16 DEF Sim!MakeAtom
<1> QED BY <1>17, <1>18, <1>19, Shared

\* The head of an atom with no terms yet.
HeadPut(r, t, x, fresh) == [[r EXCEPT !.head = [table |-> t, name |-> x, fresh |-> fresh]] EXCEPT !.terms = <<>>]

LEMMA TogetherHeaded ==
  ASSUME NEW r, NEW p, NEW s, NEW q, Together(r, p, s, q), NEW t, NEW x, NEW c, NEW d, Ready(r, p) => c = d
  PROVE  Together(r, p, HeadPut(s, t, x, c), HeadPut(q, t, x, d))
<1>1. PICK H, G : H = [table |-> t, name |-> x, fresh |-> c] /\ G = [table |-> t, name |-> x, fresh |-> d]
  OBVIOUS
<1>2. PICK y, z : y = [s EXCEPT !.head = H] /\ z = [q EXCEPT !.head = G]
  OBVIOUS
<1>3. "head" \in Told \ {"atoms"} /\ "terms" \in Told \ {"atoms"}
  BY DEF Told
<1>4. Together(r, p, y, z)
  <2>1. Ready(r, p) => H = G
    BY <1>1
  <2>2. Together(r, p, [s EXCEPT !["head"] = H], [q EXCEPT !["head"] = G])
    BY <1>3, <2>1, TogetherFieldThen
  <2> QED BY <1>2, <2>2
<1>5. PICK u, w : u = [y EXCEPT !.terms = <<>>] /\ w = [z EXCEPT !.terms = <<>>]
  OBVIOUS
<1>6. Together(y, z, u, w)
  <2>1. Together(y, z, [y EXCEPT !["terms"] = <<>>], [z EXCEPT !["terms"] = <<>>])
    BY <1>3, TogetherField
  <2> QED BY <1>5, <2>1
<1>7. Together(r, p, u, w)
  BY <1>4, <1>6, TogetherTwice
<1>8. u = HeadPut(s, t, x, c) /\ w = HeadPut(q, t, x, d)
  BY <1>1, <1>2, <1>5 DEF HeadPut
<1> QED BY <1>7, <1>8

LEMMA HeadedIs ==
  ASSUME NEW r, Whole(r), NEW t, NEW x, NEW c
  PROVE  /\ "head" \in DOMAIN HeadPut(r, t, x, c)
         /\ HeadPut(r, t, x, c).head.table = t /\ HeadPut(r, t, x, c).head.name = x
         /\ HeadPut(r, t, x, c).functions = r.functions /\ HeadPut(r, t, x, c).end = r.end
BY DEF HeadPut, Whole, Told

LEMMA TogetherHead ==
  ASSUME NEW r, NEW p, NEW x
  PROVE  /\ Together(r, p, Sim!PrepareAtom(r, x), Plan!PrepareAtom(p, x))
         /\ Whole(r) => Heading(Sim!PrepareAtom(r, x))
<1>1. PICK c \in BOOLEAN, d \in BOOLEAN : c = (x \notin DOMAIN r.predicates) /\ d = (x \notin DOMAIN p.predicates)
  OBVIOUS
<1>2. Ready(r, p) => c = d
  BY <1>1, TwinsAre
<1>3. PICK s, q : s = (IF c THEN Sim!AddPredicate(r, x) ELSE r) /\ q = IF d THEN Plan!AddPredicate(p, x) ELSE p
  OBVIOUS
<1>4. Together(r, p, s, q)
  BY <1>2, <1>3, TogetherTables, TogetherBranch, TogetherSame
<1>5. Together(r, p, HeadPut(s, "predicates", x, c), HeadPut(q, "predicates", x, d))
  BY <1>2, <1>4, TogetherHeaded
<1>6. Sim!PrepareAtom(r, x) = HeadPut(s, "predicates", x, c)
  BY <1>1, <1>3 DEF Sim!PrepareAtom, HeadPut
<1>7. Plan!PrepareAtom(p, x) = HeadPut(q, "predicates", x, d)
  BY <1>1, <1>3 DEF Plan!PrepareAtom, HeadPut
<1>8. Whole(r) => Whole(s)
  BY <1>4 DEF Together, Grows
<1>9. Whole(r) => Heading(HeadPut(s, "predicates", x, c))
  BY <1>8, HeadedIs DEF Heading
<1> QED BY <1>5, <1>6, <1>7, <1>9

LEMMA AtomOfTwo ==
  ASSUME NEW r, NEW p, Whole(r), Whole(p), NEW x, NEW S, NEW xs \in Seq(S)
  PROVE  Together(r, p, Sim!ReadAtom(r, x, xs), Plan!ReadAtom(p, x, xs))
<1>1. PICK s, q : s = Sim!PrepareAtom(r, x) /\ q = Plan!PrepareAtom(p, x)
  OBVIOUS
<1>2. Together(r, p, s, q) /\ Heading(s) /\ Heading(q)
  BY <1>1, TogetherHead, Shared
<1>3. PICK y, z : y = Sim!AddTerms(s, xs) /\ z = Plan!AddTerms(q, xs)
  OBVIOUS
<1>4. Together(s, q, y, z) /\ Heading(y) /\ Heading(z)
  BY <1>2, <1>3, TogetherTerms
<1>5. ASSUME Ready(y, z) PROVE Sim!Parameters(y) = Sim!Parameters(z)
  <2>1. y.head = z.head /\ y.predicates = z.predicates
    BY <1>5, TwinsAre
  <2> QED BY <1>4, <2>1 DEF Sim!Parameters, Heading
<1>6. PICK u, w : u = Sim!MakeAtom(y) /\ w = Plan!MakeAtom(z)
  OBVIOUS
<1>7. Together(y, z, u, w)
  BY <1>5, <1>6, TogetherMade
<1>8. Together(r, p, u, w)
  BY <1>2, <1>4, <1>7, TogetherTwice
<1> QED BY <1>1, <1>3, <1>6, <1>8 DEF Sim!ReadAtom, Plan!ReadAtom

LEMMA TogetherAtom ==
  ASSUME NEW r, NEW p, NEW x, NEW S, NEW xs \in Seq(S)
  PROVE  /\ Together(r, p, Sim!ReadAtom(r, x, xs), Plan!ReadAtom(p, x, xs))
         /\ Together(r, p, Sim!ReadChange(r, x, xs), Plan!ReadChange(p, x, xs))
<1>1. PICK s, q : s = Sim!ReadAtom(r, x, xs) /\ q = Plan!ReadAtom(p, x, xs)
  OBVIOUS
<1>2. Whole(r) => Grows(r, s)
  BY <1>1, AtomOfTwo DEF Together
<1>3. Whole(p) => Grows(p, q)
  BY <1>1, AtomOfTwo DEF Together
<1>4. Grows(r, s) /\ Grows(p, q)
  BY <1>2, <1>3 DEF Grows
<1>5. Ready(r, p) => Matched(s, q)
  BY <1>1, AtomOfTwo, ReadyIs DEF Together
<1>6. Together(r, p, s, q)
  BY <1>4, <1>5, TogetherReady
<1>7. PICK u, w : u = Sim!MakeDynamic(s, "predicates", x) /\ w = Plan!MakeDynamic(q, "predicates", x)
  OBVIOUS
<1>8. Together(s, q, u, w)
  BY <1>7, TogetherTables
<1>9. Together(r, p, u, w)
  BY <1>6, <1>8, TogetherTwice
<1> QED BY <1>1, <1>6, <1>7, <1>9 DEF Sim!ReadChange, Plan!ReadChange

-----------------------------------------------------------------------------
\* Fluents, whose functions the programs may have by themselves.
LEMMA FunctionEntered ==
  ASSUME NEW r, Whole(r), NEW x
  PROVE  /\ x \in DOMAIN Sim!AddFunction(r, x).functions /\ x \in DOMAIN Plan!AddFunction(r, x).functions
         /\ Sim!AddFunction(r, x).end = r.end /\ Plan!AddFunction(r, x).end = r.end
<1>1. PICK v, w : /\ v = IF x \in DOMAIN r.functions THEN r.functions ELSE Sim!WithEntry(r.functions, x, <<>>)
                  /\ w = Plan!WithEntry(r.functions, x, <<>>)
  OBVIOUS
<1>2. x \in DOMAIN v /\ x \in DOMAIN w
  BY <1>1 DEF Sim!WithEntry, Plan!WithEntry
<1>3. /\ Sim!AddFunction(r, x) = [[r EXCEPT !.functions = v] EXCEPT !.static = @ \cup {<<"functions", x>>}]
      /\ Plan!AddFunction(r, x) = [[r EXCEPT !.functions = w] EXCEPT !.static = @ \cup {<<"functions", x>>}]
  BY <1>1 DEF Sim!AddFunction, Plan!AddFunction
<1> QED BY <1>2, <1>3 DEF Whole

\* What the fluent has become of the record, before its head is there.
Funded(r, s, x) ==
  /\ Whole(s) /\ x \in DOMAIN s.functions /\ s.end = r.end
  /\ x \in DOMAIN r.functions => s.functions = r.functions

LEMMA FundedAs ==
  ASSUME NEW r, Whole(r), NEW x, NEW q, NEW s,
         \/ x \in DOMAIN r.functions /\ q = r
         \/ x \notin DOMAIN r.functions /\ q \in {Sim!AddFunction(r, x), Plan!AddFunction(r, x)},
         s \in {q, Sim!Fail(q), Sim!Assume(q, "fluents")}
  PROVE  Grows(r, s) /\ Funded(r, s, x)
<1>1. Grows(r, q) /\ Whole(q) /\ x \in DOMAIN q.functions /\ q.end = r.end /\ (x \in DOMAIN r.functions => q = r)
  <2>1. Grows(r, r) /\ Grows(r, Sim!AddFunction(r, x)) /\ Grows(r, Plan!AddFunction(r, x))
    BY GrowsTwice, MatchedFunction
  <2>2. Grows(r, q)
    BY <2>1
  <2>3. Whole(q)
    BY <2>2 DEF Grows
  <2> QED BY <2>2, <2>3, FunctionEntered
<1>2. /\ Sim!Fail(q).functions = q.functions /\ Sim!Assume(q, "fluents").functions = q.functions
      /\ Sim!Fail(q).end = q.end /\ Sim!Assume(q, "fluents").end = q.end
  BY <1>1 DEF Sim!Fail, Sim!Assume, Whole
<1>3. Grows(q, q) /\ Grows(q, Sim!Fail(q)) /\ Grows(q, Sim!Assume(q, "fluents"))
  <2>1. Grows(q, Sim!Fail(q)) /\ Grows(q, q)
    BY MatchedChecked, GrowsTwice
  <2>2. Aside(q, Sim!Assume(q, "fluents"))
    BY AsideNoted
  <2> QED BY <2>1, <2>2, AsideMatched
<1>4. Grows(q, s) /\ s.functions = q.functions /\ s.end = q.end
  BY <1>2, <1>3
<1>5. Grows(r, s)
  BY <1>1, <1>4, GrowsTwice
<1>6. Whole(s)
  BY <1>5 DEF Grows
<1> QED BY <1>1, <1>4, <1>5, <1>6 DEF Funded

LEMMA FluentHead ==
  ASSUME NEW r, Whole(r), NEW x, NEW place
  PROVE  /\ \E s, c : /\ Sim!PrepareFluent(r, x, place) = HeadPut(s, "functions", x, c)
                      /\ Grows(r, s) /\ Funded(r, s, x)
         /\ \E s, c : /\ Plan!PrepareApplication(r, x) = HeadPut(s, "functions", x, c)
                      /\ Grows(r, s) /\ Funded(r, s, x)
<1>1. PICK q : q = IF x \notin DOMAIN r.functions THEN Sim!AddFunction(r, x) ELSE r
  OBVIOUS
<1>2. PICK s : s = CASE "rewards" \in r.requirements /\ x = "reward" -> Sim!Check(q, place # "formula")
                     [] x \in {"total-time", "goal-achieved"}        -> Sim!Check(q, place = "metric")
                     [] OTHER                                        -> Sim!Assume(q, "fluents")
  OBVIOUS
<1>3. Sim!PrepareFluent(r, x, place) = HeadPut(s, "functions", x, x \notin DOMAIN r.functions)
  BY <1>1, <1>2 DEF Sim!PrepareFluent, HeadPut
<1>4. s \in {q, Sim!Fail(q), Sim!Assume(q, "fluents")}
  BY <1>2 DEF Sim!Check
<1>5. Grows(r, s) /\ Funded(r, s, x)
  BY <1>1, <1>4, FundedAs DEF Funded
<1>6. PICK u : u = IF x \notin DOMAIN r.functions THEN Plan!AddFunction(r, x) ELSE r
  OBVIOUS
<1>7. PICK w : w = IF "rewards" \in r.requirements /\ x = r.reward THEN u ELSE Plan!Assume(u, "fluents")
  OBVIOUS
<1>8. Plan!PrepareApplication(r, x) = HeadPut(w, "functions", x, x \notin DOMAIN r.functions)
  BY <1>6, <1>7 DEF Plan!PrepareApplication, HeadPut
<1>9. w \in {u, Sim!Fail(u), Sim!Assume(u, "fluents")}
  BY <1>7, Shared
<1>10. Grows(r, w) /\ Funded(r, w, x)
  BY <1>6, <1>9, FundedAs DEF Funded
<1> QED BY <1>3, <1>5, <1>8, <1>10

LEMMA PlannerNoTerms == ASSUME NEW r PROVE Plan!AddTerms(r, <<>>) = r
<1>1. ASSUME NEW S, NEW xs \in Seq(S), Len(xs) = 0 PROVE Plan!AddTerms(r, xs) = r
  <2>1. PICK f : f[0] = r /\ f[Len(xs)] = Plan!AddTerms(r, xs)
    BY PlannerTermByTerm
  <2> QED BY <1>1, <2>1
<1>2. <<>> \in Seq({}) /\ Len(<<>>) = 0
  OBVIOUS
<1> QED BY <1>1, <1>2

\* The atom that is made has the name in the head.
LEMMA MadeNamed ==
  ASSUME NEW r, Whole(r), r.end = ""
  PROVE  /\ \E a \in Sim!MakeAtom(r).atoms : a.name = r.head.name
         /\ Sim!MakeAtom(r).functions = r.functions
<1>1. PICK s : s = Sim!Check(r, Len(r.terms) = Len(Sim!Parameters(r)))
  OBVIOUS
<1>2. s \in {r, Sim!Fail(r)}
  BY <1>1 DEF Sim!Check
<1>3. DOMAIN s = DOMAIN r /\ s.functions = r.functions
  BY <1>2 DEF Sim!Fail, Whole
<1>4. PICK a : a = [table |-> r.head.table, name |-> r.head.name, terms |-> r.terms]
  OBVIOUS
<1>5. PICK y : y = [s EXCEPT !.atoms = @ \cup {a}]
  OBVIOUS
<1>6. "atoms" \in DOMAIN s /\ "functions" \in DOMAIN s /\ "head" \in DOMAIN s
  BY <1>3 DEF Whole, Told
<1>7. a \in y.atoms /\ DOMAIN y = DOMAIN s /\ y.functions = s.functions
  BY <1>5, <1>6
<1>8. PICK H : H = [y.head EXCEPT !.table = "", !.fresh = FALSE]
  OBVIOUS
<1>9. Sim!MakeAtom(r) = [y EXCEPT !.head = H]
  BY <1>1, <1>4, <1>5, <1>8 DEF Sim!MakeAtom
<1>10. [y EXCEPT !.head = H].atoms = y.atoms /\ [y EXCEPT !.head = H].functions = y.functions
  BY <1>6, <1>7
<1>11. a.name = r.head.name
  BY <1>4
<1> QED BY <1>3, <1>7, <1>9, <1>10, <1>11

LEMMA GrowsHeaded == ASSUME NEW s, NEW t, NEW x, NEW c PROVE Grows(s, HeadPut(s, t, x, c))
BY TogetherHeaded, TogetherSame DEF Together

LEMMA GrowsMade == ASSUME NEW s PROVE Grows(s, Sim!MakeAtom(s))
BY TogetherMade DEF Together

\* By itself.
Mentions(s, x) == s.end = "" => \E a \in s.atoms : a.name = x

LEMMA FluentAlone ==
  ASSUME NEW r, NEW x, NEW place, NEW s, s \in {Sim!ReadFluent(r, x, <<>>, place), Plan!ReadApplication(r, x, <<>>)}
  PROVE  /\ Grows(r, s)
         /\ Whole(r) => Mentions(s, x) /\ (x \in DOMAIN r.functions => s.functions = r.functions)
<1>1. SUFFICES ASSUME Whole(r)
               PROVE  Grows(r, s) /\ Mentions(s, x) /\ (x \in DOMAIN r.functions => s.functions = r.functions)
  BY DEF Grows
<1>2. PICK h \in {Sim!PrepareFluent(r, x, place), Plan!PrepareApplication(r, x)} : s = Sim!MakeAtom(h)
  BY NoTerms, PlannerNoTerms, Shared DEF Sim!ReadFluent, Plan!ReadApplication
<1>3. PICK q, c : h = HeadPut(q, "functions", x, c) /\ Grows(r, q) /\ Funded(r, q, x)
  BY <1>1, <1>2, FluentHead
<1>4. Whole(q) /\ Whole(h) /\ Grows(r, h) /\ Grows(r, s)
  <2>1. Whole(q)
    BY <1>3 DEF Funded
  <2>2. Grows(q, h)
    BY <1>3, GrowsHeaded
  <2>3. Grows(h, s)
    BY <1>2, GrowsMade
  <2>4. Whole(h)
    BY <2>1, <2>2 DEF Grows
  <2>5. Grows(r, h)
    BY <1>3, <2>2, GrowsTwice
  <2> QED BY <2>1, <2>3, <2>4, <2>5, GrowsTwice
<1>5. h.head.name = x /\ h.functions = q.functions
  BY <1>3, <1>4, HeadedIs
<1>6. x \in DOMAIN r.functions => h.functions = r.functions
  BY <1>3, <1>5 DEF Funded
<1>7. CASE h.end = ""
  BY <1>2, <1>4, <1>5, <1>6, <1>7, MadeNamed DEF Mentions
<1>8. CASE h.end # ""
  <2>1. s = h
    BY <1>2, <1>8 DEF Sim!MakeAtom
  <2> QED BY <1>4, <1>6, <1>8, <2>1 DEF Mentions
<1> QED BY <1>7, <1>8

\* Whoever uses what only one program has is not told anything.
LEMMA NamedMatched ==
  ASSUME NEW r, NEW p, Ready(r, p), NEW s, NEW q, Grows(r, s), Grows(p, q), NEW x \in Own, Mentions(s, x) \/ Mentions(q, x)
  PROVE  Matched(s, q) /\ ~Ready(s, q)
<1>1. /\ Whole(s) /\ Whole(q)
      /\ "rewards" \in s.requirements <=> "rewards" \in r.requirements
      /\ "rewards" \in q.requirements <=> "rewards" \in p.requirements
  BY ReadyIs DEF Grows
<1>2. "rewards" \notin r.requirements /\ "rewards" \notin p.requirements
  BY DEF Ready, Clean
<1>3. s.end = "" /\ q.end = "" => ~Clean(s, q)
  BY DEF Mentions, Clean
<1> QED BY <1>1, <1>2, <1>3 DEF Matched, Ready

LEMMA TogetherFluent ==
  ASSUME NEW r, NEW p, NEW x, NEW place
  PROVE  Together(r, p, Sim!ReadFluent(r, x, <<>>, place), Plan!ReadApplication(p, x, <<>>))
<1>1. PICK s, q : s = Sim!ReadFluent(r, x, <<>>, place) /\ q = Plan!ReadApplication(p, x, <<>>)
  OBVIOUS
<1>2. Grows(r, s) /\ Grows(p, q)
  BY <1>1, FluentAlone
<1>3. SUFFICES ASSUME Ready(r, p) PROVE Matched(s, q)
  BY <1>1, <1>2, TogetherReady
<1>4. Whole(r) /\ Whole(p) /\ Matched(r, p)
  BY <1>3, ReadyIs
<1>5. CASE x \in Own
  <2>1. Mentions(s, x)
    BY <1>1, <1>4, FluentAlone
  <2> QED BY <1>2, <1>3, <1>5, <2>1, NamedMatched
<1>6. CASE x \notin Own
  <2>1. x \notin OwnFunctions /\ x # "reward" /\ x \notin {"total-time", "goal-achieved"}
    BY <1>6 DEF Own, OwnFunctions
  <2>2. PICK c \in BOOLEAN, d \in BOOLEAN : c = (x \notin DOMAIN r.functions) /\ d = (x \notin DOMAIN p.functions)
    OBVIOUS
  <2>3. c = d
    BY <1>3, <2>1, <2>2, TwinsAre DEF SameFunctions
  <2>4. PICK u, w : u = (IF c THEN Sim!AddFunction(r, x) ELSE r) /\ w = IF d THEN Plan!AddFunction(p, x) ELSE p
    OBVIOUS
  <2>5. Matched(u, w) /\ x \in DOMAIN u.functions
    <3>1. CASE c
      <4>1. x \notin DOMAIN r.functions
        BY <2>2, <3>1
      <4> QED BY <1>4, <2>3, <2>4, <3>1, <4>1, MatchedFunction, FunctionEntered
    <3>2. CASE ~c
      BY <1>4, <2>2, <2>3, <2>4, <3>2
    <3> QED BY <3>1, <3>2
  <2>6. Together(u, w, Sim!Assume(u, "fluents"), Plan!Assume(w, "fluents"))
    BY TogetherNoted
  <2>7. PICK y, z : y = Sim!Assume(u, "fluents") /\ z = Plan!Assume(w, "fluents")
    OBVIOUS
  <2>8. Sim!PrepareFluent(r, x, place) = HeadPut(y, "functions", x, c)
    BY <2>1, <2>2, <2>4, <2>7 DEF Sim!PrepareFluent, HeadPut
  <2>9. Plan!PrepareApplication(p, x) = HeadPut(z, "functions", x, d)
    <3>1. "rewards" \notin p.requirements
      BY <1>3 DEF Ready, Clean
    <3> QED BY <2>2, <2>4, <2>7, <3>1 DEF Plan!PrepareApplication, HeadPut
  <2>10. PICK e, h : e = HeadPut(y, "functions", x, c) /\ h = HeadPut(z, "functions", x, d)
    OBVIOUS
  <2>11. Matched(y, z)
    BY <2>5, <2>6, <2>7 DEF Together
  <2>12. Together(y, z, e, h)
    BY <2>3, <2>10, TogetherHeaded, TogetherSame
  <2>13. ASSUME Ready(e, h) PROVE Sim!Parameters(e) = Sim!Parameters(h)
    <3>1. Whole(u)
      BY <2>5 DEF Matched
    <3>2. Whole(y) /\ y.functions = u.functions
      <4>1. y.functions = u.functions
        BY <2>7, <3>1 DEF Whole, Sim!Assume
      <4> QED BY <2>11, <4>1 DEF Matched
    <3>3. e.head.table = "functions" /\ e.head.name = x /\ e.functions = y.functions
      BY <2>10, <3>2, HeadedIs
    <3>4. h.head = e.head /\ SameFunctions(e.functions, h.functions)
      BY <2>13, TwinsAre
    <3>5. x \in DOMAIN e.functions
      BY <2>5, <3>2, <3>3
    <3>6. e.functions[x] = h.functions[x]
      BY <2>1, <3>4, <3>5 DEF SameFunctions
    <3>7. Sim!Parameters(e) = e.functions[x] /\ Sim!Parameters(h) = h.functions[x]
      BY <3>3, <3>4 DEF Sim!Parameters
    <3> QED BY <3>6, <3>7
  <2>14. Together(e, h, Sim!MakeAtom(e), Plan!MakeAtom(h))
    BY <2>13, TogetherMade
  <2>15. s = Sim!MakeAtom(e) /\ q = Plan!MakeAtom(h)
    BY <1>1, <2>8, <2>9, <2>10, NoTerms, PlannerNoTerms DEF Sim!ReadFluent, Plan!ReadApplication
  <2> QED BY <2>11, <2>12, <2>14, <2>15 DEF Together
<1> QED BY <1>5, <1>6

LEMMA TogetherUpdated ==
  ASSUME NEW r, NEW p, NEW op, NEW x, NEW constant
  PROVE  Together(r, p, Sim!ReadUpdate(r, op, x, <<>>, constant), Plan!ReadUpdate(p, op, x, <<>>, constant))
<1>1. PICK s, q : s = Sim!ReadFluent(r, x, <<>>, "effect") /\ q = Plan!ReadApplication(p, x, <<>>)
  OBVIOUS
<1>2. Together(r, p, s, q)
  BY <1>1, TogetherFluent
<1>3. PICK y, z : y = Sim!MakeUpdate(s, op, x, constant) /\ z = Plan!MakeUpdate(q, op, x, constant)
  OBVIOUS
<1>4. Together(s, q, y, z)
  <2>1. ASSUME NEW u PROVE Grows(u, u) /\ Grows(u, Sim!Fail(u)) /\ Grows(u, Sim!Assume(u, "fluents"))
    <3>1. Grows(u, Sim!Fail(u)) /\ Grows(u, u)
      BY MatchedChecked, GrowsTwice
    <3>2. Aside(u, Sim!Assume(u, "fluents"))
      BY AsideNoted
    <3> QED BY <3>1, <3>2, AsideMatched
  <2>2. y \in {s, Sim!Fail(s), Sim!Assume(s, "fluents")}
    BY <1>3 DEF Sim!MakeUpdate, Sim!Check
  <2>3. z \in {q, Sim!Fail(q), Sim!Assume(q, "fluents")}
    BY <1>3, Shared DEF Plan!MakeUpdate, Sim!Check
  <2>4. Grows(s, y) /\ Grows(q, z)
    BY <2>1, <2>2, <2>3
  <2>5. ASSUME Ready(s, q) PROVE Matched(y, z)
    <3>1. "rewards" \notin s.requirements /\ "rewards" \notin q.requirements
      BY <2>5 DEF Ready, Clean
    <3>2. y = Sim!Assume(s, "fluents") /\ z = Plan!Assume(q, "fluents")
      BY <1>3, <3>1 DEF Sim!MakeUpdate, Plan!MakeUpdate
    <3>3. Together(s, q, y, z)
      BY <3>2, TogetherNoted
    <3> QED BY <2>5, <3>3, ReadyIs DEF Together
  <2> QED BY <2>4, <2>5, TogetherReady
<1>5. PICK u, w : u = Sim!MakeDynamic(y, "functions", x) /\ w = Plan!MakeDynamic(z, "functions", x)
  OBVIOUS
<1>6. Together(y, z, u, w)
  BY <1>5, TogetherDynamic
<1>7. Together(r, p, u, w)
  BY <1>2, <1>4, <1>6, TogetherTwice
<1> QED BY <1>1, <1>3, <1>5, <1>7 DEF Sim!ReadUpdate, Plan!ReadUpdate

-----------------------------------------------------------------------------
\* Equality of terms, or of what one program takes for fluents.
LEMMA EqualTermAlone ==
  ASSUME NEW r, NEW x, NEW s, s \in {Sim!ReadEqualTerm(r, x), Plan!ReadEqualTerm(r, x)}
  PROVE  /\ Grows(r, s)
         /\ Whole(r) /\ r.end = "" => /\ s.functions = r.functions
                                      /\ x \in DOMAIN r.functions => Mentions(s, x)
<1>1. PICK u, w, y, z : /\ u = Sim!ReadFluent(r, x, <<>>, "formula") /\ w = Plan!ReadApplication(r, x, <<>>)
                        /\ y = Sim!MakeTerm(r, x) /\ z = Plan!MakeTerm(r, x)
  OBVIOUS
<1>2. /\ Grows(r, u) /\ Grows(r, w)
      /\ Whole(r) /\ x \in DOMAIN r.functions => /\ u.functions = r.functions /\ w.functions = r.functions
                                                 /\ Mentions(u, x) /\ Mentions(w, x)
  BY <1>1, FluentAlone
<1>3. /\ Grows(r, y) /\ Grows(r, z) /\ Grows(r, r)
      /\ Spares(r, y, "functions") /\ Spares(r, z, "functions")
  BY <1>1, TogetherTerm, GrowsTwice DEF Together
<1>4. Whole(r) => y.functions = r.functions /\ z.functions = r.functions
  BY <1>3 DEF Whole, Spares
<1>5. CASE r.end # ""
  <2>1. s = r
    BY <1>5 DEF Sim!ReadEqualTerm, Plan!ReadEqualTerm
  <2> QED BY <1>3, <1>5, <2>1
<1>6. CASE r.end = "" /\ x \in DOMAIN r.functions
  <2>1. s \in {u, w}
    BY <1>1, <1>6 DEF Sim!ReadEqualTerm, Plan!ReadEqualTerm
  <2> QED BY <1>2, <1>6, <2>1
<1>7. CASE r.end = "" /\ x \notin DOMAIN r.functions
  <2>1. s \in {y, z}
    BY <1>1, <1>7 DEF Sim!ReadEqualTerm, Plan!ReadEqualTerm
  <2> QED BY <1>3, <1>4, <1>7, <2>1
<1> QED BY <1>5, <1>6, <1>7

\* Whether x is a fluent is the same for both, or told only by what nothing is said about.
Special(r, p, x) == x \in OwnFunctions /\ (x \in DOMAIN r.functions \/ x \in DOMAIN p.functions)

LEMMA TogetherEqualTerm ==
  ASSUME NEW r, NEW p, NEW x
  PROVE  /\ Together(r, p, Sim!ReadEqualTerm(r, x), Plan!ReadEqualTerm(p, x))
         /\ Ready(r, p) => /\ Special(r, p, x) => ~Ready(Sim!ReadEqualTerm(r, x), Plan!ReadEqualTerm(p, x))
                           /\ ~Special(r, p, x) => (x \in DOMAIN r.functions <=> x \in DOMAIN p.functions)
<1>1. PICK s, q : s = Sim!ReadEqualTerm(r, x) /\ q = Plan!ReadEqualTerm(p, x)
  OBVIOUS
<1>2. Grows(r, s) /\ Grows(p, q)
  BY <1>1, EqualTermAlone
<1>3. ASSUME Ready(r, p)
      PROVE  Matched(s, q) /\ (Special(r, p, x) => ~Ready(s, q))
             /\ (~Special(r, p, x) => (x \in DOMAIN r.functions <=> x \in DOMAIN p.functions))
  <2>1. Whole(r) /\ Whole(p) /\ r.end = "" /\ p.end = "" /\ SameFunctions(r.functions, p.functions)
    BY <1>3, ReadyIs, TwinsAre
  <2>2. CASE Special(r, p, x)
    <3>1. Mentions(s, x) \/ Mentions(q, x)
      BY <1>1, <2>1, <2>2, EqualTermAlone DEF Special
    <3>2. x \in Own
      BY <2>2 DEF Special, Own
    <3> QED BY <1>2, <1>3, <2>2, <3>1, <3>2, NamedMatched
  <2>3. CASE ~Special(r, p, x)
    <3>1. x \in DOMAIN r.functions <=> x \in DOMAIN p.functions
      BY <2>1, <2>3 DEF Special, SameFunctions
    <3>2. CASE x \in DOMAIN r.functions
      <4>1. s = Sim!ReadFluent(r, x, <<>>, "formula") /\ q = Plan!ReadApplication(p, x, <<>>)
        BY <1>1, <2>1, <3>1, <3>2 DEF Sim!ReadEqualTerm, Plan!ReadEqualTerm
      <4>2. Together(r, p, s, q)
        BY <4>1, TogetherFluent
      <4> QED BY <1>3, <2>3, <3>1, <4>2, ReadyIs DEF Together
    <3>3. CASE x \notin DOMAIN r.functions
      <4>1. s = Sim!MakeTerm(r, x) /\ q = Plan!MakeTerm(p, x)
        BY <1>1, <2>1, <3>1, <3>3 DEF Sim!ReadEqualTerm, Plan!ReadEqualTerm
      <4>2. Together(r, p, s, q)
        BY <4>1, TogetherTerm
      <4> QED BY <1>3, <2>3, <3>1, <4>2, ReadyIs DEF Together
    <3> QED BY <3>2, <3>3
  <2> QED BY <2>2, <2>3
<1>4. Together(r, p, s, q)
  BY <1>2, <1>3, TogetherReady
<1> QED BY <1>1, <1>3, <1>4

LEMMA TogetherEqual ==
  ASSUME NEW r, NEW p, NEW t, NEW u, NEW F, NEW G, Ready(r, p) => t = u /\ F = G
  PROVE  Together(r, p, Sim!MakeEqual(r, t, F), Plan!MakeEqual(p, u, G))
<1>1. PICK A, B : /\ A = IF Sim!Related(r, t, r.term) THEN {[table |-> "=", name |-> "", terms |-> <<t, r.term>>]} ELSE {}
                  /\ B = IF Plan!Related(p, u, p.term) THEN {[table |-> "=", name |-> "", terms |-> <<u, p.term>>]} ELSE {}
  OBVIOUS
<1>2. Ready(r, p) => A = B
  <2>1. SUFFICES ASSUME Ready(r, p) PROVE A = B
    OBVIOUS
  <2>2. t = u /\ r.term = p.term /\ r.types = p.types
    BY <2>1, TwinsAre
  <2>3. \A v : Sim!TypeOf(r, v) = Sim!TypeOf(p, v)
    BY <2>1, SameTypeOf
  <2>4. Sim!Related(r, t, r.term) <=> Plan!Related(p, u, p.term)
    BY <2>2, <2>3, Shared, SubtypeIs DEF Sim!Related, Plan!Related
  <2> QED BY <1>1, <2>2, <2>4
<1>3. PICK s, q : s = [r EXCEPT !.atoms = @ \cup A] /\ q = [p EXCEPT !.atoms = @ \cup B]
  OBVIOUS
<1>4. Together(r, p, s, q)
  BY <1>2, <1>3, TogetherAtoms
<1>5. PICK e : e = [p EXCEPT !.end = "undefined"]
  OBVIOUS
<1>6. Together(r, p, s, e) /\ Together(r, p, r, p) /\ Together(r, p, Sim!Fail(r), Sim!Fail(p))
  BY <1>4, <1>5, TogetherEnded, TogetherSame, TogetherFailed, Shared DEF Together
<1>7. PICK y, z : y = Sim!MakeEqual(r, t, F) /\ z = Plan!MakeEqual(p, u, G)
  OBVIOUS
<1>8. /\ r.end # "" \/ F = <<TRUE, TRUE>> => y = r
      /\ r.end = "" /\ F # <<TRUE, TRUE>> /\ F[1] # F[2] => y = Sim!Fail(r)
      /\ r.end = "" /\ F # <<TRUE, TRUE>> /\ F[1] = F[2] => y = s
      /\ y \in {r, Sim!Fail(r), s}
  <2>1. CASE r.end # "" \/ F = <<TRUE, TRUE>>
    <3>1. F = <<TRUE, TRUE>> => F[1] = F[2]
      OBVIOUS
    <3> QED BY <1>7, <2>1, <3>1 DEF Sim!MakeEqual
  <2>2. CASE r.end = "" /\ F # <<TRUE, TRUE>> /\ F[1] # F[2]
    BY <1>1, <1>3, <1>7, <2>2 DEF Sim!MakeEqual
  <2>3. CASE r.end = "" /\ F # <<TRUE, TRUE>> /\ F[1] = F[2]
    BY <1>1, <1>3, <1>7, <2>3 DEF Sim!MakeEqual
  <2> QED BY <2>1, <2>2, <2>3
<1>9. /\ p.end # "" \/ G = <<TRUE, TRUE>> => z = p
      /\ p.end = "" /\ G # <<TRUE, TRUE>> /\ G[1] # G[2] => z = Sim!Fail(p)
      /\ p.end = "" /\ G # <<TRUE, TRUE>> /\ G[1] = G[2] => z \in {q, e}
      /\ z \in {p, Sim!Fail(p), q, e}
  <2>1. CASE p.end # "" \/ G = <<TRUE, TRUE>>
    <3>1. G = <<TRUE, TRUE>> => G[1] = G[2] /\ G # <<FALSE, FALSE>>
      OBVIOUS
    <3> QED BY <1>7, <2>1, <3>1 DEF Plan!MakeEqual
  <2>2. CASE p.end = "" /\ G # <<TRUE, TRUE>> /\ G[1] # G[2]
    <3>1. G = <<FALSE, FALSE>> => G[1] = G[2]
      OBVIOUS
    <3> QED BY <1>1, <1>3, <1>5, <1>7, <2>2, <3>1, Shared DEF Plan!MakeEqual
  <2>3. CASE p.end = "" /\ G # <<TRUE, TRUE>> /\ G[1] = G[2]
    BY <1>1, <1>3, <1>5, <1>7, <2>3 DEF Plan!MakeEqual
  <2> QED BY <2>1, <2>2, <2>3
<1>10. Grows(r, y) /\ Grows(p, z)
  BY <1>4, <1>6, <1>8, <1>9 DEF Together
<1>11. ASSUME Ready(r, p) PROVE Matched(y, z)
  <2>1. r.end = "" /\ p.end = "" /\ F = G /\ Matched(r, p)
    BY <1>11, ReadyIs DEF Ready
  <2>2. Matched(s, q) /\ Matched(s, e) /\ Matched(Sim!Fail(r), Sim!Fail(p))
    BY <1>4, <1>6, <2>1 DEF Together
  <2> QED BY <1>8, <1>9, <2>1, <2>2
<1>12. Together(r, p, y, z)
  BY <1>10, <1>11, TogetherReady
<1> QED BY <1>7, <1>12

LEMMA TogetherEquality ==
  ASSUME NEW r, NEW p, NEW x, NEW y
  PROVE  Together(r, p, Sim!ReadEqual(r, x, y), Plan!ReadEqual(p, x, y))
<1>1. PICK r0, p0 : r0 = Sim!Assume(r, "equality") /\ p0 = Plan!Assume(p, "equality")
  OBVIOUS
<1>2. Together(r, p, r0, p0)
  BY <1>1, TogetherNoted
<1>3. PICK r1, p1 : r1 = Sim!ReadEqualTerm(r0, x) /\ p1 = Plan!ReadEqualTerm(p0, x)
  OBVIOUS
<1>4. Together(r0, p0, r1, p1)
  BY <1>3, TogetherEqualTerm
<1>5. PICK r2, p2 : r2 = Sim!ReadEqualTerm(r1, y) /\ p2 = Plan!ReadEqualTerm(p1, y)
  OBVIOUS
<1>6. Together(r1, p1, r2, p2)
  BY <1>5, TogetherEqualTerm
<1>7. Together(r, p, r1, p1) /\ Together(r, p, r2, p2)
  <2>1. Together(r, p, r1, p1)
    BY <1>2, <1>4, TogetherTwice
  <2> QED BY <1>6, <2>1, TogetherTwice
<1>8. PICK F, G : F = <<x \in DOMAIN r.functions, y \in DOMAIN r.functions>> /\ G = <<x \in DOMAIN p.functions, y \in DOMAIN p.functions>>
  OBVIOUS
<1>9. PICK r3, p3 : r3 = Sim!MakeEqual(r2, r1.term, F) /\ p3 = Plan!MakeEqual(p2, p1.term, G)
  OBVIOUS
<1>10. ASSUME Ready(r, p), Ready(r2, p2) PROVE r1.term = p1.term /\ F = G
  <2>1. Grows(r, r0) /\ Grows(p, p0) /\ Grows(r0, r1) /\ Grows(p0, p1) /\ Grows(r1, r2) /\ Grows(p1, p2)
    BY <1>2, <1>4, <1>6 DEF Together
  <2>2. Whole(r) /\ Whole(p)
    BY <1>10, ReadyIs
  <2>3. Whole(r0) /\ Whole(p0)
    BY <2>1, <2>2 DEF Grows
  <2>4. Whole(r1) /\ Whole(p1)
    BY <2>1, <2>3 DEF Grows
  <2>5. Ready(r1, p1)
    <3>1. Matched(r1, p1)
      BY <1>7, <1>10, ReadyIs DEF Together
    <3>2. r1.end = "" /\ p1.end = "" /\ r1.success /\ p1.success /\ Clean(r1, p1)
      BY <1>10, <2>1, <2>4 DEF Grows, Ready, Clean
    <3> QED BY <3>1, <3>2 DEF Matched, Ready
  <2>6. Ready(r0, p0)
    <3>1. Matched(r0, p0)
      BY <1>2, <1>10, ReadyIs DEF Together
    <3>2. r0.end = "" /\ p0.end = "" /\ r0.success /\ p0.success /\ Clean(r0, p0)
      BY <2>1, <2>3, <2>5 DEF Grows, Ready, Clean
    <3> QED BY <3>1, <3>2 DEF Matched, Ready
  <2>7. ~Special(r0, p0, x) /\ ~Special(r1, p1, y)
    BY <1>3, <1>5, <1>10, <2>5, <2>6, TogetherEqualTerm
  <2>8. /\ x \in DOMAIN r0.functions <=> x \in DOMAIN p0.functions
        /\ y \in DOMAIN r1.functions <=> y \in DOMAIN p1.functions
    BY <2>5, <2>6, <2>7, TogetherEqualTerm
  <2>9. r1.functions = r0.functions /\ p1.functions = p0.functions
    BY <1>3, <2>3, <2>6, EqualTermAlone DEF Ready
  <2>10. r0.functions = r.functions /\ p0.functions = p.functions
    BY <1>1, <2>2, Shared DEF Sim!Assume, Whole
  <2>11. F = G
    BY <1>8, <2>8, <2>9, <2>10
  <2> QED BY <2>5, <2>11, TwinsAre
<1>11. Together(r, p, r3, p3)
  <2>1. \A u, v, t, w, H, K : (Ready(u, v) => t = w /\ H = K) => Together(u, v, Sim!MakeEqual(u, t, H), Plan!MakeEqual(v, w, K))
    BY TogetherEqual
  <2>2. Grows(r2, r3) /\ Grows(p2, p3)
    <3>1. \A u, t, H : Grows(u, Sim!MakeEqual(u, t, H)) /\ Grows(u, Plan!MakeEqual(u, t, H))
      BY <2>1 DEF Together
    <3> QED BY <1>9, <3>1
  <2>3. ASSUME Ready(r, p), Ready(r2, p2) PROVE Matched(r3, p3)
    <3>1. Together(r2, p2, r3, p3)
      BY <1>9, <1>10, <2>1, <2>3
    <3> QED BY <2>3, <3>1, ReadyIs DEF Together
  <2> QED BY <1>7, <2>2, <2>3, TogetherThen
<1>12. Sim!ReadEqual(r, x, y) = r3
  BY <1>1, <1>3, <1>5, <1>8, <1>9 DEF Sim!ReadEqual, Sim!ReadSecond
<1>13. Plan!ReadEqual(p, x, y) = p3
  BY <1>1, <1>3, <1>5, <1>8, <1>9 DEF Plan!ReadEqual, Plan!ReadSecond
<1> QED BY <1>11, <1>12, <1>13

-----------------------------------------------------------------------------
\* The weights of outcomes: mini-gpt looks at every sum, mdpsim at the last.
LEMMA SumBySum ==
  ASSUME NEW r, NEW xs \in Seq(Nat), NEW unit
  PROVE  /\ Sim!SumOf(xs) = Totals(xs)[Len(xs)]
         /\ Plan!ReadOutcomes(r, xs, unit) =
              Plan!Check(Plan!Assume(r, "probabilistic-effects"), \A i \in DOMAIN xs : xs[i] <= unit /\ Totals(xs)[i] <= unit)
BY DEF Sim!SumOf, Plan!ReadOutcomes, Totals

LEMMA TogetherOutcomes ==
  ASSUME NEW r, NEW p, NEW xs \in Seq(Nat), NEW unit \in Nat
  PROVE  Together(r, p, Sim!ReadOutcomes(r, xs, unit), Plan!ReadOutcomes(p, xs, unit))
<1>1. PICK f : /\ f[0] = 0 /\ \A i \in 1..Len(xs) : f[i] = f[i - 1] + xs[i]
               /\ f[Len(xs)] = Sim!SumOf(xs)
               /\ Plan!ReadOutcomes(p, xs, unit) =
                    Plan!Check(Plan!Assume(p, "probabilistic-effects"), \A i \in DOMAIN xs : xs[i] <= unit /\ f[i] <= unit)
  <2>1. PICK f : f = Totals(xs)
    OBVIOUS
  <2> QED BY <2>1, TotalsAre, SumBySum
<1>2. PICK n \in Nat : n = Len(xs)
  OBVIOUS
<1>3. /\ \A i \in 1..n : xs[i] \in Nat
      /\ DOMAIN xs = 1..n
  BY <1>2
<1>4. \A i \in 0..n : f[i] \in Nat /\ f[i] <= f[n]
  <2>1. \A i \in 1..n : f[i] = f[i - 1] + xs[i]
    BY <1>1, <1>2
  <2> QED BY <1>1, <1>3, <2>1, SumsGrow
<1>5. ((\A i \in DOMAIN xs : xs[i] <= unit) /\ Sim!SumOf(xs) <= unit) <=> \A i \in DOMAIN xs : xs[i] <= unit /\ f[i] <= unit
  <2>1. CASE n = 0
    <3>1. f[n] = 0
      BY <1>1, <2>1
    <3> QED BY <1>1, <1>2, <1>3, <2>1, <3>1
  <2>2. CASE n # 0
    <3>1. n \in DOMAIN xs
      BY <1>3, <2>2
    <3>2. ASSUME f[n] <= unit, NEW i \in DOMAIN xs PROVE f[i] <= unit
      <4>1. i \in 0..n
        BY <1>3
      <4>2. f[i] \in Nat /\ f[n] \in Nat /\ f[i] <= f[n]
        BY <1>4, <4>1
      <4> QED BY <3>2, <4>2
    <3> QED BY <1>1, <1>2, <3>1, <3>2
  <2> QED BY <2>1, <2>2
<1>6. PICK s, q : s = Sim!Assume(r, "probabilistic-effects") /\ q = Plan!Assume(p, "probabilistic-effects")
  OBVIOUS
<1>7. Together(r, p, s, q)
  BY <1>6, TogetherNoted
<1>8. PICK c \in BOOLEAN : c = \A i \in DOMAIN xs : xs[i] <= unit /\ f[i] <= unit
  OBVIOUS
<1>9. Together(s, q, Sim!Check(s, c), Plan!Check(q, c))
  BY TogetherChecked
<1>10. Together(r, p, Sim!Check(s, c), Plan!Check(q, c))
  BY <1>7, <1>9, TogetherTwice
<1>11. Plan!ReadOutcomes(p, xs, unit) = Plan!Check(q, c)
  BY <1>1, <1>6, <1>8
<1>12. Sim!ReadOutcomes(r, xs, unit) = Sim!Check(s, c)
  <2>1. (\A i \in DOMAIN xs : xs[i] <= unit) /\ Sim!SumOf(xs) <= unit <=> c
    BY <1>5, <1>8
  <2> QED BY <1>6, <2>1 DEF Sim!ReadOutcomes, Sim!Check
<1> QED BY <1>10, <1>11, <1>12

-----------------------------------------------------------------------------
\* The problem.
LEMMA ValuesAside == \A r, v : Aside(r, [r EXCEPT !.values = v])
<1>1. "values" \notin Told \cup {"success", "end", "requirements", "functions", "static"}
  BY DEF Told
<1> QED BY <1>1, AsideOne

LEMMA StartWhole == Whole(Sim!Start) /\ Whole(Plan!Start)
BY DEF Whole, Told, Sim!Start, Plan!Start

LEMMA StartReady == Ready(Sim!Start, Plan!Start)
<1>1. PICK r, p : r = Sim!Start /\ p = Plan!Start
  OBVIOUS
<1>2. Whole(r) /\ Whole(p)
  BY <1>1, StartWhole
<1>3. /\ r.end = "" /\ p.end = "" /\ r.success = TRUE /\ p.success = TRUE
      /\ r.requirements = {} /\ p.requirements = {} /\ r.atoms = {} /\ p.atoms = {}
      /\ r.static = {} /\ p.static = {}
      /\ r.functions = [f \in {"total-time", "goal-achieved"} |-> <<>>] /\ p.functions = Sim!None
  BY <1>1 DEF Sim!Start, Plan!Start, Sim!None, Plan!None
<1>4. Clean(r, p)
  BY <1>3 DEF Clean
<1>5. SameStatic(r.static, p.static)
  BY <1>3 DEF SameStatic
<1>6. SameFunctions(r.functions, p.functions)
  BY <1>3 DEF SameFunctions, OwnFunctions, Sim!None
<1>7. ASSUME NEW f \in Told PROVE r[f] = p[f]
  <2>1. /\ r.types = p.types /\ r.constants = p.constants /\ r.objects = p.objects /\ r.problem = p.problem
        /\ r.predicates = p.predicates /\ r.variables = p.variables /\ r.frames = p.frames
        /\ r.quantified = p.quantified
    BY <1>1 DEF Sim!Start, Plan!Start, Sim!None, Plan!None
  <2>2. /\ r.parameters = p.parameters /\ r.name = p.name
        /\ r.actions = p.actions /\ r.lists = p.lists /\ r.head = p.head /\ r.terms = p.terms
        /\ r.term = p.term /\ r.atoms = p.atoms
    BY <1>1 DEF Sim!Start, Plan!Start, Sim!None, Plan!None
  <2> QED BY <1>7, <2>1, <2>2 DEF Told
<1> QED BY <1>1, <1>2, <1>3, <1>4, <1>5, <1>6, <1>7 DEF Ready, Twins

LEMMA UnknownDomain ==
  ASSUME NEW F, NEW V, NEW G, NEW W, NEW x,
         NEW s, s = [[Sim!Fail(Sim!Start) EXCEPT !.frames = F] EXCEPT !.quantified = V],
         NEW q, q = [[[Plan!Fail(Plan!Start) EXCEPT !.frames = G] EXCEPT !.quantified = W] EXCEPT !.reward = x]
  PROVE  Matched(s, q)
<1>1. PICK s0, q0 : s0 = Sim!Fail(Sim!Start) /\ q0 = Plan!Fail(Plan!Start)
  OBVIOUS
<1>2. Matched(s0, q0) /\ ~Ready(s0, q0)
  BY <1>1, StartReady, ReadyIs, TogetherFailed, FailedIsNot DEF Together
<1>3. PICK s1, q1 : s1 = [s0 EXCEPT !.frames = F] /\ q1 = [q0 EXCEPT !.frames = G]
  OBVIOUS
<1>4. PICK q2 : q2 = [q1 EXCEPT !.quantified = W]
  OBVIOUS
<1>5. s = [s1 EXCEPT !.quantified = V] /\ q = [q2 EXCEPT !.reward = x]
  BY <1>1, <1>3, <1>4
<1>6. "frames" \in Told \ {"atoms"} /\ "quantified" \in Told \ {"atoms"}
  BY DEF Told
<1>7. Grows(s0, s1) /\ Grows(q0, q1)
  <2>1. Grows(s0, [s0 EXCEPT !["frames"] = F]) /\ Grows(q0, [q0 EXCEPT !["frames"] = G])
    BY <1>6, GrowsOne
  <2> QED BY <1>3, <2>1
<1>8. Grows(s1, s) /\ Grows(q1, q2)
  <2>1. Grows(s1, [s1 EXCEPT !["quantified"] = V]) /\ Grows(q1, [q1 EXCEPT !["quantified"] = W])
    BY <1>6, GrowsOne
  <2> QED BY <1>4, <1>5, <2>1
<1>9. Grows(q2, q)
  <2>1. "reward" \notin Told \cup {"success", "end", "requirements", "functions", "static"}
    BY DEF Told
  <2>2. Aside(q2, [q2 EXCEPT !["reward"] = x])
    BY <2>1, AsideOne
  <2> QED BY <1>5, <2>2, AsideMatched
<1>10. Grows(s0, s) /\ Grows(q0, q)
  <2>1. Grows(q0, q2)
    BY <1>7, <1>8, GrowsTwice
  <2> QED BY <1>7, <1>8, <1>9, <2>1, GrowsTwice
<1> QED BY <1>2, <1>10, MatchedSpoiled

LEMMA MatchedProblem ==
  ASSUME NEW r, NEW p, Matched(r, p), NEW known
  PROVE  Matched(Sim!MakeProblem(r, known), Plan!MakeProblem(p, known))
<1>1. PICK s, q : /\ s = [[Sim!Fail(Sim!Start) EXCEPT !.frames = r.frames] EXCEPT !.quantified = r.quantified]
                  /\ q = [[[Plan!Fail(Plan!Start) EXCEPT !.frames = p.frames] EXCEPT !.quantified = p.quantified] EXCEPT !.reward = p.reward]
  OBVIOUS
<1>2. Matched(s, q)
  BY <1>1, UnknownDomain
<1>3. PICK u, w : u = (IF known THEN r ELSE s) /\ w = IF known THEN p ELSE q
  OBVIOUS
<1>4. Matched(u, w)
  BY <1>2, <1>3
<1>5. "problem" \in Told \ {"atoms"} /\ "objects" \in Told \ {"atoms"}
  BY DEF Told
<1>6. PICK y, z : y = [u EXCEPT !.problem = TRUE] /\ z = [w EXCEPT !.problem = TRUE]
  OBVIOUS
<1>7. Together(u, w, y, z)
  <2>1. Together(u, w, [u EXCEPT !["problem"] = TRUE], [w EXCEPT !["problem"] = TRUE])
    BY <1>5, TogetherField
  <2> QED BY <1>6, <2>1
<1>8. PICK e, h : e = [y EXCEPT !.objects = Sim!None] /\ h = [z EXCEPT !.objects = Sim!None]
  OBVIOUS
<1>12. Aside(e, [e EXCEPT !.values = {}])
  BY ValuesAside
<1>9. Together(y, z, e, h)
  <2>1. Together(y, z, [y EXCEPT !["objects"] = Sim!None], [z EXCEPT !["objects"] = Sim!None])
    BY <1>5, TogetherField
  <2> QED BY <1>8, <2>1
<1>10. [e EXCEPT !.values = {}] = Sim!MakeProblem(r, known)
  BY <1>1, <1>3, <1>6, <1>8 DEF Sim!MakeProblem
<1>11. h = Plan!MakeProblem(p, known)
  BY <1>1, <1>3, <1>6, <1>8 DEF Plan!MakeProblem, Plan!None, Sim!None
<1> QED BY <1>4, <1>7, <1>9, <1>10, <1>11, <1>12, AsideMatched DEF Together

LEMMA AsideInstantiated == ASSUME NEW r PROVE Aside(r, Sim!Instantiate(r))
<1>1. PICK m : m = CASE "rewards" \in r.requirements -> "reward"
                     [] "rewards" \notin r.requirements /\ "probabilistic-effects" \in r.requirements -> "goal-achieved"
                     [] OTHER -> "total-time"
  OBVIOUS
<1>2. PICK s : s = [r EXCEPT !.metric = m]
  OBVIOUS
<1>3. Aside(r, s)
  <2>1. "metric" \notin Told \cup {"success", "end", "requirements", "functions", "static"}
    BY DEF Told
  <2>2. Aside(r, [r EXCEPT !["metric"] = m])
    BY <2>1, AsideOne
  <2> QED BY <1>2, <2>2
<1>4. PICK e : e = IF <<"functions", m>> \in r.static /\ m \notin r.values THEN "thrown" ELSE s.end
  OBVIOUS
<1>5. PICK u : u = [s EXCEPT !.end = e]
  OBVIOUS
<1>6. Sim!Instantiate(r) = u
  BY <1>1, <1>2, <1>4, <1>5 DEF Sim!Instantiate
<1>7. Aside(s, u)
  <2>1. CASE e = s.end
    <3>1. Whole(s) => Laid(s, u, "end", e)
      BY <1>5, OtherPut
    <3>2. "end" \notin Told
      BY DEF Told
    <3> QED BY <2>1, <3>1, <3>2 DEF Laid, Aside, SameFunctions, SameStatic
  <2>2. CASE e = "thrown"
    BY <1>5, <2>2, AsideOther
  <2> QED BY <1>4, <2>1, <2>2
<1> QED BY <1>3, <1>6, <1>7, AsideTwice

-----------------------------------------------------------------------------
\* Nothing is claimed of a file whose actions, or whose goal, change the reward.
MatchedInv == text \in Texts /\ ("reward" \notin {c[2] : c \in changed} => Matched(sim, plan))

LEMMA InitMatched == ASSUME Init PROVE MatchedInv
BY StartReady, ReadyIs DEF Init, MatchedInv

LEMMA MatchedEntry ==
  ASSUME NEW s, NEW p, Matched(sim, plan) => Whole(s) /\ Whole(p) /\ Matched(s, p),
         Matched(sim, plan),
         sim' = IF sim.end = "" THEN s ELSE sim, plan' = IF plan.end = "" THEN p ELSE plan
  PROVE  Matched(sim', plan')
<1>1. PICK y, z : y = sim' /\ z = plan'
  OBVIOUS
<1>2. Whole(sim) /\ Whole(plan)
  BY DEF Matched
<1>3. CASE sim.end = "" /\ plan.end = ""
  BY <1>3
<1>4. CASE ~(sim.end = "" /\ plan.end = "")
  <2>1. Whole(y) /\ Whole(z) /\ (y.end # "" \/ z.end # "")
    BY <1>1, <1>2, <1>4
  <2> QED BY <1>1, <2>1, EndedMatched
<1> QED BY <1>3, <1>4

LEMMA MatchedTogether ==
  ASSUME NEW s, NEW p, Together(sim, plan, s, p), Matched(sim, plan),
         sim' = IF sim.end = "" THEN s ELSE sim, plan' = IF plan.end = "" THEN p ELSE plan
  PROVE  Matched(sim', plan')
<1>1. Whole(sim) /\ Whole(plan)
  BY DEF Matched
<1>2. Whole(s) /\ Whole(p) /\ Matched(s, p)
  BY <1>1 DEF Together, Grows
<1> QED BY <1>2, MatchedEntry

LEMMA MatchedStays ==
  ASSUME MatchedInv, text' = text, changed \subseteq changed', Matched(sim, plan) => Matched(sim', plan')
  PROVE  MatchedInv'
BY DEF MatchedInv

\* An entry of a file.
LEMMA EntryMatched ==
  ASSUME MatchedInv, NEW s, NEW p, Entry(s, p), changed \subseteq changed',
         Together(sim, plan, s, p)
  PROVE  MatchedInv'
<1>1. /\ text' = text /\ sim' = (IF sim.end = "" THEN s ELSE sim)
      /\ plan' = IF plan.end = "" THEN p ELSE plan
  BY DEF Entry
<1>2. ASSUME Matched(sim, plan) PROVE Matched(sim', plan')
  BY <1>1, <1>2, MatchedTogether
<1> QED BY <1>1, <1>2, MatchedStays

LEMMA MatchedStepDeclare ==
  ASSUME MatchedInv, ReadRequirement \/ ReadType \/ ReadName \/ ReadPredicate \/ ReadFunction
  PROVE  MatchedInv'
<1>1. text \in Texts
  BY DEF MatchedInv
<1>2. CASE ReadRequirement
  <2>1. PICK key : Entry(Sim!RequireKey(sim, key), Plan!RequireKey(plan, key)) /\ changed' = changed
    BY <1>2 DEF ReadRequirement
  <2>2. PICK s, p : s = Sim!RequireKey(sim, key) /\ p = Plan!RequireKey(plan, key)
    OBVIOUS
  <2>3. Matched(sim, plan) => Whole(s) /\ Whole(p) /\ Matched(s, p)
    BY <2>2, MatchedRequired
  <2>4. /\ text' = text /\ sim' = (IF sim.end = "" THEN s ELSE sim)
        /\ plan' = IF plan.end = "" THEN p ELSE plan
    BY <2>1, <2>2 DEF Entry
  <2>5. Matched(sim, plan) => Matched(sim', plan')
    BY <2>3, <2>4, MatchedEntry
  <2> QED BY <2>1, <2>4, <2>5, MatchedStays
<1>3. CASE ReadType
  <2>1. PICK x, B : /\ Entry(Sim!AddTypeName(Sim!TypeSpec(sim, B), x, B), Plan!AddTypeName(Plan!TypeSpec(plan, B), x, B))
                    /\ changed' = changed
    BY <1>3 DEF ReadType
  <2>2. PICK s, p : s = Sim!TypeSpec(sim, B) /\ p = Plan!TypeSpec(plan, B)
    OBVIOUS
  <2>3. PICK u, w : u = Sim!AddTypeName(s, x, B) /\ w = Plan!AddTypeName(p, x, B)
    OBVIOUS
  <2>4. Together(sim, plan, s, p)
    BY <2>2, TogetherSpecified
  <2>5. Together(s, p, u, w)
    BY <2>2, <2>3, NoTypes, TogetherType
  <2>6. Together(sim, plan, u, w)
    BY <2>4, <2>5, TogetherTwice
  <2> QED BY <2>1, <2>2, <2>3, <2>6, EntryMatched
<1>4. CASE ReadName
  <2>1. PICK x, B : /\ changed' = changed
                    /\ \/ Entry(Sim!AddConstantName(Sim!TypeSpec(sim, B), x, B), Plan!AddConstantName(Plan!TypeSpec(plan, B), x, B))
                       \/ Entry(Sim!AddObjectName(Sim!TypeSpec(sim, B), x, B), Plan!AddObjectName(Plan!TypeSpec(plan, B), x, B))
    BY <1>4 DEF ReadName
  <2>2. PICK s, p : s = Sim!TypeSpec(sim, B) /\ p = Plan!TypeSpec(plan, B)
    OBVIOUS
  <2>3. Together(sim, plan, s, p)
    BY <2>2, TogetherSpecified
  <2>4. Ready(s, p) => B # {}
    BY <2>2, NoTypes
  <2>5. PICK u, w : /\ Entry(u, w)
                    /\ \/ u = Sim!AddConstantName(s, x, B) /\ w = Plan!AddConstantName(p, x, B)
                       \/ u = Sim!AddObjectName(s, x, B) /\ w = Plan!AddObjectName(p, x, B)
    BY <2>1, <2>2
  <2>6. Together(s, p, u, w)
    BY <2>4, <2>5, TogetherNames
  <2>7. Together(sim, plan, u, w)
    BY <2>3, <2>6, TogetherTwice
  <2> QED BY <2>1, <2>5, <2>7, EntryMatched
<1>5. CASE ReadPredicate
  <2>1. PICK d \in text.predicates : /\ Entry(Sim!DeclarePredicate(sim, d[1], d[2]), Plan!DeclarePredicate(plan, d[1], d[2]))
                                     /\ changed' = changed
    BY <1>5 DEF ReadPredicate
  <2>2. d[2] \in Seq(SUBSET STRING)
    BY <1>1, <2>1, TextsAssumption
  <2>3. PICK u, w : u = Sim!DeclarePredicate(sim, d[1], d[2]) /\ w = Plan!DeclarePredicate(plan, d[1], d[2])
    OBVIOUS
  <2>4. Together(sim, plan, u, w)
    BY <2>2, <2>3, TogetherPredicate
  <2> QED BY <2>1, <2>3, <2>4, EntryMatched
<1>6. CASE ReadFunction
  <2>1. PICK d \in text.functions : /\ Entry(Sim!DeclareFunction(sim, d[1], d[2]), Plan!DeclareFunction(plan, d[1], d[2]))
                                    /\ changed' = changed
    BY <1>6 DEF ReadFunction
  <2>2. d[2] \in Seq(SUBSET STRING)
    BY <1>1, <2>1, TextsAssumption
  <2>3. PICK u, w : u = Sim!DeclareFunction(sim, d[1], d[2]) /\ w = Plan!DeclareFunction(plan, d[1], d[2])
    OBVIOUS
  <2>4. Together(sim, plan, u, w)
    BY <2>2, <2>3, TogetherFunction
  <2> QED BY <2>1, <2>3, <2>4, EntryMatched
<1> QED BY <1>2, <1>3, <1>4, <1>5, <1>6

LEMMA MatchedStepOpen ==
  ASSUME MatchedInv, OpenAction \/ OpenQuantifier
  PROVE  MatchedInv'
<1>1. text \in Texts
  BY DEF MatchedInv
<1>2. PICK xs, s, p :
        /\ xs \in text.binders
        /\ Entry(Sim!AddVariables(s, xs), Plan!AddVariables(p, xs)) /\ changed' = changed
        /\ Together(sim, plan, s, p)
  <2>1. CASE OpenAction
    <3>1. PICK a \in text.actions, xs \in text.binders :
            /\ Entry(Sim!AddVariables(Sim!MakeAction(sim, a), xs), Plan!AddVariables(Plan!MakeAction(plan, a), xs))
            /\ changed' = changed
      BY <2>1 DEF OpenAction
    <3> QED BY <3>1, TogetherAction
  <2>2. CASE OpenQuantifier
    <3>1. PICK x \in text.quantifiers, xs \in text.binders :
            /\ Entry(Sim!AddVariables(Sim!Prepare(sim, x), xs), Plan!AddVariables(Plan!Prepare(plan, x), xs))
            /\ changed' = changed
      BY <2>2 DEF OpenQuantifier
    <3>2. x # "rewards"
      BY <1>1, TextsAssumption
    <3> QED BY <3>1, <3>2, TogetherPrepared
  <2> QED BY <2>1, <2>2
<1>3. xs \in Seq(VariableNames \X SUBSET STRING)
  BY <1>1, <1>2, TextsAssumption
<1>4. PICK u, w : u = Sim!AddVariables(s, xs) /\ w = Plan!AddVariables(p, xs)
  OBVIOUS
<1>5. Together(s, p, u, w)
  BY <1>3, <1>4, TogetherVariables
<1>6. Together(sim, plan, u, w)
  BY <1>2, <1>5, TogetherTwice
<1> QED BY <1>2, <1>4, <1>6, EntryMatched

LEMMA MatchedStepClose == ASSUME MatchedInv, Close PROVE MatchedInv'
<1>1. PICK s, p : /\ text' = text /\ changed' = changed
                  /\ sim' = (IF sim.end = "" THEN s ELSE sim) /\ plan' = (IF plan.end = "" THEN p ELSE plan)
                  /\ Together(sim, plan, s, p)
  BY TogetherClosed, TogetherQuantified DEF Close
<1>2. Matched(sim, plan) => Matched(sim', plan')
  BY <1>1, MatchedTogether
<1> QED BY <1>1, <1>2, MatchedStays

LEMMA MatchedStepRead ==
  ASSUME MatchedInv, ReadAtom \/ ReadEqual \/ ReadChange \/ ReadUpdate \/ ReadValue \/ ReadOutcomes
  PROVE  MatchedInv'
<1>1. text \in Texts
  BY DEF MatchedInv
<1>2. SUFFICES \E s, p : Entry(s, p) /\ changed \subseteq changed' /\ Together(sim, plan, s, p)
  BY EntryMatched
<1>3. CASE ReadAtom
  <2>1. PICK x \in text.heads, xs \in text.terms :
          Entry(Sim!ReadAtom(sim, x, xs), Plan!ReadAtom(plan, x, xs)) /\ changed' = changed
    BY <1>3 DEF ReadAtom
  <2>2. xs \in Seq(STRING)
    BY <1>1, TextsAssumption
  <2> QED BY <2>1, <2>2, TogetherAtom
<1>4. CASE ReadEqual
  <2>1. PICK x, y : Entry(Sim!ReadEqual(sim, x, y), Plan!ReadEqual(plan, x, y)) /\ changed' = changed
    BY <1>4 DEF ReadEqual
  <2> QED BY <2>1, TogetherEquality
<1>5. CASE ReadChange
  <2>1. PICK x \in text.heads, xs \in text.terms :
          Entry(Sim!ReadChange(sim, x, xs), Plan!ReadChange(plan, x, xs)) /\ changed \subseteq changed'
    BY <1>5 DEF ReadChange
  <2>2. xs \in Seq(STRING)
    BY <1>1, TextsAssumption
  <2> QED BY <2>1, <2>2, TogetherAtom
<1>6. CASE ReadUpdate
  <2>1. PICK f, op, constant :
          /\ Entry(Sim!ReadUpdate(sim, op, f, <<>>, constant), Plan!ReadUpdate(plan, op, f, <<>>, constant))
          /\ changed \subseteq changed'
    BY <1>6 DEF ReadUpdate
  <2> QED BY <2>1, TogetherUpdated
<1>7. CASE ReadValue
  <2>1. PICK f : Entry(Sim!ReadValue(sim, f), Plan!ReadApplication(plan, f, <<>>)) /\ changed' = changed
    BY <1>7 DEF ReadValue
  <2>2. PICK q, p, v : /\ q = Sim!ReadFluent(sim, f, <<>>, "formula") /\ Sim!ReadValue(sim, f) = [q EXCEPT !.values = v]
                       /\ p = Plan!ReadApplication(plan, f, <<>>)
    BY DEF Sim!ReadValue
  <2>3. Together(sim, plan, q, p) /\ Together(q, p, [q EXCEPT !.values = v], p)
    BY <2>2, TogetherFluent, ValuesAside, AsideTwice, TogetherAside
  <2> QED BY <2>1, <2>2, <2>3, TogetherTwice
<1>8. CASE ReadOutcomes
  <2>1. PICK w \in text.weights : Entry(Sim!ReadOutcomes(sim, w, 4), Plan!ReadOutcomes(plan, w, 4)) /\ changed' = changed
    BY <1>8 DEF ReadOutcomes
  <2>2. w \in Seq(Nat)
    BY <1>1, TextsAssumption
  <2>3. Together(sim, plan, Sim!ReadOutcomes(sim, w, 4), Plan!ReadOutcomes(plan, w, 4))
    BY <2>2, TogetherOutcomes
  <2> QED BY <2>1, <2>3
<1> QED BY <1>3, <1>4, <1>5, <1>6, <1>7, <1>8

LEMMA MatchedStepSection == ASSUME MatchedInv, NextSection \/ BeginProblem \/ EndProblem PROVE MatchedInv'
<1>1. CASE NextSection
  BY <1>1 DEF NextSection, MatchedInv
<1>2. CASE BeginProblem
  <2>1. PICK known : /\ sim' = (IF sim.end = "" THEN Sim!MakeProblem(sim, known) ELSE sim)
                     /\ plan' = (IF plan.end = "" THEN Plan!MakeProblem(plan, known) ELSE plan)
                     /\ text' = text /\ changed' = changed
    BY <1>2 DEF BeginProblem
  <2>2. PICK s, p : s = Sim!MakeProblem(sim, known) /\ p = Plan!MakeProblem(plan, known)
    OBVIOUS
  <2>3. Matched(sim, plan) => Matched(s, p)
    BY <2>2, MatchedProblem
  <2>4. Matched(sim, plan) => Whole(s) /\ Whole(p) /\ Matched(s, p)
    BY <2>3 DEF Matched
  <2>5. sim' = (IF sim.end = "" THEN s ELSE sim) /\ plan' = (IF plan.end = "" THEN p ELSE plan)
    BY <2>1, <2>2
  <2>6. Matched(sim, plan) => Matched(sim', plan')
    BY <2>4, <2>5, MatchedEntry
  <2> QED BY <2>1, <2>6, MatchedStays
<1>3. CASE EndProblem
  <2>1. PICK goalReward : LET s == IF goalReward THEN Sim!SetGoalReward(sim) ELSE sim
                          IN  /\ sim' = IF sim.end = "" THEN Sim!Instantiate(s) ELSE sim
                              /\ changed' = IF goalReward THEN changed \cup {<<"functions", "reward">>} ELSE changed
    BY <1>3 DEF EndProblem
  <2>2. text' = text /\ plan' = plan
    BY <1>3 DEF EndProblem
  <2>3. CASE goalReward
    <3>1. <<"functions", "reward">> \in changed' /\ <<"functions", "reward">>[2] = "reward"
      BY <2>1, <2>3
    <3>2. "reward" \in {c[2] : c \in changed'}
      BY <3>1
    <3> QED BY <2>2, <3>2 DEF MatchedInv
  <2>4. CASE ~goalReward
    <3>1. sim' = (IF sim.end = "" THEN Sim!Instantiate(sim) ELSE sim) /\ changed' = changed
      BY <2>1, <2>4
    <3>2. Aside(sim, sim')
      BY <3>1, AsideInstantiated, AsideTwice
    <3>3. Matched(sim, plan) => Matched(sim', plan')
      BY <2>2, <3>2, AsideMatched
    <3> QED BY <2>2, <3>1, <3>3, MatchedStays
  <2> QED BY <2>3, <2>4
<1> QED BY <1>1, <1>2, <1>3

LEMMA MatchedStep == ASSUME MatchedInv, [Next]_vars PROVE MatchedInv'
<1>1. CASE UNCHANGED vars
  BY <1>1 DEF vars, MatchedInv
<1> QED BY <1>1, MatchedStepDeclare, MatchedStepOpen, MatchedStepClose, MatchedStepRead, MatchedStepSection DEF Next

LEMMA MatchedEnough == ASSUME MatchedInv PROVE ReadAlike
<1>1. SUFFICES ASSUME sim.end = "", plan.end = "", "rewards" \notin sim.requirements,
                      ({"reward"} \cup OwnFunctions) \cap
                        ({c[2] : c \in changed} \cup {a.name : a \in sim.atoms \cup plan.atoms}) = {}
               PROVE  sim.success = plan.success /\ (sim.success => Tables(sim) = Tables(plan))
  BY DEF ReadAlike
<1>2. "reward" \notin {c[2] : c \in changed} /\ \A a \in sim.atoms \cup plan.atoms : a.name \notin Own
  BY <1>1 DEF Own
<1>3. Matched(sim, plan)
  BY <1>2 DEF MatchedInv
<1>4. Clean(sim, plan)
  BY <1>1, <1>2, <1>3 DEF Matched, Clean
<1>5. sim.success = plan.success /\ (sim.success => Twins(sim, plan))
  BY <1>1, <1>3, <1>4 DEF Matched
<1>6. ASSUME sim.success PROVE Tables(sim) = Tables(plan)
  <2>1. Twins(sim, plan)
    BY <1>5, <1>6
  <2>2. /\ sim.types = plan.types /\ sim.constants = plan.constants /\ sim.objects = plan.objects
        /\ sim.predicates = plan.predicates /\ sim.variables = plan.variables /\ sim.actions = plan.actions
        /\ sim.lists = plan.lists /\ sim.atoms = plan.atoms
    BY <2>1 DEF Twins, Told
  <2>3. {p \in DOMAIN sim.predicates : <<"predicates", p>> \in sim.static}
          = {p \in DOMAIN plan.predicates : <<"predicates", p>> \in plan.static}
    BY <2>1, <2>2 DEF Twins, SameStatic
  <2> QED BY <2>2, <2>3 DEF Tables
<1> QED BY <1>5, <1>6

\* A file is accepted by both parsers or by neither, and what is accepted is the same for
\* both: types, constants, objects, predicates with what is static among them, variables,
\* actions, quantifiers and atoms.  Excepted are a file that requires, names or changes the
\* reward or uses a function that only one of the programs has, and one where a parser does
\* not get to the end.
THEOREM FilesAreReadAlike == Spec => []ReadAlike
<1>1. Init => MatchedInv
  BY InitMatched
<1>2. MatchedInv /\ [Next]_vars => MatchedInv'
  BY MatchedStep
<1>3. MatchedInv => ReadAlike
  BY MatchedEnough
<1> QED BY <1>1, <1>2, <1>3, PTL DEF Spec

=============================================================================

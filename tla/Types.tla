------------------------------- MODULE Types --------------------------------
(***************************************************************************)
(* The type tables of both programs (types.cc of mini-gpt and of mdpsim).  *)
(* A type is the set of its component names: {"object"}, {t}, or a union   *)
(* of several.  The table is the set T of pairs <<k, l>> such that the     *)
(* declared type k is below the declared type l.                           *)
(***************************************************************************)
EXTENDS Integers, SequencesExt

OBJECT == "object"

\* The order of simple types: every type is below object.
Below(T, k, l) == k = l \/ (k # OBJECT /\ l = OBJECT) \/ <<k, l>> \in T

\* TypeTable::subtype: every component of A is below some component of B.
Subtype(T, A, B) == \A k \in A : \E l \in B : Below(T, k, l)

\* TypeTable::components: object has none.
Components(A) == IF A = {OBJECT} THEN {} ELSE A

\* The union of types: of none it is object (mini-gpt), or an error (mdpsim).
Union(names) == IF names = {} THEN {OBJECT} ELSE names

\* The declared names that occur in the table.
Names(T) == {p[1] : p \in T} \cup {p[2] : p \in T}

\* Mutant: only the two types are put into the table, and not what follows.
LinkedAlone(T, t, u) == T \cup {<<t, u>>}

\* What becomes of the table when t is put below u: all that is below t and not below u
\* comes below all that is above u.
Linked(T, t, u) ==
  T \cup {p \in (Names(T) \cup {t}) \X (Names(T) \cup {u}) :
            Below(T, p[1], t) /\ ~Below(T, p[1], u) /\ Below(T, u, p[2])}

\* TypeTable::add_supertype: refused when u is already below t.
AddSupertype(T, t, u) ==
  IF Below(T, t, u) \/ Below(T, u, t) THEN T ELSE Linked(T, t, u)
Acyclic(T, t, u) == Below(T, t, u) \/ ~Below(T, u, t)

\* ... of a union: component by component, until one is refused; the others are in the
\* table here, but a refusal fails the file.
AddSupertypes(T, t, B) ==
  LET us == SetToSeq(Components(B))
      table[i \in 0..Len(us)] == IF i = 0 THEN T ELSE AddSupertype(table[i - 1], t, us[i])
  IN  table[Len(us)]
AllAcyclic(T, t, B) == \A u \in Components(B) : Acyclic(T, t, u)
=============================================================================

-------------------------------- MODULE Pddl --------------------------------
(***************************************************************************)
(* A PPDDL problem as both parsers hand it on: formulas, expressions and   *)
(* effects are records tagged by op, an atom or an application is the      *)
(* sequence of its symbol and its terms, a probability or a value is a     *)
(* Rational, a list of outcomes is a sequence of records [p, e].           *)
(*                                                                         *)
(* A problem p is a record: types and typeof (of its terms), constants and *)
(* objects, variables, predicates (the types of their parameters), static  *)
(* (the symbols no effect changes), init (the initial atoms), values (of   *)
(* applications), initEffects, schemas, goal and goalReward.               *)
(***************************************************************************)
EXTENDS Rational, Types, Sequences, SequencesExt

Gather(Op(_), s) == FlattenSeq([i \in 1..Len(s) |-> Op(s[i])])
Each(Op(_), s)   == [i \in 1..Len(s) |-> Op(s[i])]

-----------------------------------------------------------------------------
(* Formulas *)

True          == [op |-> "true"]
False         == [op |-> "false"]
Atom(a)       == [op |-> "atom", atom |-> a]
Equal(t, u)   == [op |-> "eq", terms |-> <<t, u>>]
Cmp(r, d, e)  == [op |-> "cmp", rel |-> r, args |-> <<d, e>>]
Not(f)        == [op |-> "not", arg |-> f]
And(fs)       == [op |-> "and", args |-> fs]
Or(fs)        == [op |-> "or", args |-> fs]
Imply(f, g)   == [op |-> "imply", args |-> <<f, g>>]
Exists(vs, f) == [op |-> "exists", vars |-> vs, arg |-> f]
Forall(vs, f) == [op |-> "forall", vars |-> vs, arg |-> f]

(* Expressions *)

Value(q)        == [op |-> "value", value |-> q]
Fluent(a)       == [op |-> "fluent", app |-> a]
Arith(o, d, e)  == [op |-> o, args |-> <<d, e>>]

(* Effects *)

Add(a)            == [op |-> "add", atom |-> a]
Delete(a)         == [op |-> "delete", atom |-> a]
Assign(o, a, e)   == [op |-> "update", by |-> o, app |-> a, expr |-> e]
When(f, e)        == [op |-> "when", cond |-> f, effect |-> e]
AndEffect(es)     == [op |-> "and", args |-> es]
ProbEffect(os)    == [op |-> "prob", outcomes |-> os]
ForallEffect(vs, e) == [op |-> "forall", vars |-> vs, effect |-> e]

-----------------------------------------------------------------------------
(* What both programs do alike *)

Zero == <<0, 1>>
One  == <<1, 1>>
Total(outcomes) == FoldLeft(LAMBDA n, o : Plus(n, o.p), Zero, outcomes)
Scaled(q, outcomes) == Each(LAMBDA o : [o EXCEPT !.p = Prod(q, @)], outcomes)

\* The objects of a type: the domain's constants, then the problem's objects.
CompatibleConstants(p, type) ==
  SelectSeq(p.constants, LAMBDA o : Subtype(p.types, p.typeof[o], type))
CompatibleObjects(p, type) ==
  CompatibleConstants(p, type)
    \o SelectSeq(p.objects, LAMBDA o : Subtype(p.types, p.typeof[o], type))

Parts(op, f) == IF f.op = op THEN f.args ELSE <<f>>

\* A substitution is a function from variables to objects.
Image(t, subst)        == IF t \in DOMAIN subst THEN subst[t] ELSE t
Substituted(a, subst)  == <<a[1]>> \o Each(LAMBDA t : Image(t, subst), Tail(a))
Touched(a, subst)      == ToSet(Tail(a)) \cap DOMAIN subst # {}
Ground(p, a)           == ToSet(Tail(a)) \cap p.variables = {}

\* make_equality: two terms may be equal when one's type is a subtype of the other's.
Comparable(p, t, u) ==
  Subtype(p.types, p.typeof[t], p.typeof[u]) \/ Subtype(p.types, p.typeof[u], p.typeof[t])

\* Expression::value
Calculate(o, q, r) == CASE o = "+" -> Plus(q, r)  [] o = "-" -> Minus(q, r)
                        [] o = "*" -> Prod(q, r)  [] o = "/" -> Quot(q, r)
RECURSIVE ValueOf(_, _)
ValueOf(e, values) ==
  CASE e.op = "value"  -> e.value
    [] e.op = "fluent" -> values[e.app]
    [] OTHER -> Calculate(e.op, ValueOf(e.args[1], values), ValueOf(e.args[2], values))

Compare(rel, q, r) == CASE rel = "<" -> Lt(q, r)  [] rel = "<=" -> Le(q, r)
                        [] rel = "=" -> Eq(q, r)  [] rel = ">=" -> Ge(q, r)
                        [] rel = ">" -> Gt(q, r)

\* Update::affect: any change but an assignment needs a value to change.
Changed(by, old, q) ==
  CASE by = "assign"     -> q
    [] by = "scale-up"   -> Prod(old, q)
    [] by = "scale-down" -> Quot(old, q)
    [] by = "increase"   -> Plus(old, q)
    [] by = "decrease"   -> Minus(old, q)
Updated(u, values) ==
  (u.app :> Changed(u.by, values[u.app], ValueOf(u.expr, values))) @@ values

\* add_outcome: the outcomes of an outcome are taken over, one of probability 0 is not.
WithOutcome(outcomes, q, e) ==
  CASE e.op = "prob"            -> outcomes \o SelectSeq(Scaled(q, e.outcomes), LAMBDA o : o.p # Zero)
    [] e.op # "prob" /\ q = Zero -> outcomes
    [] OTHER                    -> Append(outcomes, [p |-> q, e |-> e])
MakeProb(os) == ProbEffect(FoldLeft(LAMBDA list, o : WithOutcome(list, o.p, o.e), <<>>, os))

\* ConjunctiveEffect::add_conjunct: the conjuncts of a conjunct are taken over.
Conjuncts(e)      == IF e.op = "and" THEN e.args ELSE <<e>>
MakeAndEffect(es) == AndEffect(Gather(Conjuncts, es))

\* The places a quantifier's or an action's parameters take, in the order of the code:
\* the last parameter changes first.
Assignments(p, vars) ==
  FoldLeft(LAMBDA as, v : Gather(LAMBDA a : Each(LAMBDA o : a @@ (v :> o),
                                                 CompatibleObjects(p, p.typeof[v])), as),
           << <<>> >>, vars)

\* The results of instantiating an item for one parameter after the other.
Instances(Inst(_, _), p, item, vars) ==
  FoldLeft(LAMBDA items, v :
             Gather(LAMBDA i : Each(LAMBDA o : Inst(i, v :> o), CompatibleObjects(p, p.typeof[v])),
                    items),
           <<item>>, vars)
HasEmptyType(p, vars) == \E v \in ToSet(vars) : CompatibleObjects(p, p.typeof[v]) = <<>>
=============================================================================

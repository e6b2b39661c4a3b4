------------------------------- MODULE Planner ------------------------------
(***************************************************************************)
(* What a problem means to mini-gpt's planners: formulas and effects are   *)
(* grounded (formulas.cc, expressions.cc, effects.cc and actions.cc), then *)
(* problem_t::flatten turns every action into lists of atoms, and only     *)
(* these lists are used to plan with.  A state is the set of its atoms;    *)
(* numeric values are read, and used where they are static, but not kept.  *)
(***************************************************************************)
EXTENDS Pddl

-----------------------------------------------------------------------------
(* The formula rules of parser.y, and what they build. *)

IsConstant(f) == f \in {True, False}
MakeNot(f) == CASE f = True -> False  [] f = False -> True  [] OTHER -> Not(f)

\* add_conjunct and add_disjunct leave out only the neutral constant.
Conjunction(fs) == And(SelectSeq(fs, LAMBDA f : f # True))
Disjunction(fs) == Or(SelectSeq(fs, LAMBDA f : f # False))

RECURSIVE Read(_, _)
Read(p, f) ==
  CASE f.op = "eq"    -> IF Comparable(p, f.terms[1], f.terms[2]) THEN f ELSE False
    [] f.op = "not"   -> MakeNot(Read(p, f.arg))
    [] f.op = "and"   -> Conjunction(Each(LAMBDA g : Read(p, g), f.args))
    [] f.op = "or"    -> Disjunction(Each(LAMBDA g : Read(p, g), f.args))
    [] f.op = "imply" -> Disjunction(<<MakeNot(Read(p, f.args[1])), Read(p, f.args[2])>>)
    [] f.op \in {"exists", "forall"} ->
         IF f.vars = <<>> THEN Read(p, f.arg) ELSE [f EXCEPT !.arg = Read(p, @)]
    [] OTHER -> f

-----------------------------------------------------------------------------
(* Expressions and formulas, grounded. *)

\* Application::instantiation: one in which nothing is substituted stays as it is.
InstFluent(p, e, subst) ==
  LET app == Substituted(e.app, subst)
  IN  IF Touched(e.app, subst) /\ Ground(p, app) /\ e.app[1] \in p.static
        THEN Value(p.values[app]) ELSE Fluent(app)
MakeArith(op, d, g) ==
  IF d.op = "value" /\ g.op = "value" THEN Value(Calculate(op, d.value, g.value)) ELSE Arith(op, d, g)
RECURSIVE InstExpr(_, _, _)
InstExpr(p, e, subst) ==
  CASE e.op = "value"  -> e
    [] e.op = "fluent" -> InstFluent(p, e, subst)
    [] OTHER -> MakeArith(e.op, InstExpr(p, e.args[1], subst), InstExpr(p, e.args[2], subst))

\* Atom::instantiation: a ground static atom is as it is at the start, for good.
InstAtom(p, f, subst) ==
  LET a == Substituted(f.atom, subst)
  IN  CASE a[1] \notin p.static \/ ~Ground(p, a) -> Atom(a)
        [] a[1] \in p.static /\ Ground(p, a)     -> IF a \in p.init THEN True ELSE False

\* Equality::instantiation: only two objects are compared.
InstEqual(p, f, subst) ==
  LET t == Image(f.terms[1], subst)
      u == Image(f.terms[2], subst)
  IN  CASE {t, u} \cap p.variables # {} -> Equal(t, u)
        [] {t, u} \cap p.variables = {} -> IF t = u THEN True ELSE False

\* Comparison::instantiation
MakeCmp(rel, d, e) ==
  CASE d.op # "value" \/ e.op # "value" -> Cmp(rel, d, e)
    [] d.op = "value" /\ e.op = "value" -> IF Compare(rel, d.value, e.value) THEN True ELSE False
InstCmp(p, f, subst) ==
  MakeCmp(f.rel, InstExpr(p, f.args[1], subst), InstExpr(p, f.args[2], subst))

\* A junction of the parts: one part decides it, what is neutral is left out, and what is
\* left alone stands for itself.
Junction(op, parts, decides, neutral, none) ==
  LET rest == SelectSeq(parts, LAMBDA g : g # neutral)
  IN  CASE decides \in ToSet(parts) -> decides
        [] rest = <<>> -> none
        [] Len(rest) = 1 -> rest[1]
        [] OTHER -> [op |-> op, args |-> rest]

RECURSIVE Inst(_, _, _)

\* Conjunction::instantiation and Disjunction::instantiation
InstAnd(p, f, subst) == Junction("and", Each(LAMBDA g : Inst(p, g, subst), f.args), False, True, True)
InstOr(p, f, subst)  == Junction("or", Each(LAMBDA g : Inst(p, g, subst), f.args), True, False, False)

\* Exists::instantiation and Forall::instantiation.  Unlike the two above they leave a
\* disjunction, or a conjunction, of nothing when no part is left.
Bodies(p, f, subst) == Instances(LAMBDA g, s : Inst(p, g, s), p, Inst(p, f.arg, subst), f.vars)
InstExists(p, f, subst) ==
  IF HasEmptyType(p, f.vars) THEN False
  ELSE Junction("or", Bodies(p, f, subst), True, False, Or(<<>>))
InstForall(p, f, subst) ==
  IF HasEmptyType(p, f.vars) THEN True
  ELSE Junction("and", Bodies(p, f, subst), False, True, And(<<>>))

\* StateFormula::instantiation
Inst(p, f, subst) ==
  CASE f.op \in {"true", "false"} -> f
    [] f.op = "atom"   -> InstAtom(p, f, subst)
    [] f.op = "eq"     -> InstEqual(p, f, subst)
    [] f.op = "cmp"    -> InstCmp(p, f, subst)
    [] f.op = "not"    -> MakeNot(Inst(p, f.arg, subst))
    [] f.op = "and"    -> InstAnd(p, f, subst)
    [] f.op = "or"     -> InstOr(p, f, subst)
    [] f.op = "exists" -> InstExists(p, f, subst)
    [] f.op = "forall" -> InstForall(p, f, subst)

-----------------------------------------------------------------------------
(* The disjunctive form formulas are flattened to, and their lists. *)

Kind(op, fs)     == SelectSeq(fs, LAMBDA f : f.op = op)
Literals(fs)     == SelectSeq(fs, LAMBDA f : f.op \notin {"and", "or"})
Args(fs)         == Gather(LAMBDA f : f.args, fs)

\* Conjunction::cross_products: one disjunct of each disjunction, in every combination.
CrossProducts(disjunctions) ==
  FoldLeft(LAMBDA xs, d : Gather(LAMBDA x : Each(LAMBDA f : x \o Parts("and", f), d.args), xs),
           << <<>> >>, disjunctions)

\* What flatten makes of flat arguments that are all required, and of such that are
\* alternatives.
Distributed(fs) ==
  LET conjunction == Args(Kind("and", fs)) \o Literals(fs)
  IN  IF Kind("or", fs) = <<>> THEN Conjunction(conjunction)
      ELSE Disjunction(Each(LAMBDA x : Conjunction(conjunction \o x), CrossProducts(Kind("or", fs))))
Collected(fs) == Disjunction(Args(Kind("or", fs)) \o Kind("and", fs) \o Literals(fs))

\* Mutant: a negated conjunction is flattened like a conjunction.
RECURSIVE FlattenForgetsNegation(_, _)
FlattenForgetsNegation(f, negated) ==
  CASE f.op \in {"true", "false"} -> f
    [] f.op = "atom" -> IF negated THEN Not(f) ELSE f
    [] f.op = "not"  -> FlattenForgetsNegation(f.arg, ~negated)
    [] f.op = "and" /\ f.args = <<>> -> False
    [] f.op = "or"  /\ f.args = <<>> -> True
    [] f.op \in {"and", "or"} /\ Len(f.args) = 1 -> FlattenForgetsNegation(f.args[1], negated)
    [] OTHER -> LET fs == Each(LAMBDA g : FlattenForgetsNegation(g, negated), f.args)
                IN  IF f.op = "and" THEN Distributed(fs) ELSE Collected(fs)

\* Atom::flatten
FlattenAtom(f, negated) == IF negated THEN Not(f) ELSE f

\* StateFormula::flatten( negated ): a constant stays what it is, a conjunction of nothing
\* is FALSE and a disjunction of nothing TRUE, negated or not.
RECURSIVE Flatten(_, _)
Flatten(f, negated) ==
  CASE f.op \in {"true", "false"} -> f
    [] f.op = "atom" -> FlattenAtom(f, negated)
    [] f.op = "not"  -> Flatten(f.arg, ~negated)
    [] f.op = "and" /\ f.args = <<>> -> False
    [] f.op = "or"  /\ f.args = <<>> -> True
    [] f.op \in {"and", "or"} /\ Len(f.args) = 1 -> Flatten(f.args[1], negated)
    [] OTHER -> LET fs == Each(LAMBDA g : Flatten(g, negated), f.args)
                IN  IF (f.op = "and") = negated THEN Collected(fs) ELSE Distributed(fs)

\* An equality with a variable, a comparison or a quantifier that is left is refused.
RECURSIVE Flattens(_)
Flattens(f) ==
  CASE f.op \in {"true", "false", "atom"} -> TRUE
    [] f.op = "not" -> Flattens(f.arg)
    [] f.op \in {"and", "or"} -> \A i \in DOMAIN f.args : Flattens(f.args[i])
    [] OTHER -> FALSE

\* translate( atomList_t ): the negated atoms are the odd numbers; no constant leaves a
\* trace.  Only an atom may be negated, and there may be no disjunction.
Literal(a, negated) == [atom |-> a, negated |-> negated]
RECURSIVE AtomList(_)
AtomList(f) ==
  CASE f.op \in {"true", "false"} -> {}
    [] f.op = "atom" -> {Literal(f.atom, FALSE)}
    [] f.op = "not"  -> {Literal(f.arg.atom, TRUE)}
    [] f.op = "and"  -> UNION {AtomList(f.args[i]) : i \in DOMAIN f.args}
RECURSIVE HasAtomList(_)
HasAtomList(f) ==
  CASE f.op \in {"true", "false", "atom"} -> TRUE
    [] f.op = "not" -> f.arg.op = "atom"
    [] f.op = "and" -> \A i \in DOMAIN f.args : HasAtomList(f.args[i])
    [] OTHER -> FALSE

\* translate( atomListList_t ): the alternatives.
AtomLists(f) == IF f.op = "or" THEN Each(AtomList, f.args) ELSE <<AtomList(f)>>
HasAtomLists(f) ==
  HasAtomList(f) \/ (f.op = "or" /\ \A i \in DOMAIN f.args : HasAtomList(f.args[i]))

\* atomList_t::holds and atomListList_t::holds
ListHolds(list, s)  == \A l \in list : (l.atom \in s) # l.negated
ListsHold(lists, s) == \E i \in DOMAIN lists : ListHolds(lists[i], s)

-----------------------------------------------------------------------------
(* Effects, grounded and flattened: their outcomes are pulled to the top. *)

\* ConditionalEffect::make
MakeWhen(f, e) == CASE f = True -> e  [] f = False -> AndEffect(<<>>)  [] OTHER -> When(f, e)

\* The effect rules of parser.y.
RECURSIVE ReadEffect(_, _)
ReadEffect(p, e) ==
  CASE e.op \in {"add", "delete", "update"} -> e
    [] e.op = "and"    -> MakeAndEffect(Each(LAMBDA d : ReadEffect(p, d), e.args))
    [] e.op = "when"   -> MakeWhen(Read(p, e.cond), ReadEffect(p, e.effect))
    [] e.op = "prob"   -> MakeProb(Each(LAMBDA o : [o EXCEPT !.e = ReadEffect(p, @)], e.outcomes))
    [] e.op = "forall" -> [e EXCEPT !.effect = ReadEffect(p, @)]

\* Effect::instantiation
RECURSIVE InstEffect(_, _, _)
InstLiteral(e, subst)   == [e EXCEPT !.atom = Substituted(@, subst)]
InstUpdate(p, e, subst) == [e EXCEPT !.app = Substituted(@, subst), !.expr = InstExpr(p, @, subst)]
InstWhen(p, e, subst)   == MakeWhen(Inst(p, e.cond, subst), InstEffect(p, e.effect, subst))
InstProb(p, e, subst)   ==
  MakeProb(Each(LAMBDA o : [o EXCEPT !.e = InstEffect(p, @, subst)], e.outcomes))
InstForallEffect(p, e, subst) ==
  CASE e.vars = <<>> -> InstEffect(p, e.effect, subst)
    [] HasEmptyType(p, e.vars) -> AndEffect(<<>>)
    [] OTHER -> MakeAndEffect(Instances(LAMBDA d, s : InstEffect(p, d, s), p,
                                        InstEffect(p, e.effect, subst), e.vars))
InstEffect(p, e, subst) ==
  CASE e.op \in {"add", "delete"} -> InstLiteral(e, subst)
    [] e.op = "update" -> InstUpdate(p, e, subst)
    [] e.op = "and"    -> MakeAndEffect(Each(LAMBDA d : InstEffect(p, d, subst), e.args))
    [] e.op = "when"   -> InstWhen(p, e, subst)
    [] e.op = "prob"   -> InstProb(p, e, subst)
    [] e.op = "forall" -> InstForallEffect(p, e, subst)

AsOutcomes(e) == IF e.op = "prob" THEN e.outcomes ELSE <<[p |-> One, e |-> e]>>

\* Mutant: what is left of the probability of the first effect is forgotten.
CrossProductNoRest(xs, ys) ==
  IF xs = <<>> THEN ys
  ELSE Gather(LAMBDA x : Each(LAMBDA y : [p |-> Prod(x.p, y.p), e |-> MakeAndEffect(<<x.e, y.e>>)],
                              ys), xs)

\* ProbabilisticEffect::cross_product: both effects, or one of them and nothing of the
\* other, whose probabilities do not add up to 1.
Rest(zs) == Minus(One, Total(zs))
CrossProduct(xs, ys) ==
  LET both == Gather(LAMBDA x : Each(LAMBDA y : [p |-> Prod(x.p, y.p),
                                                 e |-> MakeAndEffect(<<x.e, y.e>>)], ys), xs)
  IN  MakeProb(both \o Scaled(Rest(xs), ys)
                    \o Scaled(IF xs = <<>> THEN One ELSE Rest(ys), xs)).outcomes

RECURSIVE FlattenEffect(_)

\* ConjunctiveEffect::flatten: if one outcome is left it is taken, whatever its probability.
OneOrMore(outcomes) == IF Len(outcomes) > 1 THEN ProbEffect(outcomes) ELSE outcomes[1].e
FlattenAnd(e) ==
  IF e.args = <<>> THEN e
  ELSE OneOrMore(FoldLeft(LAMBDA xs, arg : CrossProduct(xs, AsOutcomes(FlattenEffect(arg))), <<>>, e.args))

\* ConditionalEffect::flatten: the condition goes to every outcome, and two become one.
WhenFlat(cond, f) ==
  CASE f.op = "prob" ->
         MakeProb(Each(LAMBDA o : [o EXCEPT !.e = FlattenEffect(MakeWhen(cond, @))], f.outcomes))
    [] f.op = "when" -> MakeWhen(Conjunction(<<cond, f.cond>>), f.effect)
    [] OTHER         -> MakeWhen(cond, f)
FlattenWhen(e) == WhenFlat(e.cond, FlattenEffect(e.effect))

\* ProbabilisticEffect::flatten
Certain(e) == IF Len(e.outcomes) = 1 /\ e.outcomes[1].p = One THEN e.outcomes[1].e ELSE e
FlattenProb(e) == Certain(MakeProb(Each(LAMBDA o : [o EXCEPT !.e = FlattenEffect(@)], e.outcomes)))

\* Effect::flatten; nothing is left of a change of a value (NO_STRICT).
FlattenEffect(e) ==
  CASE e.op \in {"add", "delete"} -> e
    [] e.op = "update" -> AndEffect(<<>>)
    [] e.op = "and"    -> FlattenAnd(e)
    [] e.op = "when"   -> FlattenWhen(e)
    [] e.op = "prob"   -> FlattenProb(e)

-----------------------------------------------------------------------------
(* The lists effects are translated to. *)

NoEffect == [adds |-> {}, deletes |-> {}, conds |-> <<>>]

\* Effect::translate( s_effect, c_effect ), both in t; equal conditional effects are one.
WithCond(t, cond) == [t EXCEPT !.conds = IF cond \in ToSet(@) THEN @ ELSE Append(@, cond)]
RECURSIVE TranslateInto(_, _)
TranslateInto(e, t) ==
  CASE e.op = "add"    -> [t EXCEPT !.adds = @ \cup {e.atom}]
    [] e.op = "delete" -> [t EXCEPT !.deletes = @ \cup {e.atom}]
    [] e.op = "and"    -> FoldLeft(LAMBDA u, arg : TranslateInto(arg, u), t, e.args)
    [] e.op = "when"   ->
         LET inner == TranslateInto(e.effect, NoEffect)
         IN  WithCond(t, [prec |-> AtomLists(e.cond), adds |-> inner.adds, deletes |-> inner.deletes])

\* A condition is translated without being flattened, and ConditionalEffect::translate
\* throws when it is already working: a conditional effect may not hold another.
RECURSIVE Unconditional(_)
Unconditional(e) ==
  e.op # "when" /\ (e.op = "and" => \A i \in DOMAIN e.args : Unconditional(e.args[i]))
RECURSIVE Translates(_)
Translates(e) ==
  /\ e.op = "and"  => \A i \in DOMAIN e.args : Translates(e.args[i])
  /\ e.op = "prob" => \A i \in DOMAIN e.outcomes : Translates(e.outcomes[i].e)
  /\ e.op = "when" => HasAtomLists(e.cond) /\ Unconditional(e.effect)

\* probabilisticEffectList_t::insert: equal effects become one.
Insert(list, o) ==
  LET Same(q) == [q.e EXCEPT !.conds = ToSet(@)] = [o.e EXCEPT !.conds = ToSet(@)]
  IN  IF \E i \in DOMAIN list : Same(list[i])
        THEN Each(LAMBDA q : IF Same(q) THEN [q EXCEPT !.p = Plus(@, o.p)] ELSE q, list)
        ELSE Append(list, o)

\* ProbabilisticEffect::translate: what is missing to 1 is an outcome without effects.
Nothing(p) == IF p = Zero THEN <<>> ELSE <<[p |-> p, e |-> NoEffect]>>
Translate(e) ==
  FoldLeft(Insert, <<>>,
           Each(LAMBDA o : [p |-> o.p, e |-> TranslateInto(o.e, NoEffect)], AsOutcomes(e))
             \o Nothing(Rest(AsOutcomes(e))))

-----------------------------------------------------------------------------
(* Actions and the problem *)

\* ActionSchema::instantiations: as in the simulator, but a branch whose precondition is
\* already FALSE is not followed to the last parameter, which leaves out the same actions.
Preconditions(p, schema) ==
  IF schema.vars = <<>> THEN <<Inst(p, Read(p, schema.prec), <<>>)>>
  ELSE Instances(LAMBDA f, s : Inst(p, f, s), p, Read(p, schema.prec), schema.vars)
Instantiated(p, schema, substs, preconds) ==
  {[name |-> <<schema.name>> \o Each(LAMBDA v : substs[i][v], schema.vars),
    prec |-> preconds[i],
    effect |-> InstEffect(p, ReadEffect(p, schema.effect), substs[i])] :
     i \in {j \in DOMAIN substs : preconds[j] # False}}
Instantiations(p, schema) ==
  Instantiated(p, schema, Assignments(p, schema.vars), Preconditions(p, schema))
Actions(p) == UNION {Instantiations(p, p.schemas[i]) : i \in DOMAIN p.schemas}

\* problem_t::instantiate_actions: the goal is grounded too.
Goal(p) == Inst(p, Read(p, p.goal), <<>>)

\* Action::flatten and Action::translate, of all actions; the program ends with an
\* exception when one of them, or the goal, does not translate.
Accepted(p) ==
  /\ Flattens(Goal(p))
  /\ \A a \in Actions(p) : Flattens(a.prec) /\ Translates(FlattenEffect(a.effect))
ActionT(a)  == [name |-> a.name, prec |-> AtomLists(Flatten(a.prec, FALSE)),
                effect |-> Translate(FlattenEffect(a.effect))]
ActionsT(p) == {ActionT(a) : a \in Actions(p)}

GoalT(p)    == AtomLists(Flatten(Goal(p), FALSE))

\* stripsEffect_t::affect: it adds, and deletes.
StripsAffect(e, s) == (s \cup e.adds) \ e.deletes

\* deterministicEffect_t::affect: the conditions are seen as they come.
EffectAffect(e, s) ==
  FoldLeft(LAMBDA u, c : IF ListsHold(c.prec, u) THEN StripsAffect(c, u) ELSE u,
           StripsAffect(e, s), e.conds)

\* action_t::expand
Expand(outcomes, s) == Each(LAMBDA o : [p |-> o.p, state |-> EffectAffect(o.e, s)], outcomes)

\* ProbabilisticEffect::expand of an initial effect: equal states become one.
InsertState(list, o) ==
  IF \E i \in DOMAIN list : list[i].state = o.state
    THEN Each(LAMBDA q : IF q.state = o.state THEN [q EXCEPT !.p = Plus(@, o.p)] ELSE q, list)
    ELSE Append(list, o)

RECURSIVE ExpandInit(_, _)

ExpandAdd(list, e) == Each(LAMBDA o : [o EXCEPT !.state = @ \cup {e.atom}], list)
ExpandAnd(list, e) == FoldLeft(ExpandInit, list, e.args)

\* Mutant: an uncertain initial effect always happens.
ExpandProbNoRest(list, e) ==
  FoldLeft(InsertState, <<>>, Gather(LAMBDA q : Scaled(q.p, ExpandInit(list, q.e)), e.outcomes))

ExpandProb(list, e) ==
  FoldLeft(InsertState, <<>>,
           Gather(LAMBDA q : Scaled(q.p, ExpandInit(list, q.e)), e.outcomes)
             \o SelectSeq(Scaled(Rest(e.outcomes), list), LAMBDA o : o.p # Zero))

\* Effect::expand, of initial effects: a change of a value leaves no trace (NO_STRICT).
ExpandInit(list, e) ==
  CASE e.op = "add"    -> ExpandAdd(list, e)
    [] e.op = "update" -> list
    [] e.op = "and"    -> ExpandAnd(list, e)
    [] e.op = "prob"   -> ExpandProb(list, e)

\* problem_t::initial_states: what is static is left out.
InitialStates(p) ==
  FoldLeft(LAMBDA list, e : ExpandInit(list, ReadEffect(p, e)),
           <<[p |-> One, state |-> {a \in p.init : a[1] \notin p.static}]>>, p.initEffects)
=============================================================================

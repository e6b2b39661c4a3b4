------------------------------ MODULE Simulator ------------------------------
(***************************************************************************)
(* What a problem means to the simulator mdpsim: how it builds, grounds    *)
(* and evaluates formulas, expressions and effects (formulas.cc,           *)
(* expressions.cc and effects.cc), and how its states change (actions.cc,  *)
(* problems.cc and states.cc).  A state is a record of its atoms, of its   *)
(* values, and of whether it is a goal.                                    *)
(*                                                                         *)
(* The atoms of the code are shared, so that pointers to equal atoms are   *)
(* equal; here all equal formulas count as the same.                       *)
(***************************************************************************)
EXTENDS Pddl

-----------------------------------------------------------------------------
(* Constructors, which simplify what they build. *)

IsConstant(f) == f \in {True, False}

\* Comparison::make of the five comparisons, and make of the four computations.
MakeCmp(rel, d, e) ==
  IF d.op = "value" /\ e.op = "value"
    THEN IF Compare(rel, d.value, e.value) THEN True ELSE False
    ELSE Cmp(rel, d, e)
MakeArith(o, d, e) ==
  IF d.op = "value" /\ e.op = "value" THEN Value(Calculate(o, d.value, e.value))
  ELSE Arith(o, d, e)

\* Equality::make; two different objects are never equal.
MakeEqual(p, t, u) ==
  CASE t = u -> True
    [] t # u /\ {t, u} \cap p.variables = {} -> False
    [] OTHER -> Equal(t, u)

MakeNot(f) == CASE f = True -> False  [] f = False -> True  [] OTHER -> Not(f)

\* operator&& and operator||
MakeAnd(f, g) ==
  CASE f = g \/ f = False \/ g = True -> f
    [] g = False \/ f = True          -> g
    [] OTHER -> And(Parts("and", f) \o Parts("and", g))
MakeOr(f, g) ==
  CASE f = g \/ f = True \/ g = False -> f
    [] g = True \/ f = False          -> g
    [] OTHER -> Or(Parts("or", f) \o Parts("or", g))

MakeQuantified(op, vars, f) ==
  IF vars = <<>> \/ IsConstant(f) THEN f ELSE [op |-> op, vars |-> vars, arg |-> f]

\* The formula rules of parser.yy.
RECURSIVE Read(_, _)
Read(p, f) ==
  CASE f.op = "eq"  -> IF Comparable(p, f.terms[1], f.terms[2])
                         THEN MakeEqual(p, f.terms[1], f.terms[2]) ELSE False
    [] f.op = "cmp" -> MakeCmp(f.rel, f.args[1], f.args[2])
    [] f.op = "not" -> MakeNot(Read(p, f.arg))
    [] f.op = "and" -> FoldLeft(LAMBDA g, h : MakeAnd(g, Read(p, h)), True, f.args)
    [] f.op = "or"  -> FoldLeft(LAMBDA g, h : MakeOr(g, Read(p, h)), False, f.args)
    [] f.op = "imply" -> MakeOr(MakeNot(Read(p, f.args[1])), Read(p, f.args[2]))
    [] f.op \in {"exists", "forall"} -> MakeQuantified(f.op, f.vars, Read(p, f.arg))
    [] OTHER -> f

-----------------------------------------------------------------------------
(* Expressions and formulas, grounded.  With the flag eval an atom is      *)
(* evaluated in the given atoms even when it is not static.                *)

\* Fluent::instantiation: a static one becomes its value, but not one that was ground.
InstFluent(p, e, subst) ==
  LET app == Substituted(e.app, subst)
  IN  IF /\ e.app[1] \in p.static
         /\ Len(app) = 1 \/ (Touched(e.app, subst) /\ Ground(p, app))
        THEN Value(p.values[app])
        ELSE Fluent(app)
RECURSIVE InstExpr(_, _, _)
InstExpr(p, e, subst) ==
  CASE e.op = "value"  -> e
    [] e.op = "fluent" -> InstFluent(p, e, subst)
    [] OTHER -> MakeArith(e.op, InstExpr(p, e.args[1], subst), InstExpr(p, e.args[2], subst))

\* Atom::instantiation: likewise; an atom of objects in which nothing was substituted
\* stays as it is, even when the flag asks for its value.
InstAtom(p, f, subst, atoms, eval) ==
  LET a == Substituted(f.atom, subst)
  IN  IF /\ eval \/ f.atom[1] \in p.static
         /\ Len(a) = 1 \/ (Touched(f.atom, subst) /\ Ground(p, a))
        THEN IF a \in atoms THEN True ELSE False
        ELSE Atom(a)

InstEqual(p, f, subst) == MakeEqual(p, Image(f.terms[1], subst), Image(f.terms[2], subst))

InstCmp(p, f, subst) ==
  MakeCmp(f.rel, InstExpr(p, f.args[1], subst), InstExpr(p, f.args[2], subst))

RECURSIVE Inst(_, _, _, _, _)

InstAnd(p, f, subst, atoms, eval) ==
  FoldLeft(LAMBDA g, h : MakeAnd(g, Inst(p, h, subst, atoms, eval)), True, f.args)
InstOr(p, f, subst, atoms, eval) ==
  FoldLeft(LAMBDA g, h : MakeOr(g, Inst(p, h, subst, atoms, eval)), False, f.args)

\* What is left of a quantifier's body, once for every choice of objects.
InstBody(p, f, subst, atoms, eval) ==
  Instances(LAMBDA g, s : Inst(p, g, s, atoms, eval), p, Inst(p, f.arg, subst, atoms, eval), f.vars)
InstExists(p, f, subst, atoms, eval) ==
  IF HasEmptyType(p, f.vars) THEN False
  ELSE FoldLeft(MakeOr, False, InstBody(p, f, subst, atoms, eval))
InstForall(p, f, subst, atoms, eval) ==
  IF HasEmptyType(p, f.vars) THEN True
  ELSE FoldLeft(MakeAnd, True, InstBody(p, f, subst, atoms, eval))

\* StateFormula::instantiation
Inst(p, f, subst, atoms, eval) ==
  CASE f.op \in {"true", "false"} -> f
    [] f.op = "atom"   -> InstAtom(p, f, subst, atoms, eval)
    [] f.op = "eq"     -> InstEqual(p, f, subst)
    [] f.op = "cmp"    -> InstCmp(p, f, subst)
    [] f.op = "not"    -> MakeNot(Inst(p, f.arg, subst, atoms, eval))
    [] f.op = "and"    -> InstAnd(p, f, subst, atoms, eval)
    [] f.op = "or"     -> InstOr(p, f, subst, atoms, eval)
    [] f.op = "exists" -> InstExists(p, f, subst, atoms, eval)
    [] f.op = "forall" -> InstForall(p, f, subst, atoms, eval)

\* StateFormula::holds: a quantified formula holds if it is instantiated to TRUE.
RECURSIVE Holds(_, _, _)
Holds(p, f, s) ==
  CASE f.op \in {"true", "false"} -> f = True
    [] f.op = "atom" -> f.atom \in s.atoms
    [] f.op = "cmp"  -> Compare(f.rel, ValueOf(f.args[1], s.values), ValueOf(f.args[2], s.values))
    [] f.op = "not"  -> ~Holds(p, f.arg, s)
    [] f.op = "and"  -> \A i \in DOMAIN f.args : Holds(p, f.args[i], s)
    [] f.op = "or"   -> \E i \in DOMAIN f.args : Holds(p, f.args[i], s)
    [] f.op \in {"exists", "forall"} -> Inst(p, f, <<>>, s.atoms, TRUE) = True

-----------------------------------------------------------------------------
(* Effects *)

Empty == AndEffect(<<>>)

\* Effect's operator&&
MakeBoth(e, f) ==
  CASE e = Empty                -> f
    [] e # Empty /\ f = Empty   -> e
    [] OTHER                    -> MakeAndEffect(<<e, f>>)

\* UpdateEffect::make: scaling by 1 and adding 0 are no effects.
MakeUpdate(u) ==
  IF \/ u.by \in {"scale-up", "scale-down"} /\ u.expr = Value(One)
     \/ u.by \in {"increase", "decrease"} /\ u.expr = Value(Zero)
    THEN Empty ELSE u

\* ConditionalEffect::make
MakeWhen(f, e) ==
  CASE f = True -> e
    [] f # True /\ (f = False \/ e = Empty) -> Empty
    [] OTHER -> When(f, e)

\* ProbabilisticEffect::make: the outcomes before the first that does something are left out.
MakeOutcomes(os) ==
  LET counts == {i \in DOMAIN os : os[i].p # Zero /\ os[i].e # Empty}
  IN  IF counts = {} THEN Empty ELSE MakeProb(SubSeq(os, Min(counts), Len(os)))

MakeForallEffect(vars, e) == IF vars = <<>> \/ e = Empty THEN e ELSE ForallEffect(vars, e)

\* The effect rules of parser.yy.
RECURSIVE ReadEffect(_, _)
ReadEffect(p, e) ==
  CASE e.op \in {"add", "delete"} -> e
    [] e.op = "update" -> MakeUpdate(e)
    [] e.op = "and"    -> FoldLeft(LAMBDA d, arg : MakeBoth(d, ReadEffect(p, arg)), Empty, e.args)
    [] e.op = "when"   -> MakeWhen(Read(p, e.cond), ReadEffect(p, e.effect))
    [] e.op = "prob"   -> MakeOutcomes(Each(LAMBDA o : [o EXCEPT !.e = ReadEffect(p, o.e)], e.outcomes))
    [] e.op = "forall" -> MakeForallEffect(e.vars, ReadEffect(p, e.effect))

InstUpdate(p, e, subst) ==
  [e EXCEPT !.app = Substituted(@, subst), !.expr = InstExpr(p, @, subst)]

RECURSIVE InstEffect(_, _, _)

InstOutcomes(p, e, subst) ==
  MakeProb(Each(LAMBDA o : [o EXCEPT !.e = InstEffect(p, o.e, subst)], e.outcomes))

InstForallEffect(p, e, subst) ==
  IF HasEmptyType(p, e.vars) THEN Empty
  ELSE FoldLeft(MakeBoth, Empty,
                Instances(LAMBDA d, s : InstEffect(p, d, s), p, InstEffect(p, e.effect, subst), e.vars))

\* Effect::instantiation
InstEffect(p, e, subst) ==
  CASE e.op \in {"add", "delete"} -> [e EXCEPT !.atom = Substituted(@, subst)]
    [] e.op = "update" -> InstUpdate(p, e, subst)
    [] e.op = "and"    -> MakeAndEffect(Each(LAMBDA d : InstEffect(p, d, subst), e.args))
    [] e.op = "when"   -> MakeWhen(Inst(p, e.cond, subst, p.init, FALSE),
                                   InstEffect(p, e.effect, subst))
    [] e.op = "prob"   -> InstOutcomes(p, e, subst)
    [] e.op = "forall" -> InstForallEffect(p, e, subst)

\* Effect::state_change: what is added, deleted and updated, with its probability; every
\* condition is seen in the old state.
NoChange == [p |-> One, adds |-> {}, deletes |-> {}, updates |-> <<>>]
Both(c, d) == [p |-> Prod(c.p, d.p), adds |-> c.adds \cup d.adds,
               deletes |-> c.deletes \cup d.deletes, updates |-> c.updates \o d.updates]

RECURSIVE StateChange(_, _, _)

\* ProbabilisticEffect::state_change: what is missing to 1 is no change.
OutcomeChange(p, e, s) ==
  Append(Gather(LAMBDA o : Scaled(o.p, StateChange(p, o.e, s)), e.outcomes),
         [NoChange EXCEPT !.p = Minus(One, Total(e.outcomes))])

StateChange(p, e, s) ==
  CASE e.op = "add"    -> <<[NoChange EXCEPT !.adds = {e.atom}]>>
    [] e.op = "delete" -> <<[NoChange EXCEPT !.deletes = {e.atom}]>>
    [] e.op = "update" -> <<[NoChange EXCEPT !.updates = <<e>>]>>
    [] e.op = "and"    -> FoldLeft(LAMBDA cs, arg :
                            Gather(LAMBDA c : Each(LAMBDA d : Both(c, d), StateChange(p, arg, s)), cs),
                            <<NoChange>>, e.args)
    [] e.op = "when"   -> IF Holds(p, e.cond, s) THEN StateChange(p, e.effect, s) ELSE <<NoChange>>
    [] e.op = "prob"   -> OutcomeChange(p, e, s)

Update(values, updates) == FoldLeft(LAMBDA v, u : Updated(u, v), values, updates)

-----------------------------------------------------------------------------
(* Actions and states *)

\* ActionSchema::instantiation
Instantiated(p, schema, precond, subst) ==
  [name |-> <<schema.name>> \o Each(LAMBDA v : subst[v], schema.vars),
   prec |-> precond,
   effect |-> InstEffect(p, ReadEffect(p, schema.effect), subst)]

\* ActionSchema::instantiations: the precondition for one parameter after the other; a
\* schema without parameters is instantiated all the same.
Preconditions(p, schema) ==
  LET prec == Read(p, schema.prec)
  IN  IF schema.vars = <<>> THEN <<Inst(p, prec, <<>>, p.init, FALSE)>>
      ELSE Instances(LAMBDA f, s : Inst(p, f, s, p.init, FALSE), p, prec, schema.vars)
Instantiations(p, schema) ==
  LET substs   == Assignments(p, schema.vars)
      preconds == Preconditions(p, schema)
  IN  {Instantiated(p, schema, preconds[i], substs[i]) :
         i \in {j \in DOMAIN substs : preconds[j] # False}}

\* Problem::instantiate; the goal is left as it was read.
Actions(p) == UNION {Instantiations(p, p.schemas[i]) : i \in DOMAIN p.schemas}
Goal(p)    == Read(p, p.goal)

\* Problem::enabled_actions and Action::enabled
EnabledActions(p, s) == {a \in Actions(p) : Holds(p, a.prec, s)}

\* Action::affect: it deletes, adds, and updates.
Affected(s, c) ==
  [s EXCEPT !.atoms = (@ \ c.deletes) \cup c.adds, !.values = Update(@, c.updates)]

\* The goal is tested in the new state, and counted the first time.
GOAL_ACHIEVED == <<"goal-achieved">>
TOTAL_TIME    == <<"total-time">>
GoalTested(p, s) ==
  LET goal == Holds(p, Goal(p), s)
      achieved == IF p.goalReward = <<>> THEN (GOAL_ACHIEVED :> One) @@ s.values
                  ELSE Updated(p.goalReward[1], (GOAL_ACHIEVED :> One) @@ s.values)
  IN  [s EXCEPT !.goal = goal, !.values = IF goal /\ ~s.goal THEN achieved ELSE @]

\* State::next, with the probabilities of the possible next states.
NextStates(p, a, s) ==
  Each(LAMBDA c : LET t == GoalTested(p, Affected(s, c))
                  IN  [p |-> c.p, state |-> [t EXCEPT !.values =
                         (TOTAL_TIME :> Plus(@[TOTAL_TIME], One)) @@ @]],
       StateChange(p, a.effect, s))

\* State::State: every initial effect in turn, of which nothing is deleted.
StartStates(p) ==
  LET before == [p |-> One, state |-> [atoms |-> p.init, values |-> p.values, goal |-> FALSE]]
      Step(outcomes, e) ==
        Gather(LAMBDA o : Each(LAMBDA c : [p |-> Prod(o.p, c.p),
                                           state |-> Affected(o.state, [c EXCEPT !.deletes = {}])],
                               StateChange(p, ReadEffect(p, e), o.state)), outcomes)
  IN  Each(LAMBDA o : [o EXCEPT !.state = GoalTested(p, o.state)],
           FoldLeft(Step, <<before>>, p.initEffects))

\* State::printXML: what is sent of a state, without what is static or reserved.
Sent(p, s) ==
  [atoms  |-> {a \in s.atoms : a[1] \notin p.static},
   values |-> Restrict(s.values, {a \in DOMAIN s.values :
                a \notin {GOAL_ACHIEVED, TOTAL_TIME} /\ a[1] \notin p.static}),
   goal   |-> s.goal]
=============================================================================

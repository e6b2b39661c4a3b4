-------------------------- MODULE MCPddlAgreement ---------------------------
(***************************************************************************)
(* Small problems of every shape: all preconditions of two levels over     *)
(* three atoms; all effects of up to three levels; and preconditions,      *)
(* effects and goals with parameters, types, static atoms and values,      *)
(* equality and quantifiers.  They are those the two programs understand   *)
(* alike -- no atom is both added and deleted or tested by a condition and *)
(* changed, no condition stands inside another's conjunction, an uncertain *)
(* effect is not the only one of an "and", and no quantifier is left       *)
(* without parts.                                                          *)
(***************************************************************************)
EXTENDS PddlAgreement

Half     == <<1, 2>>
Pairs(S) == S \X S

-----------------------------------------------------------------------------
(* Problems without parameters; each of the atoms may be there at the start. *)

Atoms   == {<<"a">>, <<"b">>, <<"c">>}
Start(A) == SetToSeq({ProbEffect(<<[p |-> Half, e |-> Add(a)]>>) : a \in A})

Plain(prec, effect) ==
  [types |-> {}, typeof |-> <<>>, constants |-> <<>>, objects |-> <<>>, variables |-> {},
   predicates |-> [a \in {"a", "b", "c"} |-> <<>>], static |-> {}, init |-> {},
   initEffects |-> Start(Atoms),
   values |-> (Sim!TOTAL_TIME :> Zero) @@ (Sim!GOAL_ACHIEVED :> Zero),
   schemas |-> <<[name |-> "act", vars |-> <<>>, prec |-> prec, effect |-> effect]>>,
   goal |-> And([i \in 1..3 |-> Atom(SetToSeq(Atoms)[i])]), goalReward |-> <<>>]

\* Preconditions
Ground0  == {Atom(a) : a \in Atoms}
Shallow  == Ground0 \cup {Not(f) : f \in Ground0}
              \cup {And(q) : q \in Pairs(Ground0)} \cup {Or(q) : q \in Pairs(Ground0)}
Partner  == {Atom(<<"a">>), Not(Atom(<<"b">>)), Atom(<<"c">>)}
              \cup {f \in Shallow : f.op \in {"and", "or"} /\ f.args[1] = Atom(<<"a">>)}
Deeper   == Shallow \cup {And(q) : q \in Shallow \X Partner} \cup {Or(q) : q \in Partner \X Shallow}
Formulas == Deeper \cup {Not(f) : f \in Deeper}

\* Effects: "a" is added, "b" deleted, and "c" decides.
Decide   == Atom(<<"c">>)
Simple   == {Add(<<"a">>), Delete(<<"b">>)}
Condition == {Decide, Not(Decide), Or(<<Decide, Decide>>)}
Maybe(E) == {ProbEffect(<<[p |-> Half, e |-> e]>>) : e \in E}
OneOf(E) == {ProbEffect(<<[p |-> Half, e |-> q[1]], [p |-> Half, e |-> q[2]]>>) : q \in Pairs(E)}
If(E)    == {When(f, e) : f \in Condition, e \in E}
Joined(E) == {AndEffect(q) : q \in Pairs(E)}

First  == Simple \cup Maybe(Simple) \cup OneOf(Simple) \cup If(Simple) \cup Joined(Simple)
Few    == Simple \cup Maybe(Simple) \cup {When(Decide, Delete(<<"b">>))}
Second == First \cup Maybe(First) \cup If(First)
            \cup {AndEffect(q) : q \in First \X Few}
            \cup {ProbEffect(<<[p |-> Half, e |-> q[1]], [p |-> Half, e |-> q[2]]>>) : q \in First \X Few}
Third  == Second \cup Maybe(Second) \cup {When(Decide, e) : e \in Second}
            \cup {AndEffect(<<e, f>>) : e \in Second, f \in Maybe({Add(<<"a">>)})}
            \cup {AndEffect(<<f, e>>) : e \in Second, f \in {When(Not(Decide), Add(<<"a">>))}}

\* What of the effects above the planner translates as the simulator means it.
RECURSIVE InFragment(_)
InFragment(e) ==
  CASE e.op \in {"add", "delete"} -> TRUE
    [] e.op = "and"  -> \A i \in 1..Len(e.args) : InFragment(e.args[i])
    [] e.op = "prob" -> \A i \in 1..Len(e.outcomes) : InFragment(e.outcomes[i].e)
    [] e.op = "when" ->
         /\ InFragment(e.effect)
         /\ \A o \in ToSet(Gpt!AsOutcomes(Gpt!FlattenEffect(e.effect))) :
              /\ o.e.op = "when" => "or" \notin {e.cond.op, o.e.cond.op}
              /\ o.e.op = "and" => \A f \in ToSet(o.e.args) : f.op # "when"

GroundProblems ==
  {Plain(f, Add(<<"a">>)) : f \in Formulas}
    \cup {Plain(Decide, e) : e \in {f \in Third : InFragment(f)}}

-----------------------------------------------------------------------------
(* Problems with one parameter x over two objects of two types of thing.   *)

P(t)     == <<"p", t>>
Q        == <<"q">>
Pof(t)   == Atom(P(t))
Sof(t)   == Atom(<<"s", t>>)
Size(t)  == Fluent(<<"size", t>>)
FUEL     == <<"fuel">>

Lifted(prec, effect, goal) ==
  [types |-> {<<"box", "thing">>, <<"ball", "thing">>, <<"lid", "thing">>},
   typeof |-> [t \in {"o1", "o2", "x", "y", "w", "z", "v"} |->
                 CASE t \in {"o1", "z"} -> {"box"} [] t = "o2" -> {"ball"} [] t = "v" -> {"lid"}
                   [] OTHER -> {"thing"}],
   constants |-> <<"o1">>, objects |-> <<"o2">>, variables |-> {"x", "y", "w", "z", "v"},
   predicates |-> ("p" :> <<{"thing"}>>) @@ ("s" :> <<{"thing"}>>) @@ ("q" :> <<>>),
   static |-> {"s", "size"}, init |-> {<<"s", "o1">>}, initEffects |-> Start({P("o1"), P("o2")}),
   values |-> (Sim!TOTAL_TIME :> Zero) @@ (Sim!GOAL_ACHIEVED :> Zero) @@ (FUEL :> Zero)
                @@ (<<"size", "o1">> :> One) @@ (<<"size", "o2">> :> Half),
   schemas |-> <<[name |-> "act", vars |-> <<"x">>, prec |-> prec, effect |-> effect]>>,
   goal |-> goal, goalReward |-> <<>>]

Bodies == {Pof("y"), Not(Pof("y")), And(<<Sof("y"), Pof("y")>>), Imply(Sof("y"), Pof("y")),
           Or(<<Not(Pof("y")), Sof("y")>>), Exists(<<"z">>, And(<<Pof("z"), Not(Pof("y"))>>)),
           Cmp("<", Size("y"), Value(One)), And(<<>>), Or(<<>>)}
Quantified(B) ==
  {Exists(<<"y">>, f) : f \in B} \cup {Forall(<<"y">>, f) : f \in B}
    \cup {Exists(<<"y", "w">>, And(<<f, Not(Pof("w"))>>)) : f \in B}
    \cup {Forall(<<"w", "y">>, Or(<<f, Pof("w")>>)) : f \in B}
Literal == {Pof("x"), Sof("x"), Pof("o1"), Equal("x", "o1"), Equal("o1", "o2"),
            Cmp(">=", Size("x"), Arith("+", Value(Half), Value(Half)))}
Around  == {Equal("x", "y"), Not(Equal("y", "x"))}
Parted  == Quantified(Bodies \cup {And(<<f, g>>) : f \in Around, g \in Bodies}
                        \cup {Or(<<f, g>>) : f \in Around, g \in Bodies})
Empty0  == {Exists(<<"v">>, Pof("v")), Forall(<<"v">>, Pof("v"))}

Preconds ==
  Literal \cup Parted \cup Empty0 \cup {Not(f) : f \in Literal \cup Parted \cup Empty0}
    \cup {And(<<f, g>>) : f \in Literal, g \in Literal \cup Quantified(Bodies)}
    \cup {Or(<<f, g>>)  : f \in Literal, g \in Literal \cup Quantified(Bodies)}
    \cup {Imply(f, g)   : f \in Literal, g \in Empty0 \cup Quantified(Bodies)}

Goals == {Pof("o1"), Not(Pof("o2")), Imply(Pof("o1"), Pof("o2")), Equal("o1", "o2")}
           \cup Empty0 \cup Quantified(Bodies)

LiftedEffects ==
  LET each(e) == ForallEffect(<<"y">>, e)
      some == {Add(P("x")), Delete(P("x")), each(Add(P("y"))), each(Delete(P("y"))),
               each(When(Sof("y"), Delete(P("y")))), each(When(Equal("x", "y"), Add(P("y")))),
               each(When(Not(Equal("x", "y")), Delete(P("y")))), When(Sof("x"), Add(Q)),
               each(ProbEffect(<<[p |-> <<1, 3>>, e |-> Delete(P("y"))]>>)),
               ProbEffect(<<[p |-> Zero, e |-> Add(Q)], [p |-> Half, e |-> Add(P("x"))]>>),
               ForallEffect(<<"v">>, Add(P("v"))),
               ForallEffect(<<"y", "z">>, When(And(<<Sof("y"), Sof("z")>>), Add(Q)))}
  IN  some \cup {AndEffect(<<e, Assign("assign", FUEL, Arith("*", Size("x"), Value(Half)))>>) : e \in some}
        \cup {AndEffect(<<e, When(Equal("x", "o1"), Add(Q))>>) : e \in some}
        \cup {ProbEffect(<<[p |-> Half, e |-> e], [p |-> <<1, 4>>, e |-> Add(Q)]>>) : e \in some}

\* No quantifier is left without parts, and the goal is not FALSE from the start.
RECURSIVE Whole(_)
Whole(f) ==
  CASE f.op = "not" -> Whole(f.arg)
    [] f.op \in {"and", "or"} -> f.args # <<>> /\ \A i \in DOMAIN f.args : Whole(f.args[i])
    [] OTHER -> TRUE
\* No uncertain effect is left alone in an "and".
RECURSIVE Joins(_)
Joins(e) ==
  CASE e.op = "and"  -> /\ Len(e.args) = 1 => e.args[1].op # "prob"
                        /\ \A i \in DOMAIN e.args : Joins(e.args[i])
    [] e.op = "prob" -> \A i \in DOMAIN e.outcomes : Joins(e.outcomes[i].e)
    [] e.op = "when" -> Joins(e.effect)
    [] OTHER -> TRUE
AllWhole(p) == Gpt!Goal(p) # False /\ Whole(Gpt!Goal(p)) /\ \A a \in Gpt!Actions(p) : Whole(a.prec) /\ Joins(a.effect)

LiftedProblems ==
  {p \in {Lifted(f, Add(P("x")), Pof("o2")) : f \in Preconds}
           \cup {Lifted(Not(Pof("x")), Add(P("x")), g) : g \in Goals}
           \cup {Lifted(And(<<>>), e, And(<<Pof("o1"), Atom(Q)>>)) : e \in LiftedEffects} :
     AllWhole(p)}

-----------------------------------------------------------------------------
(* Problems with rewards: two actions with a price each, which is paid for *)
(* certain, under a condition or in one of the outcomes that make up all   *)
(* that can happen, and a goal with or without a reward.                   *)

MCGamma   == Half
MCEpsilon == <<1, 4>>

Pay(n)  == Assign("decrease", Dd!REWARD, Value(<<n, 1>>))
Earn(n) == Assign("increase", Dd!REWARD, Value(<<n, 1>>))
Try     == ProbEffect(<<[p |-> Half, e |-> Add(<<"a">>)]>>)
Perhaps == ProbEffect(<<[p |-> <<1, 4>>, e |-> Add(<<"b">>)],
                        [p |-> <<1, 4>>, e |-> Delete(<<"c">>)]>>)
Safe    == {AndEffect(<<Add(<<"a">>), Pay(2)>>), AndEffect(<<Try, Pay(1)>>),
            When(Decide, AndEffect(<<Add(<<"a">>), Delete(<<"b">>), Pay(1)>>)),
            AndEffect(<<Delete(<<"b">>), When(Not(Decide), Earn(1))>>)}
Risky   == {ProbEffect(<<[p |-> Half, e |-> AndEffect(<<Add(<<"a">>), Earn(1)>>)],
                         [p |-> Half, e |-> Pay(2)]>>),
            ProbEffect(<<[p |-> Half, e |-> AndEffect(<<Try, Earn(1)>>)],
                         [p |-> <<1, 4>>, e |-> Add(<<"b">>)],
                         [p |-> <<1, 4>>, e |-> AndEffect(<<Try, Add(<<"c">>), Pay(1)>>)]>>),
            When(Or(<<Decide, Atom(<<"b">>)>>), AndEffect(<<Try, Perhaps, Earn(1)>>))}

Priced(e, f, goalReward) ==
  [Plain(Decide, e) EXCEPT
     !.values = (Dd!REWARD :> Zero) @@ @,
     !.schemas = <<[@[1] EXCEPT !.prec = Not(Atom(<<"a">>))],
                   [name |-> "risk", vars |-> <<>>, prec |-> And(<<>>), effect |-> f]>>,
     !.goal = And(<<Atom(<<"a">>), Atom(<<"b">>)>>), !.goalReward = goalReward]
PricedProblems ==
  {Priced(e, f, r) : e \in Safe, f \in Risky \cup {Add(<<"a">>)}, r \in {<<>>, <<Earn(4)>>}}

MCProblems == GroundProblems \cup LiftedProblems \cup PricedProblems

\* A single uncertain effect inside an "and".
MCSingle ==
  {Plain(Decide, AndEffect(<<ProbEffect(<<[p |-> Half, e |-> Add(<<"a">>)]>>)>>))}
=============================================================================

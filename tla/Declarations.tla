----------------------------- MODULE Declarations -----------------------------
(***************************************************************************)
(* The parsers of mdpsim and of mini-gpt read the same file: a domain and  *)
(* a problem, section by section, entry by entry.  What may be in a file   *)
(* is chosen from text, which has a set of entries of every kind and the   *)
(* most entries of every section.  The grammar is that of parser.yy.       *)
(***************************************************************************)
EXTENDS Types, SequencesExt

CONSTANTS VariableNames, Texts

\* The lists in a file are finite.
ASSUME TextsAssumption ==
  \A t \in Texts :
    /\ \A d \in t.types : IsFiniteSet(d[2])
    /\ \A d \in t.predicates \cup t.functions : d[2] \in Seq(SUBSET STRING)
    /\ t.binders \subseteq Seq(VariableNames \X SUBSET STRING)
    /\ t.terms \subseteq Seq(STRING) /\ t.weights \subseteq Seq(Nat)
    /\ t.quantifiers \subseteq
         {"conditional-effects", "existential-preconditions", "universal-preconditions"}
    /\ "" \notin t.fluents

Sim  == INSTANCE SimulatorParser
Plan == INSTANCE PlannerParser

VARIABLES
  text, section, entries,   \* what is read, and how much of the section has been read
  sim, plan,                \* the parsers, with their tables
  scopes,                   \* the variables of the action and the quantifiers that are open
  closed,                   \* the variables of the quantifiers that have been closed
  above,                    \* the pairs of a type and one declared above it
  changed,                  \* the predicates and functions changed by effects
  again                     \* whether the problem requires rewards once more

vars == <<text, section, entries, sim, plan, scopes, closed, above, changed, again>>

Sections == <<"requirements", "types", "constants", "predicates", "functions", "actions",
              "more requirements", "objects", "init", "goal", "metric", "end">>

Init ==
  /\ text \in Texts
  /\ section = 1 /\ entries = 0
  /\ sim = Sim!Start /\ plan = Plan!Start
  /\ scopes = <<>> /\ closed = <<>> /\ above = {} /\ changed = {}
  /\ again = FALSE

In(names)   == Sections[section] \in names
Entry(s, p) ==
  /\ entries < text.most[Sections[section]]
  /\ entries' = entries + 1
  /\ sim'  = IF sim.end = "" THEN s ELSE sim
  /\ plan' = IF plan.end = "" THEN p ELSE plan
  /\ UNCHANGED <<text, section, again>>

-----------------------------------------------------------------------------
(* The domain, and the objects of the problem *)

ReadRequirement ==
  /\ In({"requirements", "more requirements"})
  /\ \E key \in text.requirements :
       /\ Entry(Sim!RequireKey(sim, key), Plan!RequireKey(plan, key))
       /\ again' = (again \/ (In({"more requirements"}) /\ key \in {"rewards", "mdp"}))
  /\ UNCHANGED <<scopes, closed, above, changed>>

ReadType ==
  /\ In({"types"})
  /\ \E d \in text.types :
       /\ Entry(Sim!AddTypeName(Sim!TypeSpec(sim, d[2]), d[1], d[2]),
                Plan!AddTypeName(Plan!TypeSpec(plan, d[2]), d[1], d[2]))
       /\ above' = IF d[1] \in {OBJECT, "number"} THEN above ELSE above \cup {<<d[1], u>> : u \in d[2] \ {OBJECT}}
  /\ UNCHANGED <<scopes, closed, changed, again>>

ReadName ==
  /\ In({"constants", "objects"})
  /\ \E d \in text.names :
       LET s == Sim!TypeSpec(sim, d[2])
           p == Plan!TypeSpec(plan, d[2])
       IN  IF In({"constants"})
           THEN Entry(Sim!AddConstantName(s, d[1], d[2]), Plan!AddConstantName(p, d[1], d[2]))
           ELSE Entry(Sim!AddObjectName(s, d[1], d[2]), Plan!AddObjectName(p, d[1], d[2]))
  /\ UNCHANGED <<scopes, closed, above, changed, again>>

ReadPredicate ==
  /\ In({"predicates"})
  /\ \E d \in text.predicates :
       Entry(Sim!DeclarePredicate(sim, d[1], d[2]), Plan!DeclarePredicate(plan, d[1], d[2]))
  /\ UNCHANGED <<scopes, closed, above, changed, again>>

ReadFunction ==
  /\ In({"functions"})
  /\ \E d \in text.functions :
       Entry(Sim!DeclareFunction(sim, d[1], d[2]), Plan!DeclareFunction(plan, d[1], d[2]))
  /\ UNCHANGED <<scopes, closed, above, changed, again>>

-----------------------------------------------------------------------------
(* Actions, the initial state and the goal *)

OpenAction ==
  /\ In({"actions"}) /\ scopes = <<>>
  /\ \E a \in text.actions, xs \in text.binders :
       /\ Entry(Sim!AddVariables(Sim!MakeAction(sim, a), xs), Plan!AddVariables(Plan!MakeAction(plan, a), xs))
       /\ scopes' = <<xs>>
  /\ UNCHANGED <<closed, above, changed, again>>

InFormula == (In({"actions"}) /\ scopes # <<>>) \/ In({"goal"})

OpenQuantifier ==
  /\ InFormula
  /\ \E requirement \in text.quantifiers, xs \in text.binders :
       /\ In({"goal"}) => requirement # "conditional-effects"
       /\ Entry(Sim!AddVariables(Sim!Prepare(sim, requirement), xs),
                Plan!AddVariables(Plan!Prepare(plan, requirement), xs))
       /\ scopes' = Append(scopes, xs)
  /\ UNCHANGED <<closed, above, changed, again>>

\* The parenthesis that closes the innermost quantifier or the action.
Close ==
  /\ scopes # <<>>
  /\ IF In({"actions"}) /\ Len(scopes) = 1
       THEN /\ sim'  = IF sim.end = "" THEN Sim!AddAction(sim) ELSE sim
            /\ plan' = IF plan.end = "" THEN Plan!AddAction(plan) ELSE plan
            /\ UNCHANGED closed
       ELSE /\ sim'  = IF sim.end = "" THEN Sim!MakeQuantified(sim) ELSE sim
            /\ plan' = IF plan.end = "" THEN Plan!MakeQuantified(plan) ELSE plan
            /\ closed' = Append(closed, Last(scopes))
  /\ scopes' = Front(scopes)
  /\ UNCHANGED <<text, section, entries, above, changed, again>>

ReadAtom ==
  /\ InFormula \/ In({"init"})
  /\ \E p \in text.heads, xs \in text.terms :
       /\ In({"init"}) => ToSet(xs) \cap VariableNames = {}
       /\ Entry(Sim!ReadAtom(sim, p, xs), Plan!ReadAtom(plan, p, xs))
  /\ UNCHANGED <<scopes, closed, above, changed, again>>

ReadEqual ==
  /\ InFormula
  /\ \E e \in text.equal : Entry(Sim!ReadEqual(sim, e[1], e[2]), Plan!ReadEqual(plan, e[1], e[2]))
  /\ UNCHANGED <<scopes, closed, above, changed, again>>

ReadChange ==
  /\ In({"actions"}) /\ scopes # <<>>
  /\ \E p \in text.heads, xs \in text.terms :
       /\ Entry(Sim!ReadChange(sim, p, xs), Plan!ReadChange(plan, p, xs))
       /\ changed' = changed \cup {<<"predicates", p>>}
  /\ UNCHANGED <<scopes, closed, above, again>>

ReadUpdate ==
  /\ In({"actions"}) /\ scopes # <<>>
  /\ \E f \in text.fluents, op \in {"assign", "increase"}, constant \in BOOLEAN :
       /\ Entry(Sim!ReadUpdate(sim, op, f, <<>>, constant), Plan!ReadUpdate(plan, op, f, <<>>, constant))
       /\ changed' = changed \cup {<<"functions", f>>}
  /\ UNCHANGED <<scopes, closed, above, again>>

\* The initial value of a fluent.
ReadValue ==
  /\ In({"init"})
  /\ \E f \in text.fluents :
       Entry(Sim!ReadValue(sim, f), Plan!ReadApplication(plan, f, <<>>))
  /\ UNCHANGED <<scopes, closed, above, changed, again>>

ReadOutcomes ==
  /\ (In({"actions"}) /\ scopes # <<>>) \/ In({"init"})
  /\ \E w \in text.weights : Entry(Sim!ReadOutcomes(sim, w, 4), Plan!ReadOutcomes(plan, w, 4))
  /\ UNCHANGED <<scopes, closed, above, changed, again>>

-----------------------------------------------------------------------------
(* The order of the sections *)

NextSection ==
  /\ scopes = <<>> /\ ~In({"actions", "metric", "end"})
  /\ section' = section + 1 /\ entries' = 0
  /\ UNCHANGED <<text, sim, plan, scopes, closed, above, changed, again>>

BeginProblem ==
  /\ In({"actions"}) /\ scopes = <<>>
  /\ \E known \in text.known :
       /\ sim'  = IF sim.end = "" THEN Sim!MakeProblem(sim, known) ELSE sim
       /\ plan' = IF plan.end = "" THEN Plan!MakeProblem(plan, known) ELSE plan
  /\ section' = section + 1 /\ entries' = 0
  /\ UNCHANGED <<text, scopes, closed, above, changed, again>>

EndProblem ==
  /\ In({"metric"})
  /\ \E goalReward \in text.goalRewards :
       LET s == IF goalReward THEN Sim!SetGoalReward(sim) ELSE sim
       IN  /\ sim' = IF sim.end = "" THEN Sim!Instantiate(s) ELSE sim
           /\ changed' = IF goalReward THEN changed \cup {<<"functions", "reward">>} ELSE changed
  /\ section' = section + 1 /\ entries' = 0
  /\ UNCHANGED <<text, plan, scopes, closed, above, again>>

Next ==
  \/ ReadRequirement \/ ReadType \/ ReadName \/ ReadPredicate \/ ReadFunction
  \/ OpenAction \/ OpenQuantifier \/ Close \/ ReadAtom \/ ReadEqual \/ ReadChange \/ ReadUpdate
  \/ ReadValue \/ ReadOutcomes \/ NextSection \/ BeginProblem \/ EndProblem

Spec == Init /\ [][Next]_vars

-----------------------------------------------------------------------------
(* Properties *)

TypeNames == {d[1] : d \in above} \cup {d[2] : d \in above} \cup {OBJECT}

\* Through one type after the other.
Closure ==
  LET names == SetToSeq(TypeNames)
      Through(R, k) == R \cup {p \in TypeNames \X TypeNames : <<p[1], k>> \in R /\ <<k, p[2]>> \in R}
      closure[i \in 0..Len(names)] == IF i = 0 THEN above ELSE Through(closure[i - 1], names[i])
  IN  closure[Len(names)]

\* The table of subtypes, updated with every declaration and in any order of them, is the
\* transitive closure of what has been declared, and a declaration is refused exactly when
\* it closes a cycle.
HierarchyExact ==
  In({"types"}) /\ sim.end = "" =>
    IF \E p \in Closure : p[1] # p[2] /\ <<p[2], p[1]>> \in Closure THEN ~sim.success
    ELSE /\ sim.success
         /\ \A x, y \in TypeNames : Below(sim.types, x, y) <=> (x = y \/ y = OBJECT \/ <<x, y>> \in Closure)

Tables(r) ==
  <<r.types, r.constants, r.objects, r.predicates, r.variables, r.actions, r.lists, r.atoms,
    {p \in DOMAIN r.predicates : <<"predicates", p>> \in r.static}>>

\* The functions that only one of the programs has by itself.
OwnFunctions == {"total-time", "goal-achieved", "goal-probability"}

\* Both parsers accept the same files and make the same of them, where both get to the end
\* and the file uses neither the reward, which only mdpsim keeps out of formulas, nor the
\* functions that only one of them has.
ReadAlike ==
  /\ sim.end = "" /\ plan.end = "" /\ "rewards" \notin sim.requirements
  /\ ({"reward"} \cup OwnFunctions) \cap
       ({c[2] : c \in changed} \cup {a.name : a \in sim.atoms \cup plan.atoms}) = {}
  =>
    /\ sim.success = plan.success
    /\ sim.success => Tables(sim) = Tables(plan)

WellTypedIn(r, a) ==
  LET types == r[a.table][a.name]
      type(t) == IF t.var # 0 THEN r.variables[t.var][2]
                 ELSE IF t.name \in DOMAIN r.objects THEN r.objects[t.name] ELSE r.constants[t.name]
  IN  /\ Len(a.terms) = Len(types)
      /\ \A i \in DOMAIN types : Subtype(r.types, type(a.terms[i]), types[i])

\* What has been accepted stays well typed, although predicates, constants and objects may
\* be declared by their use and get their types from one another.
WellTyped ==
  \A r \in {sim, plan} :
    r.success /\ r.end = "" => \A a \in r.atoms : a.table = "=" \/ WellTypedIn(r, a)

Named(r, list) == [i \in DOMAIN list |-> r.variables[list[i]][1]]
Bound(xs)      == [i \in DOMAIN xs |-> xs[i][1]]

\* The one list of all quantified variables, which also tells the parameters of an action
\* from them, gives every quantifier and the action the variables declared for it.
BindersExact ==
  sim.success /\ sim.end = "" =>
    /\ [i \in DOMAIN sim.lists |-> Named(sim, sim.lists[i])] = [i \in DOMAIN closed |-> Bound(closed[i])]
    /\ In({"actions"}) /\ scopes # <<>> => Named(sim, sim.parameters) = Bound(scopes[1])

\* mdpsim does not refuse to instantiate a problem whose metric's function an effect or the
\* goal changes, unless the problem requires the reward once more.
MetricDynamic ==
  sim.end = "thrown" /\ In({"end"}) /\ ~again => <<"functions", sim.metric>> \notin changed
=============================================================================

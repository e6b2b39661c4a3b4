--------------------------- MODULE SimulatorParser ---------------------------
(***************************************************************************)
(* The parser of mdpsim (parser.yy with its tables of types, terms,        *)
(* predicates and functions): what every semantic action makes of the      *)
(* record r of all the parser's variables and of the tables of the current *)
(* domain and problem.                                                     *)
(*                                                                         *)
(* A type specification is the set of the names in it ({"object"} when     *)
(* there is none, {} for "(either object)").  A variable is its index in   *)
(* r.variables, an object has index 0 and a name.  Warnings have no effect *)
(* below level 2, the default is 1: what remains of them is the            *)
(* requirement that is assumed.  An exception (end = "thrown") and         *)
(* undefined behaviour (end = "undefined") end the reading.                *)
(***************************************************************************)
EXTENDS Types, SequencesExt

CONSTANT VariableNames   \* the names that begin with a question mark

MARK == 0                \* Term(0), which begins a list of quantified variables
None == [x \in {} |-> x]

Start ==
  [success |-> TRUE, end |-> "", requirements |-> {}, types |-> {},
   constants |-> None, objects |-> None, problem |-> FALSE,
   predicates |-> None, functions |-> [f \in {"total-time", "goal-achieved"} |-> <<>>], static |-> {},
   variables |-> <<>>, frames |-> <<>>, quantified |-> <<>>,
   name |-> "", parameters |-> <<>>, actions |-> None,
   head |-> [table |-> "", name |-> "", fresh |-> FALSE], terms |-> <<>>, term |-> [var |-> 0, name |-> ""],
   atoms |-> {}, lists |-> <<>>, values |-> {}, metric |-> ""]

\* yyerror
Fail(r) == [r EXCEPT !.success = FALSE]
Check(r, condition) == IF condition THEN r ELSE Fail(r)

\* require_typing, require_fluents, ...
Assume(r, requirement) == [r EXCEPT !.requirements = @ \cup {requirement}]

-----------------------------------------------------------------------------
(* Tables *)

WithEntry(f, x, v) == [y \in DOMAIN f \cup {x} |-> IF y = x THEN v ELSE f[y]]

AddPredicate(r, p) == [r EXCEPT !.predicates = WithEntry(@, p, <<>>), !.static = @ \cup {<<"predicates", p>>}]

\* A function that is there already keeps its parameters, but becomes static again.
AddFunction(r, f) ==
  [r EXCEPT !.functions = IF f \in DOMAIN @ THEN @ ELSE WithEntry(@, f, <<>>), !.static = @ \cup {<<"functions", f>>}]

\* Mutant: what an effect changes stays static.
StaysStatic(r, table, x) == r

\* PredicateTable::make_dynamic, FunctionTable::make_dynamic
MakeDynamic(r, table, x) == [r EXCEPT !.static = @ \ {<<table, x>>}]

AddParameter(r, table, x, type) == [r EXCEPT ![table][x] = Append(@, type)]

\* TermTable::find_object of a problem's table, whose parent is the domain's.
ObjectNames(r) == DOMAIN r.constants \cup DOMAIN r.objects
TypeOf(r, t) ==
  IF t.var # 0 THEN r.variables[t.var][2]
  ELSE IF t.name \in DOMAIN r.objects THEN r.objects[t.name] ELSE r.constants[t.name]
AddObject(r, o, type) ==
  IF r.problem THEN [r EXCEPT !.objects = WithEntry(@, o, type)]
               ELSE [r EXCEPT !.constants = WithEntry(@, o, type)]

-----------------------------------------------------------------------------
(* Requirements, types and names *)

Adl == {"strips", "typing", "negative-preconditions", "disjunctive-preconditions", "equality",
        "existential-preconditions", "universal-preconditions", "conditional-effects"}

\* require_key
RequireKey(r, key) ==
  CASE key = "adl"     -> [r EXCEPT !.requirements = @ \cup Adl]
    [] key = "mdp"     -> AddFunction([r EXCEPT !.requirements = @ \cup {"probabilistic-effects", "rewards"}], "reward")
    [] key = "rewards" -> AddFunction(Assume(r, key), "reward")
    [] OTHER           -> Assume(r, key)

\* type_spec: the union of no type is an exception.
TypeSpec(r, names) ==
  LET q == IF names = {OBJECT} THEN r ELSE Assume(r, "typing")
  IN  IF names = {} THEN [q EXCEPT !.end = "thrown"] ELSE q

AddTypeName(r, s, type) ==
  IF s \in {OBJECT, "number"} THEN r
  ELSE Check([r EXCEPT !.types = AddSupertypes(@, s, type)], AllAcyclic(r.types, s, type))

\* The type of an object declared again is the union of its types.
Declared(f, o, type) == WithEntry(f, o, IF o \in DOMAIN f THEN Components(f[o]) \cup type ELSE type)

AddConstantName(r, o, type) == [r EXCEPT !.constants = Declared(@, o, type)]
AddObjectName(r, o, type) ==
  IF o \in DOMAIN r.constants THEN r ELSE [r EXCEPT !.objects = Declared(@, o, type)]

-----------------------------------------------------------------------------
(* Variables: the context is a stack of frames; the variables of all open  *)
(* quantifiers are in one list, each behind a mark                         *)

PushFrame(r) == [r EXCEPT !.frames = Append(@, None)]
PopFrame(r)  == [r EXCEPT !.frames = Front(@)]
Insert(frames, x, v) ==
  [frames EXCEPT ![Len(frames)] = IF x \in DOMAIN @ THEN @ ELSE WithEntry(@, x, v)]
Find(frames, x) ==
  LET having == {i \in DOMAIN frames : x \in DOMAIN frames[i]}
  IN  IF having = {} THEN 0 ELSE frames[Max(having)][x]

\* add_variables
AddVariable(r, x, type) ==
  LET v == Len(r.variables) + 1
      q == Check(r, x \notin DOMAIN Last(r.frames))
      s == [q EXCEPT !.variables = Append(@, <<x, type>>), !.frames = Insert(@, x, v)]
  IN  IF s.quantified # <<>> THEN [s EXCEPT !.quantified = Append(@, v)]
                             ELSE [s EXCEPT !.parameters = Append(@, v)]
AddVariables(r, pairs) ==
  LET after[i \in 0..Len(pairs)] ==
        IF i = 0 THEN r ELSE AddVariable(TypeSpec(after[i - 1], pairs[i][2]), pairs[i][1], pairs[i][2])
  IN  after[Len(pairs)]

\* prepare_forall_effect, prepare_exists, prepare_forall
Prepare(r, requirement) == PushFrame([Assume(r, requirement) EXCEPT !.quantified = Append(@, MARK)])

LastMark(list) == Max({i \in DOMAIN list : list[i] = MARK})

\* Mutant: the list is cut behind the mark.
MarkLeft(r) ==
  LET n == LastMark(r.quantified) IN
  [PopFrame(r) EXCEPT !.lists = Append(@, SubSeq(r.quantified, n + 1, Len(r.quantified))),
                      !.quantified = SubSeq(@, 1, n)]

\* make_forall_effect, make_exists, make_forall
MakeQuantified(r) ==
  LET n == LastMark(r.quantified) IN
  [PopFrame(r) EXCEPT !.lists = Append(@, SubSeq(r.quantified, n + 1, Len(r.quantified))),
                      !.quantified = SubSeq(@, 1, n - 1)]

-----------------------------------------------------------------------------
(* Declarations of predicates, functions and actions *)

AddParameters(r, table, x, types) ==
  LET after[i \in 0..Len(types)] ==
        IF i = 0 THEN r ELSE AddParameter(TypeSpec(after[i - 1], types[i]), table, x, types[i])
  IN  after[Len(types)]

\* The specifications of types that nothing gets.
TypeSpecs(r, types) ==
  LET q == IF ToSet(types) \subseteq {{OBJECT}} THEN r ELSE Assume(r, "typing")
  IN  IF {} \in ToSet(types) THEN [q EXCEPT !.end = "thrown"] ELSE q

\* make_predicate, make_function; of a declaration repeated only the types are read.
DeclarePredicate(r, p, types) ==
  IF p \in DOMAIN r.predicates THEN TypeSpecs(r, types)
  ELSE AddParameters(AddPredicate(r, p), "predicates", p, types)
DeclareFunction(r, f, types) ==
  LET q == Assume(r, "fluents") IN
  IF f \in DOMAIN q.functions THEN TypeSpecs(q, types)
  ELSE AddParameters(AddFunction(q, f), "functions", f, types)

MakeAction(r, a) == [PushFrame(r) EXCEPT !.name = a, !.parameters = <<>>]
AddAction(r) ==
  [PopFrame(r) EXCEPT
     !.actions = IF r.name \in DOMAIN @ THEN @ ELSE WithEntry(@, r.name, r.parameters),
     !.name = ""]

-----------------------------------------------------------------------------
(* Atoms, fluents and terms *)

PrepareAtom(r, p) ==
  LET fresh == p \notin DOMAIN r.predicates
      q     == IF fresh THEN AddPredicate(r, p) ELSE r
  IN  [q EXCEPT !.head = [table |-> "predicates", name |-> p, fresh |-> fresh], !.terms = <<>>]

\* place is "effect", "metric" or "formula".
PrepareFluent(r, f, place) ==
  LET fresh == f \notin DOMAIN r.functions
      q     == IF fresh THEN AddFunction(r, f) ELSE r
      s     == CASE "rewards" \in r.requirements /\ f = "reward" -> Check(q, place # "formula")
                 [] f \in {"total-time", "goal-achieved"}        -> Check(q, place = "metric")
                 [] OTHER                                        -> Assume(q, "fluents")
  IN  [s EXCEPT !.head = [table |-> "functions", name |-> f, fresh |-> fresh], !.terms = <<>>]

Parameters(r) == IF r.head.table = "" THEN <<>> ELSE r[r.head.table][r.head.name]

\* make_term: an unknown variable is entered into the innermost frame (undefined when there
\* is none), an unknown object gets the type the predicate wants in its place.
MakeTerm(r, x) ==
  IF x \in VariableNames THEN
    CASE Find(r.frames, x) # 0 -> [r EXCEPT !.term = [var |-> Find(r.frames, x), name |-> ""]]
      [] Find(r.frames, x) = 0 /\ r.frames = <<>> -> [Fail(r) EXCEPT !.end = "undefined"]
      [] OTHER ->
           LET v == Len(r.variables) + 1
           IN  [Fail(r) EXCEPT !.variables = Append(@, <<x, {OBJECT}>>), !.frames = Insert(@, x, v),
                               !.term = [var |-> v, name |-> ""]]
  ELSE
    LET n    == Len(r.terms)
        type == IF r.head.table = "predicates" /\ Len(Parameters(r)) > n THEN Parameters(r)[n + 1] ELSE {OBJECT}
    IN  [IF x \in ObjectNames(r) THEN r ELSE AddObject(r, x, type) EXCEPT !.term = [var |-> 0, name |-> x]]

\* Mutant: the type of a term is not compared.
TypedUnchecked(r) ==
  IF r.head.fresh THEN AddParameter(r, r.head.table, r.head.name, TypeOf(r, r.term)) ELSE r

\* The term that has been made in its place: it gives a new predicate a parameter, or has
\* to be of the type of a known one's.
Typed(r) ==
  LET n == Len(r.terms) IN
  CASE r.head.fresh -> AddParameter(r, r.head.table, r.head.name, TypeOf(r, r.term))
    [] ~r.head.fresh /\ Len(Parameters(r)) > n ->
         Check(r, Subtype(r.types, TypeOf(r, r.term), Parameters(r)[n + 1]))
    [] OTHER -> r
WithTerm(r) == IF r.end # "" THEN r ELSE [Typed(r) EXCEPT !.terms = Append(@, r.term)]
AddTerm(r, x) == IF r.end # "" THEN r ELSE WithTerm(MakeTerm(r, x))
AddTerms(r, xs) ==
  LET after[i \in 0..Len(xs)] == IF i = 0 THEN r ELSE AddTerm(after[i - 1], xs[i])
  IN  after[Len(xs)]

\* make_atom, make_fluent
MakeAtom(r) ==
  IF r.end # "" THEN r
  ELSE [Check(r, Len(r.terms) = Len(Parameters(r))) EXCEPT
          !.atoms = @ \cup {[table |-> r.head.table, name |-> r.head.name, terms |-> r.terms]},
          !.head = [@ EXCEPT !.table = "", !.fresh = FALSE]]

ReadAtom(r, p, xs)          == MakeAtom(AddTerms(PrepareAtom(r, p), xs))
ReadFluent(r, f, xs, place) == MakeAtom(AddTerms(PrepareFluent(r, f, place), xs))

\* make_add_effect, make_delete_effect
ReadChange(r, p, xs) == MakeDynamic(ReadAtom(r, p, xs), "predicates", p)

\* make_assign_effect ... make_decrease_effect
MakeUpdate(r, op, f, constant) ==
  IF "rewards" \in r.requirements /\ f = "reward"
    THEN Check(r, op \in {"increase", "decrease"} /\ constant) ELSE Assume(r, "fluents")
ReadUpdate(r, op, f, xs, constant) ==
  MakeDynamic(MakeUpdate(ReadFluent(r, f, xs, "effect"), op, f, constant), "functions", f)

\* make_eq_name: a name is a function's or an object's.
ReadEqualTerm(r, x) ==
  CASE r.end # "" -> r
    [] r.end = "" /\ x \in DOMAIN r.functions -> ReadFluent(r, x, <<>>, "formula")
    [] OTHER -> MakeTerm(r, x)

\* make_equality: of terms; a fluent and a term do not compare, and terms whose types are
\* unrelated never are equal.
Related(r, t, u) ==
  Subtype(r.types, TypeOf(r, t), TypeOf(r, u)) \/ Subtype(r.types, TypeOf(r, u), TypeOf(r, t))
MakeEqual(r, t, fluents) ==
  CASE r.end # "" \/ fluents = <<TRUE, TRUE>> -> r
    [] r.end = "" /\ fluents[1] # fluents[2]  -> Fail(r)
    [] OTHER -> [r EXCEPT !.atoms = @ \cup
                   IF Related(r, t, r.term) THEN {[table |-> "=", name |-> "", terms |-> <<t, r.term>>]} ELSE {}]
ReadSecond(r, y, fluents) == MakeEqual(ReadEqualTerm(r, y), r.term, fluents)
ReadEqual(r, x, y) ==
  ReadSecond(ReadEqualTerm(Assume(r, "equality"), x), y, <<x \in DOMAIN r.functions, y \in DOMAIN r.functions>>)

\* add_outcome, make_prob_effect; probabilities are in units of 1 / unit.
SumOf(weights) ==
  LET sum[i \in 0..Len(weights)] == IF i = 0 THEN 0 ELSE sum[i - 1] + weights[i]
  IN  sum[Len(weights)]
ReadOutcomes(r, weights, unit) ==
  Check(Assume(r, "probabilistic-effects"),
        (\A i \in DOMAIN weights : weights[i] <= unit) /\ SumOf(weights) <= unit)

-----------------------------------------------------------------------------
(* Problems *)

\* make_problem; a domain that is unknown is an empty one from here on.
MakeProblem(r, known) ==
  [IF known THEN r ELSE [Fail(Start) EXCEPT !.frames = r.frames, !.quantified = r.quantified]
     EXCEPT !.problem = TRUE, !.objects = None, !.values = {}]

\* add_init_value: the fluents that have an initial value.
ReadValue(r, f) == [ReadFluent(r, f, <<>>, "formula") EXCEPT !.values = @ \cup {f}]

\* set_goal_reward
SetGoalReward(r) == IF "rewards" \in r.requirements THEN MakeDynamic(r, "functions", "reward") ELSE Fail(r)

\* set_default_metric, set_metric, Problem::instantiate: a static fluent must have a value
\* in the initial state; the initial effect that sets the reward to zero gives it none.
Instantiate(r) ==
  LET metric == CASE "rewards" \in r.requirements -> "reward"
                  [] "rewards" \notin r.requirements /\ "probabilistic-effects" \in r.requirements -> "goal-achieved"
                  [] OTHER -> "total-time"
  IN  [r EXCEPT !.metric = metric, !.end = IF <<"functions", metric>> \in r.static /\ metric \notin r.values THEN "thrown" ELSE @]
=============================================================================

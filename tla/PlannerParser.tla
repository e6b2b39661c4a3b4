---------------------------- MODULE PlannerParser ----------------------------
(***************************************************************************)
(* The parser of mini-gpt (parser.y with its tables of types, terms,       *)
(* predicates and functions), on the same record as SimulatorParser and    *)
(* with these further fields: reward, the function the parser takes for    *)
(* the reward ("reward again" when the name is that of an earlier one),    *)
(* and dangling, the objects whose type is a union that the table only     *)
(* keeps the address of, which is a variable of a call that has ended.     *)
(***************************************************************************)
EXTENDS Types, SequencesExt

CONSTANT VariableNames   \* the names that begin with a question mark

NULL_TERM == 0
None == [x \in {} |-> x]

Start ==
  [success |-> TRUE, end |-> "", requirements |-> {}, types |-> {},
   constants |-> None, objects |-> None, dangling |-> {}, problem |-> FALSE,
   predicates |-> None, functions |-> None, reward |-> "", static |-> {},
   variables |-> <<>>, frames |-> <<>>, quantified |-> <<>>,
   name |-> "", parameters |-> <<>>, actions |-> None,
   head |-> [table |-> "", name |-> "", fresh |-> FALSE], terms |-> <<>>, term |-> [var |-> 0, name |-> ""],
   atoms |-> {}, lists |-> <<>>]

\* yyerror
Fail(r) == [r EXCEPT !.success = FALSE]
Check(r, condition) == IF condition THEN r ELSE Fail(r)

\* require_typing, require_fluents, ...
Assume(r, requirement) == [r EXCEPT !.requirements = @ \cup {requirement}]

-----------------------------------------------------------------------------
(* Tables *)

WithEntry(f, x, v) == [y \in DOMAIN f \cup {x} |-> IF y = x THEN v ELSE f[y]]

AddPredicate(r, p) == [r EXCEPT !.predicates = WithEntry(@, p, <<>>), !.static = @ \cup {<<"predicates", p>>}]
AddFunction(r, f)  == [r EXCEPT !.functions = WithEntry(@, f, <<>>), !.static = @ \cup {<<"functions", f>>}]
MakeDynamic(r, table, x) == [r EXCEPT !.static = @ \ {<<table, x>>}]
AddParameter(r, table, x, type) == [r EXCEPT ![table][x] = Append(@, type)]

ObjectNames(r) == DOMAIN r.constants \cup DOMAIN r.objects
TypeOf(r, t) ==
  IF t.var # 0 THEN r.variables[t.var][2]
  ELSE IF t.name \in DOMAIN r.objects THEN r.objects[t.name] ELSE r.constants[t.name]

\* A type that is not there any more is looked into.
Undefined(r, t) == t.var = 0 /\ t.name \in r.dangling

-----------------------------------------------------------------------------
(* Requirements, types and names *)

Adl == {"strips", "typing", "negative-preconditions", "disjunctive-preconditions", "equality",
        "existential-preconditions", "universal-preconditions", "conditional-effects"}

\* add_function( "reward" ) always makes a function, which the name does not find if it was
\* there before.
RequireReward(r) ==
  IF "reward" \in DOMAIN r.functions THEN [Assume(r, "rewards") EXCEPT !.reward = "reward again"]
  ELSE [AddFunction(Assume(r, "rewards"), "reward") EXCEPT !.reward = "reward"]
RequireProbabilities(r) ==
  LET q == Assume(r, "probabilistic-effects")
  IN  IF "goal-probability" \in DOMAIN q.functions THEN q ELSE AddFunction(q, "goal-probability")

\* require_key
RequireKey(r, key) ==
  CASE key = "adl"     -> [r EXCEPT !.requirements = @ \cup Adl]
    [] key = "mdp"     -> RequireReward(RequireProbabilities(r))
    [] key = "rewards" -> RequireReward(r)
    [] key = "probabilistic-effects" -> RequireProbabilities(r)
    [] OTHER           -> Assume(r, key)

\* type_spec: the union of no type is object.
TypeSpec(r, names) == IF names = {OBJECT} THEN r ELSE Assume(r, "typing")

AddTypeName(r, s, names) ==
  IF s \in {OBJECT, "number"} THEN r
  ELSE Check([r EXCEPT !.types = AddSupertypes(@, s, Union(names))], AllAcyclic(r.types, s, Union(names)))

\* Mutant: the last declaration of an object counts.
DeclareLast(r, table, o, type) == [r EXCEPT ![table] = WithEntry(@, o, type)]

\* The type of an object declared again is the union of its types.
Declare(r, table, o, type) ==
  LET again == o \in DOMAIN r[table]
      new   == IF again THEN Components(r[table][o]) \cup type ELSE type
  IN  [r EXCEPT ![table] = WithEntry(@, o, new),
                !.dangling = IF again /\ Cardinality(new) > 1 THEN @ \cup {o} ELSE @]

AddConstantName(r, o, names) ==
  IF o \in r.dangling THEN [r EXCEPT !.end = "undefined"] ELSE Declare(r, "constants", o, Union(names))
AddObjectName(r, o, names) ==
  CASE o \in DOMAIN r.constants -> r
    [] o \notin DOMAIN r.constants /\ o \in r.dangling -> [r EXCEPT !.end = "undefined"]
    [] OTHER -> Declare(r, "objects", o, Union(names))

-----------------------------------------------------------------------------
(* Variables *)

PushFrame(r) == [r EXCEPT !.frames = Append(@, None)]
PopFrame(r)  == [r EXCEPT !.frames = Front(@)]
Insert(frames, x, v) == [frames EXCEPT ![Len(frames)] = WithEntry(@, x, v)]
Find(frames, x) ==
  LET having == {i \in DOMAIN frames : x \in DOMAIN frames[i]}
  IN  IF having = {} THEN 0 ELSE frames[Max(having)][x]

\* add_variables
AddVariable(r, x, type) ==
  LET v == Len(r.variables) + 1
      q == [Check(r, x \notin DOMAIN Last(r.frames)) EXCEPT
              !.variables = Append(@, <<x, type>>), !.frames = Insert(@, x, v)]
  IN  IF q.quantified # <<>> THEN [q EXCEPT !.quantified = Append(@, v)]
                             ELSE [q EXCEPT !.parameters = Append(@, v)]
AddVariables(r, pairs) ==
  LET after[i \in 0..Len(pairs)] ==
        IF i = 0 THEN r ELSE AddVariable(TypeSpec(after[i - 1], pairs[i][2]), pairs[i][1], Union(pairs[i][2]))
  IN  after[Len(pairs)]

\* prepare_forall_effect, prepare_exists, prepare_forall
Prepare(r, requirement) == PushFrame([Assume(r, requirement) EXCEPT !.quantified = Append(@, NULL_TERM)])

\* make_forall_effect, make_exists, make_forall
MakeQuantified(r) ==
  LET n == Max({i \in DOMAIN r.quantified : r.quantified[i] = NULL_TERM}) IN
  [PopFrame(r) EXCEPT !.lists = Append(@, SubSeq(r.quantified, n + 1, Len(r.quantified))),
                      !.quantified = SubSeq(@, 1, n - 1)]

-----------------------------------------------------------------------------
(* Declarations of predicates, functions and actions *)

AddParameters(r, table, x, types) ==
  LET after[i \in 0..Len(types)] ==
        IF i = 0 THEN r ELSE AddParameter(TypeSpec(after[i - 1], types[i]), table, x, Union(types[i]))
  IN  after[Len(types)]

\* The specifications of types that nothing gets.
TypeSpecs(r, types) == IF ToSet(types) \subseteq {{OBJECT}} THEN r ELSE Assume(r, "typing")

\* make_predicate, make_function; of a declaration repeated only the types are read.
DeclarePredicate(r, p, types) ==
  IF p \in DOMAIN r.predicates THEN TypeSpecs(r, types)
  ELSE AddParameters(AddPredicate(r, p), "predicates", p, types)
DeclareFunction(r, f, types) ==
  LET q == Assume(r, "fluents") IN
  IF f \in DOMAIN q.functions THEN TypeSpecs(q, types)
  ELSE AddParameters(AddFunction(q, f), "functions", f, types)

MakeAction(r, a) == [PushFrame(r) EXCEPT !.name = a, !.parameters = <<>>]
AddAction(r) ==
  [PopFrame(r) EXCEPT
     !.actions = IF r.name \in DOMAIN @ THEN @ ELSE WithEntry(@, r.name, r.parameters),
     !.name = ""]

-----------------------------------------------------------------------------
(* Atoms, applications and terms *)

PrepareAtom(r, p) ==
  LET fresh == p \notin DOMAIN r.predicates
      q     == IF fresh THEN AddPredicate(r, p) ELSE r
  IN  [q EXCEPT !.head = [table |-> "predicates", name |-> p, fresh |-> fresh], !.terms = <<>>]

\* The reward is allowed everywhere.
PrepareApplication(r, f) ==
  LET fresh == f \notin DOMAIN r.functions
      q     == IF fresh THEN AddFunction(r, f) ELSE r
  IN  [IF "rewards" \in r.requirements /\ f = r.reward THEN q ELSE Assume(q, "fluents")
         EXCEPT !.head = [table |-> "functions", name |-> f, fresh |-> fresh], !.terms = <<>>]

Parameters(r) == IF r.head.table = "" THEN <<>> ELSE r[r.head.table][r.head.name]

\* make_term: an unknown variable is entered into the innermost frame (undefined when there
\* is none), an unknown object gets the type the predicate wants in its place.
MakeTerm(r, x) ==
  IF x \in VariableNames THEN
    CASE Find(r.frames, x) # 0 -> [r EXCEPT !.term = [var |-> Find(r.frames, x), name |-> ""]]
      [] Find(r.frames, x) = 0 /\ r.frames = <<>> -> [Fail(r) EXCEPT !.end = "undefined"]
      [] OTHER ->
           LET v == Len(r.variables) + 1
           IN  [Fail(r) EXCEPT !.variables = Append(@, <<x, {OBJECT}>>), !.frames = Insert(@, x, v),
                               !.term = [var |-> v, name |-> ""]]
  ELSE
    LET n    == Len(r.terms)
        type == IF r.head.table = "predicates" /\ Len(Parameters(r)) > n THEN Parameters(r)[n + 1] ELSE {OBJECT}
    IN  [CASE x \in ObjectNames(r) -> r
           [] x \notin ObjectNames(r) /\ r.problem  -> [r EXCEPT !.objects = WithEntry(@, x, type)]
           [] x \notin ObjectNames(r) /\ ~r.problem -> [r EXCEPT !.constants = WithEntry(@, x, type)]
         EXCEPT !.term = [var |-> 0, name |-> x]]

\* The term that has been made in its place: it gives a new predicate a parameter, or has
\* to be of the type of a known one's.
Known(r) == ~r.head.fresh /\ Len(Parameters(r)) > Len(r.terms)
Typed(r) ==
  CASE r.head.fresh -> AddParameter(r, r.head.table, r.head.name, TypeOf(r, r.term))
    [] Known(r)     -> Check(r, Subtype(r.types, TypeOf(r, r.term), Parameters(r)[Len(r.terms) + 1]))
    [] ~Known(r) /\ ~r.head.fresh -> r
WithTerm(r) ==
  CASE r.end # "" -> r
    [] r.end = "" /\ Known(r) /\ Undefined(r, r.term) -> [r EXCEPT !.end = "undefined"]
    [] OTHER -> [Typed(r) EXCEPT !.terms = Append(@, r.term)]
AddTerm(r, x) == IF r.end # "" THEN r ELSE WithTerm(MakeTerm(r, x))
AddTerms(r, xs) ==
  LET after[i \in 0..Len(xs)] == IF i = 0 THEN r ELSE AddTerm(after[i - 1], xs[i])
  IN  after[Len(xs)]

\* make_atom, make_application
MakeAtom(r) ==
  IF r.end # "" THEN r
  ELSE [Check(r, Len(r.terms) = Len(Parameters(r))) EXCEPT
          !.atoms = @ \cup {[table |-> r.head.table, name |-> r.head.name, terms |-> r.terms]},
          !.head = [@ EXCEPT !.table = "", !.fresh = FALSE]]

ReadAtom(r, p, xs)        == MakeAtom(AddTerms(PrepareAtom(r, p), xs))
ReadApplication(r, f, xs) == MakeAtom(AddTerms(PrepareApplication(r, f), xs))

\* make_add_effect, make_delete_effect
ReadChange(r, p, xs) == MakeDynamic(ReadAtom(r, p, xs), "predicates", p)

\* make_assignment_effect
MakeUpdate(r, op, f, constant) ==
  IF "rewards" \in r.requirements /\ f = r.reward
    THEN Check(r, op \in {"increase", "decrease"} /\ constant) ELSE Assume(r, "fluents")
ReadUpdate(r, op, f, xs, constant) ==
  MakeDynamic(MakeUpdate(ReadApplication(r, f, xs), op, f, constant), "functions", f)

\* make_eq_name: a name is a function's or an object's.
ReadEqualTerm(r, x) ==
  CASE r.end # "" -> r
    [] r.end = "" /\ x \in DOMAIN r.functions -> ReadApplication(r, x, <<>>)
    [] OTHER -> MakeTerm(r, x)

\* make_equality: as in the simulator, but it may look into a type that is gone.
Related(r, t, u) ==
  Subtype(r.types, TypeOf(r, t), TypeOf(r, u)) \/ Subtype(r.types, TypeOf(r, u), TypeOf(r, t))
MakeEqual(r, t, fluents) ==
  CASE r.end # "" \/ fluents = <<TRUE, TRUE>> -> r
    [] r.end = "" /\ fluents[1] # fluents[2]  -> Fail(r)
    [] r.end = "" /\ fluents = <<FALSE, FALSE>> /\ t # r.term
         /\ (Undefined(r, t) \/ Undefined(r, r.term)) -> [r EXCEPT !.end = "undefined"]
    [] OTHER -> [r EXCEPT !.atoms = @ \cup
                   IF Related(r, t, r.term) THEN {[table |-> "=", name |-> "", terms |-> <<t, r.term>>]} ELSE {}]
ReadSecond(r, y, fluents) == MakeEqual(ReadEqualTerm(r, y), r.term, fluents)
ReadEqual(r, x, y) ==
  ReadSecond(ReadEqualTerm(Assume(r, "equality"), x), y, <<x \in DOMAIN r.functions, y \in DOMAIN r.functions>>)

\* add_effect_outcome: the sum is checked at every outcome.
ReadOutcomes(r, weights, unit) ==
  LET sum[i \in 0..Len(weights)] == IF i = 0 THEN 0 ELSE sum[i - 1] + weights[i]
  IN  Check(Assume(r, "probabilistic-effects"), \A i \in DOMAIN weights : weights[i] <= unit /\ sum[i] <= unit)

-----------------------------------------------------------------------------
(* Problems *)

\* make_problem; a domain that is unknown is an empty one from here on.
MakeProblem(r, known) ==
  [IF known THEN r ELSE [Fail(Start) EXCEPT !.frames = r.frames, !.quantified = r.quantified, !.reward = r.reward]
     EXCEPT !.problem = TRUE, !.objects = None]
=============================================================================

# DeepSym: a verification development

DeepSym learns symbols and rules from a robot's interaction with objects, writes them
as a probabilistic PDDL domain, plans in that domain with *mini-gpt* against the
simulator *mdpsim*, and executes the plan found. This directory holds TLA+ models of
the parts of the repository that have behaviour worth checking, the TLC runs that check
them on small instances, and TLAPS proofs of the properties that matter most.

## 1. The system

### 1.1 Components

| component | state it keeps | operations | modules |
|---|---|---|---|
| rule learning: `learn_rules.py`, `utils.py` | the decision tree, the calls of `recurse` still open, the rules | `tree_to_code`, `rule_to_code` | `LearnRules` |
| scene, rounds, plan, execution: `recognize.py`, `parse_plan.py`, `execute_plan.py`, `make_plan.sh` | the atoms of the domain, `planresult.txt`, `plan.txt`, the level of the arm | the domain's actions, end of a round, parse, execute a line | `Stacking` |
| simulator session: `mdpsim/mdpserver.cc`, clients `mini-gpt/client.cc`, `mdpsim/client.cc`, `mdpclient.cc` | locals of the server thread, locals of the client, the TCP connection, the clock | one per XML element written or read | `MdpSession`, `SessionPromise` |
| XML reader: `mdpsim/strxml.cc` | the bracket read ahead (a static variable), the open elements of each thread | `next_token`, `do_node`, `parse_node` | `XmlReader` |
| planner LRTDP: `mini-gpt/algorithms.cc`, `algorithms.h`, `hash.cc`, `planners.h` | the hash table (values, labels), the stacks of a trial and of a check | trial, `checkSolved`, backup, answer | `Ssp`, `SspOptimality`, `Lrtdp`, `LrtdpOptimality` |
| other planners: `mini-gpt/algorithms.cc`, `planners.h` | hash entries with marks and indices, the state space, the last action | sweep, trial, depth-first labelling, answer | `SspOptimality`, `Algorithms`, `AlgorithmsOptimality` |
| heuristic search: `mini-gpt/algorithms.cc`, `queue.h` | the table of IDA*, the priority queue and the closed entries | an iteration of IDA*, expand, answer | `PriorityQueue`, `Search` |
| heuristics: `mini-gpt/heuristics.cc`, `problems.cc`, `graph.cc` | relaxations, mutexes, orbits, pattern databases | relax, evaluate a state | `Relaxation`, `Heuristics`, `PatternDatabases`, `Evaluation` |
| PDDL semantics: `{formulas,expressions,effects,actions,problems,states,rational,types}.cc` of both programs | the simulator's state, the planner's flattened problem and expected states | ground, flatten, translate, expand; hold, sample, affect | `Rational`, `Types`, `Pddl`, `Simulator`, `Planner`, `PddlAgreement` |
| planner on decision diagrams: `mdpsim/mtbdd.cc`, `mtbddclient.cc` | variables, transition matrices and rewards of the actions, the value table | collect variables, one matrix per action, sweep, decide | `Mtbdd`, `PddlAgreement` |
| parsers: `mdpsim/parser.yy`, `mini-gpt/parser.y`, tables of types, terms, predicates, functions | the tables, the frames of variables, the flags of the grammar | one per semantic action | `Types`, `SimulatorParser`, `PlannerParser`, `Declarations` |
| hash tables of mini-gpt | buckets, primes | insert, rehash, `prime` | entries only (`Ssp`, `Algorithms`, `Search`) |
| option tables; networks, clustering, vision, arm motion | | | not modelled: real-valued data, start-up |

### 1.2 How they interact

`learn_rules.py` writes the domain once. For every scene `make_plan.sh` has
`recognize.py` write a problem, starts mdpsim and the planner on the two together, and
runs `parse_plan.py` on what the planner printed; `execute_plan.py` executes the result.
mdpsim runs one thread per connection; thread and client exchange XML elements and share
nothing else, but all threads of the server share the static variables of the XML reader
and of the id file. The planner keeps its hash table over all rounds of a session; client
and planner are one thread. Planner and simulator each parse and transform the problem
file by themselves and must come to the same transition system.

### 1.3 What is hard about it

* **Session**: a round may end for five reasons, some at the same moment; either side may
  be gone while the other writes; times come from three clocks; the client decides on a
  state and the server applies the answer later.
* **XML reader**: threads at different characters of different connections, connections
  cut off anywhere.
* **LRTDP**: a label says that a whole subgraph has converged, while trials, checks and
  backups of many rounds go on writing the values it rests on.
* **The other planners**: values written by sweeps, trials and searches in any order; marks
  that one depth-first search leaves to the next.
* **Heuristic search**: what one question leaves in the table is used by all later ones;
  a queue whose entries are looked for by a key that changes.
* **Heuristics**: lower bounds of the distance to the goal, each under conditions that the
  code nowhere states.
* **PDDL**: two implementations of the same semantics, one of them after a normal-form
  transformation; probabilities that do not add up to 1. The planner of `mtbddclient` is a third:
  it turns every action into a matrix and a table of rewards before it iterates.
* **Parsers**: two parsers with global tables, names that are declared by their first use,
  a hierarchy whose closure is kept up to date in any order of declarations.
* **Pipeline**: a text trace of a hundred rounds as the only interface between planner and
  parser; counters that lag behind the stack they count; misplaced objects.

`PROJECT.json` lists these hazards at their lines, with the properties for each.

## 2. Modules and the code they stand for

Every definition that models code is mapped to its lines in `PROJECT.json`. Operators
whose name ends like another's with a twist (`TimeLeftUncut`, `CrossProductNoRest`) are
marked *Mutant* where they stand: no specification uses them, they show that a property
notices such a change of the code.

**MdpSession.** One connection. `sPc` and `cPc` are the points at which `host_problem` and
the client's constructor wait or write; every action reads at most one element and writes
what the code writes before it next reads or checks the clock. The connection is two
queues and two flags: a read of an empty connection blocks until the peer has closed; the
first write to a closed peer is lost and answered by a reset; a write after the reset may
raise SIGPIPE, which nothing in mdpsim handles, and ends the process. `Tick` advances
`session_timer` at any time, so a time limit can pass between any two steps. The planner's
decision is any member of `Decisions`, the simulation's next state any in `Succ`.
`total_turns` starts with any value of `Garbage`, because the code gives it none.
`SessionPromise` is the abstract specification: rounds end one after another and a report
counts them; `KeepsPromise` is the refinement, with the rounds the client has *read*.

**XmlReader.** `next_token` one character class at a time: `<`, the name, `>`, text.
`lastChar` is the static `last_char`; `Concurrent` says whether connections overlap. A
connection may be cut after any symbol (`ReadFails`). What is sent is assumed to be what clients
and the server write (`ScriptsAssumption`): the words of an element are well nested, two
texts have a tag between them, and there are no brackets in names or texts.

**Ssp, SspOptimality, Lrtdp, LrtdpOptimality.** `Ssp` is the problem and `bestAction`; `Lrtdp` one action
per iteration of the loops of `trial` and `checkSolved`, over a value function `V`
(fresh entries hold the heuristic's value, which is why `V` is total) and the labels.
`SspOptimality` adds the optimal values and what an admissible heuristic is, `LrtdpOptimality`
what the labels and answers mean by them. `SspOptimality` takes the optimal values as a constant
`VStar` and the bound `Horizon` of the steps in which they are reached: `OptimalAssumption` says
that they are the least fixed point of the lookahead, and TLC evaluates it.
Doubles are integers: a value counts units of which an action costs `CostUnit`, and an
expectation is rounded down. Like floating-point arithmetic this is a monotone function
into a finite ordered set, which is all the properties use; results about `Epsilon` are
about this arithmetic.

**Algorithms, AlgorithmsOptimality.** `vi`, `asp` and `hdp(0,j)` over the same `Ssp`, one
action per iteration of a loop and per call or return of the depth-first search, whose
stack is `calls`; with noise an answer may be any enabled action. Of the index only what fits
into the unsigned short `idx` is kept (`MaxIndex` is `USHORT_MAX`, which also means unvisited):
it goes on from search to search of a solve and comes round. The entry that gets the last index
counts as unvisited while it is on the stack, and may be visited again, which ties the list
linked by `elink` into a ring (`back`); the loop that takes a component from the list may then
go round for ever or come to its end (`Lost`). `spent` says that the last index was given.
`AlgorithmsOptimality` says what values, marks and answers mean.

**Relaxation, Heuristics, PatternDatabases, Evaluation.** `Relaxation` is
`problem_t::compute_weak_relaxation`, `_medium_` and `_strong_` on flattened problems,
`Heuristics` atom-min-1-forward, atom-min-m-forward and ff, `PatternDatabases`
atom-min-m-backward: mutexes by refinement, orbits as cliques, systems by regression,
databases as sets of disjoint systems. They are operators (TLC evaluates them; several are
recursive); `Evaluation` is the state machine around them: a problem, its relaxations, its
databases, and the state a round has come to.

**PriorityQueue, Search.** The queue of `queue.h` as a record of buckets and heap; IDA* with
and without its table and the bounded Dijkstra search answer questions one after another,
the table and the closed entries being kept in between.

**Rational, Types, Pddl, Simulator, Planner, PddlAgreement.** `Pddl` has the formulas,
expressions and effects of both programs as tagged records; `Simulator` and `Planner` are
what each of them makes of a problem: construction with its simplifications, grounding of
parameters, quantifiers, static atoms and values, then truth and sampling in the one, and
`flatten`, `translate` and `expand` in the other. Probabilities are the exact rationals of
`Rational`. A sampled effect is modelled by all its samples with their probabilities.
`PddlAgreement` plays the two against each other as the client does, which, built without
`NDEBUG`, compares every state it is sent with those it expects.
`Mtbdd` is the planner of `mtbddclient`: which atoms get a variable, the matrix and the reward of
every action, the sweeps of the value iteration until two values differ by less than a tolerance,
and the action taken. A decision diagram is the function it stands for; the library that stores
it is not modelled. The diagram of an effect is the recursion over the effect that the code does.

**SimulatorParser, PlannerParser, Declarations.** Every semantic action of a parser is an
operator on the record of its variables and of the tables it fills. `Declarations` reads a
file section by section and gives every entry to both. What may be in the file is chosen
from a *text*: sets of entries and the most entries of every section. Undefined behaviour
(a variable entered into no frame; in mini-gpt a union type whose address outlives it) ends
the reading, as an exception does.

**LearnRules, Stacking.** `LearnRules` is the recursion of `tree_to_code` with its call
stack as a variable: one action per inner node, one per leaf. `Stacking` EXTENDS it and
goes on with the domain so learnt: rounds of the domain's actions (which one is played is
left open, the planner is some strategy among these), the lines they leave, the parse of
these lines, and the execution. A line is what `parse_plan.py` looks at: whether it begins
with `    +`, and the letter it tests. `rounds` is a history variable that only properties
read.

**The `_proof` modules.** One for each module with theorems, beside it (the rules of `LearnRules` are
in `Stacking_proof`), and `Recursion_proof`: what
`Last`, `Front`, `Append`, `Reverse` and `ToSet` do to sequences, and that a function defined by
recursion over the natural numbers exists.

## 3. Runs

| run | module, cfg | what it shows | bounds, and why they are enough |
|---|---|---|---|
| `session` | `MCMdpSession`, `session.cfg` | `TypeOK`, `ActOnCurrentState`, `TotalTimeWithinLimit`, `KilledOnlyByDeserter`, `SessionEnds`, `KeepsPromise` | 2 rounds, 2 turns, limit 2 of a clock to 3, any answer, a kill anywhere: a first and a last round and turn, time out before, in and after each; a round with the goal already reached |
| `xml_reader` | `MCXmlReader`, `xml_reader.cfg` | `ReadsWhatWasSent` for connections one after another | nested, empty and malformed elements, cut anywhere, 2 connections so that one can leave something to the next |
| `xml_reader_concurrent` | `xml_reader_concurrent.cfg` | *violated*: `ReadsWhatWasSent` | 2 threads |
| `lrtdp` | `MCLrtdp`, `lrtdp.cfg` | `NeverOverestimates`, `SolvedIsClosed`, `ConsistencyKept`, `AnswersAreOptimal`, `Answered` | 6 states: a loop, a gamble, a trap, a dead end, a goal with an action; 162 admissible heuristics, 36 of them consistent; 6 977 states |
| `algorithms` | `MCAlgorithms`, `algorithms.cfg` | `NeverOverestimates`, `ViOptimal`, `MarkedWhenClosed`, `AnswersDefined`, `Answered` | 7 states with nested loops that unlikely outcomes leave, so that searches meet entries on the stack and entries marked before; 2 trials of 2 steps, horizon 1, noise; indices up to 3, so that some solves run out of them, visit an entry twice, and are lost; 269 935 states |
| `search` | `MCSearch`, `search.cfg` | `QueueSound`, `AnswersExact`, `SearchEnds` | 9 problems on two counters, bounds 0, 2 and 4 of the Dijkstra search, two guides; any number of questions about any states; 162 573 states |
| `evaluation` | `MCEvaluation`, `evaluation.cfg` | `AtomMin1Admissible`, `AtomMinMAdmissible`, `FfTellsGoalsAndDeadEnds`, `OrbitsCovered`, `PatternsAdmissible` | some 2000 problems of two or three actions over 4 atoms, m = 1 and 2: orbits of two and three atoms, operators that share them; 13 848 states |
| `pddl` | `MCPddlAgreement`, `pddl.cfg` | `FormulasAlike`, `SameOdds`, `StateExpected`, `PassIsGreedy` | 3073 problems: all preconditions of two levels and their negations over 3 atoms, all effects of up to three levels in the fragment below, parameters, types, quantifiers, static atoms and values, 32 with rewards in them; gamma 1/2 and tolerance 1/4, so that the value iteration stops after a few sweeps; 92 606 states |
| `pddl_single_outcome` | `pddl_single_outcome.cfg` | *violated*: `StateExpected` | one action |
| `declarations` | `MCDeclarations`, `declarations.cfg` | `HierarchyExact`, `ReadAlike`, `WellTyped`, `BindersExact`, `MetricDynamic` | five texts: up to 4 declarations over 4 types with unions; names declared twice, by use, and in domain and problem; two levels of quantifiers with shadowed and repeated variables; fluents and equality; rewards, initial values and requirements; 4 588 044 states |
| `learn_rules` | `MCLearnRules`, `learn_rules.cfg` | `RulesFollowTree`, `OddsAddUp` | all trees of depth two over the five features, with three kinds of leaves, and trees that test four features on a path |
| `stacking` | `MCStacking`, `stacking.cfg` | `TowerCounted`, `OneTop`, `PlansAreRounds`, `ArmBuildsTower` | 3 objects of different sizes, 2 rounds with every order and effect, a trivial and a deeper tree, two goals: a plan of two steps, a failed round before and after a good one |

`learn_rules`, `stacking`, `declarations`, `evaluation`, `search` and
`algorithms` do not check for deadlock: scripts and parsers end, a problem may have no enabled
action, a planner that gives up is not asked again, and a search may be lost.

**The fragment of `pddl`.** The two semantics agree, and the run checks, as long as no atom
is both added and deleted or both tested by a condition and changed, no conditional effect
stands in a conjunction under another condition or under a disjunctive one (the planner
refuses these), an uncertain effect is not alone in an `and`, no quantifier is left without
parts and no goal grounds to FALSE. The domain `learn_rules.py` writes (see
`save/stable1/domain.pddl`) stays inside. Outside it the two differ: an atom an action both
adds and deletes ends up deleted for the planner and added for the simulator; an empty
conjunction is flattened to FALSE; a goal that grounds to FALSE becomes a list without atoms
and so every state a goal of the planner. Of the goals with quantifiers those are left out that
have an atom over objects alone under a quantifier: mdpsim does not ground its goal beforehand (the
call at `problems.cc:166` is switched off) but instantiates it in every state it tests, and there
such an atom is left as it is and not looked up (`formulas.cc:312`), so that the goal may not be
seen to hold. `mtbddclient` refuses
12 of these problems (`Understood`), and the run leaves it out of them.

**The fragments of `evaluation`.** Each property of a heuristic names what it needs, and was
found to fail without: atom-min-1 is one too high for a disjunctive goal (the relaxation
makes an action of it, and `goal_atom()` is asked of the original problem); atom-min-m needs
at most two preconditions and a goal of at least m atoms, because its loop stops one
precondition early; ff never schedules an operator without preconditions, against the
comment at `heuristics.cc:1634`; the sums of the pattern databases need operators that
change one orbit, and only one they have a precondition on.

**The fragments of `search`.** `AnswersExact` needs a guide that is 0 in goals only when the
table is kept: IDA* tests the goal before the threshold, and so accepts a goal one step beyond
it, with an answer one too high. The Dijkstra search is exact where regression undoes the
operators, which it does not when what they add may be true before.

**The fragments of `declarations`.** `ReadAlike` leaves out the reward, which only mdpsim keeps out
of formulas, the functions only one of the programs has by itself (`total-time` and
`goal-achieved` in mdpsim, `goal-probability` in mini-gpt where effects are probabilistic), and files that one of them does not read to the end:
`(either)` without a type other than `object` is an exception in mdpsim and `object` in
mini-gpt. `MetricDynamic` leaves out problems that require rewards once more: there
`add_function` makes the reward of the domain static again, and mdpsim refuses the metric,
unless `:init` gives the reward a value. Of what instantiating a problem may throw only this is
modelled (`Instantiate`), not what instantiating its actions may.

**Fairness.** `MdpSession` assumes weak fairness of the server thread and of the client:
both are scheduled, and `decideAction` returns. It assumes nothing of the clock or of
crashes, so sessions end without the time limit's help. `Lrtdp` assumes weak fairness of
the planner's step (`Compute`), and strong fairness of each sampled outcome (`TrialMove`): a trial that passes a state for ever comes
to each of its outcomes, as `drand48` picks each with positive probability. `Algorithms`
assumes weak fairness of the planner's step only, because its trials have a cutoff; `Search`
of the expansion of the Dijkstra search, the recursion of IDA* being one step. The other
specifications have no fairness.

## 4. Proofs

`tlapm` checks all of these for every value of the constants under the modules' named
assumptions.

* `MdpSession_proof!TypeCorrect`. `TypeOK` alone is not inductive: that `round` and `turn`
  stay in range needs `Located` (at which points of `host_problem` the loop conditions have
  just been tested), and that `problems` does not fall below zero needs `Employed`.
* `MdpSession_proof!TotalTimeCorrect`. A round adds at most what was left of the session when
  it began, and it is measured from a later point; `TimeInv` says that the total never
  passes the clock at which the current round began, hence total and time left together
  stay within the limit.
* `MdpSession_proof!ActionsAreTimely`: `ActOnCurrentState`. `TokenInv`: while the server waits
  for an action there is at most one offer or one answer on the wire, never both, and it
  carries the simulation's state; at all other points there is none.
* `MdpSession_proof!OnlyDesertersKill`: `KilledOnlyByDeserter`. `DeserterInv`: a client that
  closed the connection without deserting has read a report, and the server writes one only
  as its last word.
* `MdpSession_proof!PromiseIsKept`: the refinement `KeepsPromise`, for a client with one
  problem (`NumProblems = 1`, an assumption of the theorem; with two the client never
  returns, section 5). `Turns`: server and client take turns, so at most one request and one
  end of a round are under way, and where the client stands bounds where the server can be.
  `Rounds`: the rounds left and those seen make up the limit. `Goals`: what the server counts
  is what the client has seen and the end that is under way. Each step of the session is then a
  step of `SessionPromise` or leaves its variables alone.
* `LrtdpOptimality_proof!StaysAdmissible` and `!StaysConsistent`: `NeverOverestimates` and
  `ConsistencyKept`, and `AlgorithmsOptimality_proof!PlannersStayAdmissible` the first for vi,
  asp and hdp. All rest on `SspOptimality_proof`. That the lookahead is monotone is proved,
  not assumed: its sum over the outcomes is a function of the number of outcomes added, and
  a least number at which two such sums were in the wrong order leads to a contradiction
  (`SumsMonotone`; the induction theorems of the library cannot be used). `bestAction` returns
  a least value (`BestIsLeast`). Each step of each planner leaves the table alone or writes one
  entry with its lookahead, with 0 in a goal or with the dead-end value where nothing is
  enabled (`BackedUp`, one lemma `StepBacksUp` per planner); such a write
  keeps values below the optimum (`BackedUpBelow`), and consistent values consistent
  (`BackedUpConsistent`). Assumed are the optimal values, as a fixed point of the lookahead
  (`OptimalAssumption`), and an admissible heuristic (`AdmissibleAssumption`).
* `LrtdpOptimality_proof!LabelsAreClosed`: `SolvedIsClosed`, that every labelled state has a small
  residual and its greedy action leads to labelled states only, or it is a goal, a dead end, or
  the parent of a dead end found late. It holds for a consistent heuristic: then values only rise
  (`StaysConsistent`), so a labelled state, whose outcomes keep their values being labelled, keeps its
  greedy action. `ClosedInv` says what `checkSolved` knows half way: all it has met is labelled,
  closed or waits in `open` (`Frontier`), and while no residual was met the closed states lead to such
  states only (`Passed`).
* `LrtdpOptimality_proof!AnswersOptimal`: `AnswersAreOptimal`, from the same invariant without the
  exception, which a heuristic that knows the dead ends never makes. A labelled set closed under greedy
  actions without residual is a fixed point of the lookahead; `SspOptimality_proof!OptimalWhenClosed`
  shows by induction on the steps left that no policy costs less on it than its values say, and
  admissibility that none costs more.
* `AlgorithmsOptimality_proof!AnswersExist`: `AnswersDefined`, with `DefinedInv`: a state that is asked
  has an action, and the greedy one exists.
* `AlgorithmsOptimality_proof!MarksAreEarned`: `MarkedWhenClosed`, the labelling of hdp, which is
  Tarjan's algorithm on the graph of greedy actions and likely outcomes. `LabelInv` is about the
  suspended calls: `Stacked` (indices grow along the stack, every state of it was reached from an open
  call), `Called` and `Asked` (every call is for an outcome of the one before it), `Settles` (the
  outcomes of a state whose search has not failed are marked, on the stack, or still to be searched, and
  `low` accounts for them). So when a call returns with `low` equal to its index, what is above it on
  the stack leads only to itself and to marked states. That holds while indices last: the
  invariant is `Searched`, of which `LabelInv` is the part under `~spent`, and `Basics` the part
  that is kept beyond (the entries with an index are on the visited list, and are rid of it when
  the search ends), so that the next solve begins as the first one did. No bound of the number
  of states is assumed: a solve that runs out of indices is excepted by the property itself.
* `AlgorithmsOptimality_proof!ViKnowsTheCosts`: `ViOptimal`. `ViInv`: while the state space is
  generated, the outcomes of what is in it are in it or wait in the queue; a sweep without a residual has
  left every state behind it equal to its lookahead, because nothing has been changed.
* `Declarations_proof!HierarchyIsClosed`: `HierarchyExact`. `HierarchyInv`: while the types are read,
  the table is a strict order, and the least one that contains what was declared (`Least`), or a cycle
  has been declared and the file refused (`Cyclic`). Linking two types adds everything below the one
  below everything above the other, which keeps that (`LinkedIs`); the closure the property speaks of is
  the least transitive relation (`ClosureIs`). Assumed of the texts are finite lists
  (`TextsAssumption`).
* `Declarations_proof!BindersAreExact`: `BindersExact`. `BindersInv`: the list of quantified variables is
  made of one segment for each open quantifier, a mark and then its variables (`Marked`), and what
  has been closed or is an action's is spelled as declared (`Spells`). Opening a quantifier pushes a
  segment, closing it pops the last (`Pushed`, `Popped`); everything else that is read leaves the
  binders alone or the file is refused (`Kept`, one lemma per operation of the parser).
* `Declarations_proof!MetricStaysDynamic`: `MetricDynamic`. `MetricInv`, on top of `BindersInv`: the two
  metrics of a problem without reward are in the table from the start, so that nothing adds them again
  and makes them static (`Reserved`); a reward that is required and that an effect has changed is in the
  table and dynamic, unless it was required again (`RewardDynamic`). It needs that no other step
  makes a known function static, removes one, or requires rewards (`Quiet`). Assumed of the texts is that
  quantifiers require none but the three requirements of quantifiers, and that no function has the empty
  name.
* `Declarations_proof!AtomsStayTyped`: `WellTyped`, of both parsers. `WellTyped` is not inductive: what an
  atom was checked against may change later, when the predicate or the name of a term is declared after it
  was used. `TypedInv` says why it does not. As long as the file is accepted (`Sound`), heads have lists of
  parameters, the terms of an atom exist and fit (`AtomOk`), and what the frames bind are variables that
  are there (`FramesHold`). By the section that is read (`At`): before the actions there are no atoms,
  so declarations may change parameters (`Early`); a name of the domain is no object before the problem
  begins (`DomainOnly`), and until `:init` the atoms refer to constants of the domain only, so the
  objects of the problem are nobody's terms (`Settled`, `Late`); after that, heads and names get in by use
  alone, and a head gets parameters only with the atom that declares it, before that atom is made
  (`Onward`). What the parsers share is shown equal once (`Shared`); where they
  differ, they assume requirements and keep rewards and dangling types, in fields no atom depends on
  (`Idle`), or end the reading. That only actions and goals have scopes to close comes
  from `BindersInv`. Assumed of the texts is that they are lists of names and types (`TextsAssumption`).
* `Declarations_proof!FilesAreReadAlike`: `ReadAlike`. `MatchedInv` relates the two records all the way, and
  not only where files end: as long as both programs read on and the file used nothing of its own to one of
  them (`Clean`), they have accepted it alike, and while it is accepted the records are `Twins`, equal in
  the fields of `Told`, with the same functions but for `OwnFunctions`, and with the same predicates
  static. Each operation of one parser beside that of the other keeps them so (`Together`), which is shown
  one operation at a time and composed (`TogetherTwice`). Two facts make it compose: nothing takes back that
  a file was refused, that the reading ended, that rewards were required, or an atom (`Grows`), so
  that nothing more need be said of records that came apart (`MatchedSpoiled`); and what one program
  does alone, assume a requirement, make a function of its own, concerns no field of
  `Told` (`Aside`). Assumed of the texts is `TextsAssumption`, and of the weights that they are natural
  numbers of quarters.
* `Stacking_proof!RulesDecideAsTheTree`: `RulesFollowTree`. `RulesInv`: every pair of objects follows
  the path of exactly one open call, or matches exactly one rule, and then that rule has the odds of the
  pair's leaf. Assumed of the trees is that no feature is tested twice on a way and none after the five
  there are (`TreesAssumption`).
* `Stacking_proof!OddsNeverExceedOne`: `OddsAddUp`, together with `RulesInv`, from which the leaf of an open
  call is a leaf of the tree (`LeavesHaveSamples`). Rounding n outcomes adds n/2 thousandths at most
  (`RoundedIs`), the largest of them is 1000/n thousandths at least (`NoMoreThanLargest`), and
  so the excess can be taken from it without making it negative as long as n * n <= 2000
  (`ResidualFits`). That bound is assumed of the effects (`CountsAssumption`); `cluster.py` makes six. It is
  needed: with 45 outcomes the argument fails, and with many more the claim does (1999 equal counts
  become a thousandth each, and the first of them -998).
* `Stacking_proof!TowerIsCounted`: `TowerCounted`. `Sound` adds that an object in the stack is
  not on the table any more, so that placing one makes the stack larger by exactly one, and
  that before there is a base nothing is placed and no flag is set, so that making the
  base does not lose an object still to be counted.
* `Stacking_proof!OneTopOnly`: `OneTop`. `TopInv` is `OneTop` together with the fact that
  nothing in the tower of the round is still on the table, for which the object placed next
  is a new one.
* `Stacking_proof!PlansAreThoseOfRounds`: `PlansAreRounds`. `PlayInv` speaks of the trace as if it were
  parsed already: what `parse_plan.py` would make of the lines written so far is the list of the rounds
  kept so far, and the steps of the current round. `AllRead` is the parse as a recursive function, and
  appending a line is one more step of it.
* `Stacking_proof!ArmBuildsTheTower`: `ArmBuildsTower`. `ArmInv`: what has been placed is what the plan
  said so far, stands where the base of the round's tower does, and the level is the size of what is
  under it.
* `XmlReader_proof!ReadsWhatWasSentAlone`: `ReadsWhatWasSent` where connections do not overlap
  (`Concurrent = FALSE`, an assumption of the theorem; with overlap it is false, section 5). `XmlInv`: a
  thread that serves its connection has parsed so many elements whole and so many words of the next
  (`At`), and where that leaves off in the symbols, the tokenizer is between two tokens, has one, or
  remembers the bracket behind one (`TokenAt`). Elsewhere nothing is remembered but a ">" that a
  refused tag left, which the next connection gets as its first token and drops (`Stale`). Where the
  words of an element are among its symbols comes from `Recursion_proof!FlattenIs`.

A recursive function is reasoned about with `Recursion_proof!RecursionExists`: the library's induction
theorems cannot be used, so that a least argument at which a claim fails stands for an induction.

Only model-checked, and why:

* liveness (`SessionEnds`, `Answered`, `SearchEnds`) and everything that needs ENABLED: out of the prover's
  reach;
* `FormulasAlike`, `SameOdds`, `StateExpected`, `PassIsGreedy`, and the properties of `evaluation` and
  `search`: the operators are recursive over formulas, effects and states, which the prover refuses;

## 5. What the runs found

Two runs show a disagreement between the code and what it says of itself:

1. *Static read-ahead* (`xml_reader_concurrent`): two clients at once exchange brackets.
2. *Lone outcome* (`pddl_single_outcome`): `(and (probabilistic 1/2 a))` is certain for the
   planner, which stops at the state in which it did not happen.

Others were met while the properties were stated, and are the reason for the conditions in
them:

* after `<error>` the planner quits; the server goes on to write `end-round` and
  `end-session`, and the second write to the closed connection ends the process with all
  other sessions (`KilledOnlyByDeserter` says that nothing else does);
* `mdpclient` with two problems (`NumProblems` = 2) waits for ever, because the server's thread
  returns after one session and leaves the socket open;
* a dead end discovered inside `checkSolved` changes its value after its parent was tested,
  and the parent is labelled all the same (`FoundDeadEnd`);
* the depth-first search of hdp keeps its index in an unsigned short and does not set it back
  between the searches of a solve. The visit that gets index 65535 leaves an entry that looks
  unvisited; from then on indices collide, a label may be given too early, and the loop that
  labels may not end (`Lost`). `MarkedWhenClosed` and `Answered` speak of solves that have not
  come so far; as the visits of all its searches add up, a space of far fewer states can be enough.
  In the problem of the run labels are earned even so, and some
  searches are lost; if the first action of `b` leads to `a` and `i` instead, TLC finds an early
  label when the premise `~spent'` is dropped;
* a round cut off by the time limit is counted, and may be executed, as a plan
  (`PlansAreRounds` says which rounds are counted);
* a heuristic may be admissible and not consistent; then a value may exceed its lookahead, a backup lowers
  it, and a label given on the strength of the higher value is not taken back. `SolvedIsClosed` and
  `AnswersAreOptimal` ask for a consistent heuristic, and the latter for one that knows the dead ends and
  for `Epsilon` = 0: a tolerated residual may add up over the steps of a plan;
* `generate_state_space` takes an initial state that is listed twice into the space twice; `ViOptimal`
  says that otherwise every state is in it once;
* in `mtbdd.cc` an atom that only a precondition or a condition tests is no variable and counts as false
  (the comment above `EffectVariables`' code speaks of conditions too, and the code leaves them alone);
  and the reward of the last outcome is weighted with the probability that nothing happens, when
  there is one (line 655, after line 626 has moved `n`). The problems of `pddl`
  stay clear of both: rewards stand where the outcomes add up to 1;
* those of the fragments above.

## 6. Not modelled, and the plan

Left out of the modelled parts: the id file and the log files of mdpsim (two sessions may
get one id, and a crash while the file is written begins the ids anew; nothing else in a
session depends on them), `goal-achieved`, numeric fluents in the planner's states (it does
not keep them either), the bits of packed states and their digests, the bucket lists, primes
and rehash of the hash table, the scaling of heuristics and the heuristic one step ahead,
orbits and systems named in a file, how decision diagrams are stored, and the output of `mtbdd.cc`. In
`Stacking`, rounds that end because the planner returns no action (`client.cc:255`) are left out,
to which the planner does not come with ff, the heuristic `make_plan.sh` asks for; and so are the
rounds the server still opens after its time has run out: they bring no action, and their lines
are skipped. The random choices of the simulation are
nondeterministic throughout.

Next, in this order: `HashTable` with rehash and atom numbering; the heuristic one step
ahead; the id file with its crash between truncation and write.

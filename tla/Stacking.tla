------------------------------ MODULE Stacking ------------------------------
(***************************************************************************)
(* The pipeline around the planner, one run of make_plan.sh and            *)
(* execute_plan.py: rules are learnt (LearnRules), the recognized scene    *)
(* becomes a problem (recognize.py), rounds of the domain written by       *)
(* learn_rules.py are played against the simulator and leave their lines   *)
(* in planresult.txt, parse_plan.py makes a plan of these, and the arm     *)
(* executes it.  Which action is played is left open.                      *)
(*                                                                         *)
(* The flags roll and tumble an effect may set are not kept: nothing reads *)
(* them.                                                                   *)
(***************************************************************************)
EXTENDS LearnRules, FiniteSets

CONSTANTS
  Objects,     \* names of recognized objects
  Scenes,      \* [type, relation] records: the outputs of the two encoders
  Size,        \* [Objects -> Nat]
  Goals,       \* pairs of a height and a number of objects, as in (H3) (S4)
  Rounds,      \* rounds of a session: -R of mdpsim
  Levels       \* 6: the domain counts up to H6 and S6

ASSUME StackingAssumption ==
  /\ Rounds \in Nat \ {0} /\ Levels \in Nat
  /\ Goals \subseteq (0..Levels) \X (0..Levels) /\ <<0, 0>> \notin Goals
  /\ Size \in [Objects -> Nat]

VARIABLES
  stage,    \* "learning", "planning", "parsing", "executing", "done" or "failed"
  scene,    \* the recognized scene
  goal,     \* the goal asked for
  world,    \* the atoms of the simulation's state
  output,   \* planresult.txt
  rounds,   \* history, read by the properties only: the stack steps of each round, the
            \* tower they built, whether one missed, and how the round ended
  plans,    \* plans of parse_plan.py; the first is written to plan.txt
  steps,    \* lines of plan.txt not executed yet
  arm       \* execute_plan.py's base_level, the objects it has placed, and objLocs

simVars  == <<world, output, rounds>>
execVars == <<plans, steps, arm>>
vars     == <<ruleVars, stage, scene, goal, simVars, execVars>>

-----------------------------------------------------------------------------
(* The domain's predicates, and its actions as sets of next states. *)

InitWorld == [base |-> FALSE, stacked |-> FALSE, inserted |-> FALSE,
              pickloc |-> Objects, instack |-> {}, stackloc |-> {}, H |-> {0}, S |-> {0}]

Reached == /\ goal[1] \in world.H /\ goal[2] \in world.S
           /\ ~world.stacked /\ ~world.inserted

\* Mutant: the object below can still be stacked on.
PlacedKeepingBelow(b, a, isStacked) ==
  [world EXCEPT !.stacked = @ \/ isStacked, !.inserted = TRUE, !.pickloc = @ \ {a},
                !.instack = @ \cup {a}, !.stackloc = @ \cup {a}]

Placed(b, a, isStacked) ==
  [world EXCEPT !.stacked = @ \/ isStacked, !.inserted = TRUE, !.pickloc = @ \ {a},
                !.instack = @ \cup {a}, !.stackloc = (@ \ {b}) \cup {a}]
Missed(a) == [world EXCEPT !.pickloc = @ \ {a}]

StackEnabled(rule, b, a) ==
  /\ ~world.stacked /\ ~world.inserted
  /\ a \in world.pickloc /\ b \in world.stackloc
  /\ scene.type[b] \in rule.below /\ scene.type[a] \in rule.above
  /\ a # b /\ scene.relation[<<b, a>>] \in rule.relation

StackOutcomes(rule, b, a) ==
  LET possible == {Effects[k] : k \in {j \in DOMAIN rule.odds : rule.odds[j] > 0}}
  IN  {Placed(b, a, TRUE) : e \in possible \cap {"stacked"}}
        \cup {Placed(b, a, FALSE) : e \in possible \cap {"inserted"}}
        \cup {Missed(a) : e \in possible \ {"stacked", "inserted"}}
        \cup (IF AddUp(rule.odds) < Whole THEN {Missed(a)} ELSE {})

BaseMade(o) == [world EXCEPT !.base = TRUE, !.stacked = TRUE, !.inserted = TRUE,
                             !.pickloc = @ \ {o}, !.stackloc = @ \cup {o}]
HeightIncreased(i) == [world EXCEPT !.H = (@ \ {i}) \cup {i + 1}, !.stacked = FALSE]

\* Mutant: the object that was counted stays to be counted.
StackIncreasedAgain(i) == [world EXCEPT !.S = (@ \ {i}) \cup {i + 1}]
StackIncreased(i)      == [world EXCEPT !.S = (@ \ {i}) \cup {i + 1}, !.inserted = FALSE]

-----------------------------------------------------------------------------
(* The lines the planner prints, by what parse_plan.py looks at: whether   *)
(* they begin with "    +", and the letter after the bracket.              *)

StackLine(b, a) == [plus |-> TRUE, letter |-> "s", step |-> <<b, a>>]
OtherLine       == [plus |-> TRUE, letter |-> "i", step |-> <<>>]   \* (increase.. or (makebase
DoneLine        == [plus |-> TRUE, letter |-> "<", step |-> <<>>]   \* (</done>)
ClientLine      == [plus |-> FALSE, letter |-> "c", step |-> <<>>]  \* <client>: ... dead-end!!!
RoundLine       == [plus |-> FALSE, letter |-> "r", step |-> <<>>]  \* <round>: ...

NoRound == [steps |-> <<>>, tower |-> <<>>, missed |-> FALSE, end |-> "none"]
Round   == Last(rounds)
Note(r) == rounds' = Append(Front(rounds), r)

\* A turn of a round: an action is printed and sent, and changes the state, unless the
\* time of the session has run out: then its rounds are over.
Turn(line, outcomes) ==
  /\ stage = "planning" /\ ~Reached
  /\ LET round == [Round EXCEPT !.steps = IF line.step = <<>> THEN @ ELSE Append(@, line.step)]
     IN  \/ \E w \in outcomes :
              /\ world' = w
              /\ output' = Append(output, line)
              /\ Note([round EXCEPT !.tower = @ \o SetToSeq(w.stackloc \ world.stackloc),
                                    !.missed = @ \/ (line.step # <<>> /\ w.stackloc = world.stackloc)])
              /\ UNCHANGED stage
         \/ /\ output' = output \o <<line, RoundLine>>
            /\ Note([round EXCEPT !.end = "cut"])
            /\ stage' = "parsing"
            /\ UNCHANGED world
  /\ UNCHANGED <<ruleVars, scene, goal, execVars>>

\* The end of a round: its last lines, and the next round or the end of the session.
EndRound(lines, end) ==
  /\ stage = "planning"
  /\ output' = output \o lines
  /\ IF Len(rounds) < Rounds
       THEN /\ rounds' = Append(Append(Front(rounds), [Round EXCEPT !.end = end]), NoRound)
            /\ world' = InitWorld
            /\ UNCHANGED stage
       ELSE /\ Note([Round EXCEPT !.end = end])
            /\ stage' = "parsing"
            /\ UNCHANGED world
  /\ UNCHANGED <<ruleVars, scene, goal, execVars>>

-----------------------------------------------------------------------------
(* Parsing and executing. *)

Parsed == [plans |-> <<>>, current |-> <<>>, isPlan |-> FALSE]

\* Mutant: the steps of a round that found no plan are kept.
ReadLineKeepsSteps(p, line) ==
  IF line.plus
    THEN [p EXCEPT !.isPlan = TRUE,
                   !.current = IF line.letter = "s" THEN Append(@, line.step) ELSE @]
  ELSE IF p.isPlan
    THEN [p EXCEPT !.isPlan = FALSE,
                   !.current = IF line.letter = "r" THEN <<>> ELSE @,
                   !.plans = IF line.letter = "r" THEN Append(@, p.current) ELSE @]
  ELSE p

\* parse_plan.py's loop over the lines
ReadLine(p, line) ==
  IF line.plus
    THEN [p EXCEPT !.isPlan = TRUE,
                   !.current = IF line.letter = "s" THEN Append(@, line.step) ELSE @]
  ELSE IF p.isPlan
    THEN [p EXCEPT !.isPlan = FALSE, !.current = <<>>,
                   !.plans = IF line.letter = "r" THEN Append(@, p.current) ELSE @]
  ELSE p

AllRead(lines) ==
  LET read[n \in 0..Len(lines)] == IF n = 0 THEN Parsed ELSE ReadLine(read[n - 1], lines[n])
  IN  read[Len(lines)]

NotFound == <<"not found.">>

ParsePlan ==
  /\ stage = "parsing"
  /\ plans' = AllRead(output).plans
  /\ steps' = IF plans' = <<>> THEN NotFound ELSE plans'[1]
  /\ stage' = "executing"
  /\ UNCHANGED <<ruleVars, scene, goal, simVars, arm>>

\* Mutant: the level rises by the object that is being placed.
ExecuteStepByTarget ==
  /\ stage = "executing" /\ steps # <<>> /\ steps # NotFound
  /\ LET base == Head(steps)[1]
         target == Head(steps)[2]
     IN  arm' = [level  |-> arm.level + Size[target],
                 placed |-> Append(arm.placed, target),
                 locs   |-> [arm.locs EXCEPT ![target] = arm.locs[base]]]
  /\ steps' = Tail(steps)
  /\ UNCHANGED <<ruleVars, scene, goal, simVars, stage, plans>>

\* A line of the plan is executed: the object is placed at the level of the object below
\* it, and counts as being where that is.
ExecuteStep ==
  /\ stage = "executing" /\ steps # <<>> /\ steps # NotFound
  /\ LET base == Head(steps)[1]
         target == Head(steps)[2]
     IN  arm' = [level  |-> arm.level + Size[base],
                 placed |-> Append(arm.placed, target),
                 locs   |-> [arm.locs EXCEPT ![target] = arm.locs[base]]]
  /\ steps' = Tail(steps)
  /\ UNCHANGED <<ruleVars, scene, goal, simVars, stage, plans>>

\* The test for "not found." looks at the line of the probability and never succeeds;
\* the line itself cannot be split into three words.
ExecuteNotFound ==
  /\ stage = "executing" /\ steps = NotFound
  /\ stage' = "failed"
  /\ UNCHANGED <<ruleVars, scene, goal, simVars, execVars>>

ExecuteEnds ==
  /\ stage = "executing" /\ steps = <<>>
  /\ stage' = "done"
  /\ UNCHANGED <<ruleVars, scene, goal, simVars, execVars>>

-----------------------------------------------------------------------------

Init ==
  /\ RulesInit
  /\ stage = "learning"
  /\ scene \in Scenes /\ goal \in Goals
  /\ world = InitWorld
  /\ output = <<>> /\ rounds = <<NoRound>>
  /\ plans = <<>> /\ steps = <<>>
  /\ arm = [level |-> 0, placed |-> <<>>, locs |-> [o \in Objects |-> o]]

Learn ==
  /\ stage = "learning"
  /\ RulesNext
  /\ stage' = IF todo' = <<>> THEN "planning" ELSE stage
  /\ UNCHANGED <<scene, goal, simVars, execVars>>

StackOn(i, b, a) ==
  /\ StackEnabled(code[i], b, a)
  /\ Turn(StackLine(b, a), StackOutcomes(code[i], b, a))

IncreaseHeight(i) ==
  /\ world.stacked /\ i \in world.H
  /\ Turn(OtherLine, {HeightIncreased(i)})

IncreaseStack(i) ==
  /\ world.inserted /\ i \in world.S
  /\ Turn(OtherLine, {StackIncreased(i)})

MakeBase(o) ==
  /\ ~world.base
  /\ Turn(OtherLine, {BaseMade(o)})

\* The goal is reached: "<round>: goal reached!!!", "<round>: round = ..."
GoalReached == Reached /\ EndRound(<<RoundLine, RoundLine>>, "goal")

\* The planner knows the state for a dead end.
DeadEnd == ~Reached /\ EndRound(<<DoneLine, ClientLine, RoundLine>>, "dead end")

Play ==
  \/ \E b, a \in Objects : \E i \in 1..Len(code) : StackOn(i, b, a)
  \/ \E i \in 0..Levels - 1 : IncreaseHeight(i) \/ IncreaseStack(i)
  \/ \E o \in Objects : MakeBase(o)
  \/ GoalReached
  \/ DeadEnd

Execute == ExecuteStep \/ ExecuteNotFound \/ ExecuteEnds

Next == Learn \/ Play \/ ParsePlan \/ Execute

Spec == Init /\ [][Next]_vars

-----------------------------------------------------------------------------

Ends(e)  == Cardinality({r \in 1..Len(rounds) : rounds[r].end = e})
Num(b)   == IF b THEN 1 ELSE 0
SizeOf(tower, k) ==
  LET size[n \in 0..k] == IF n = 0 THEN 0 ELSE size[n - 1] + Size[tower[n]]
  IN  size[k]

\* The height and the number of objects are counted one at a time, by actions of their
\* own between which the planner may do something else: at any time they are single
\* numbers, what is counted and still to be counted is what stands in the stack, and no
\* stack is higher than the number of its objects (learn_rules.py's increase-height,
\* increase-stack and makebase with the effects of tree_to_code).
TowerCounted ==
  \E h, s \in 0..Levels :
    /\ world.H = {h} /\ world.S = {s}
    /\ s + Num(world.inserted) = Cardinality(world.instack) + Num(world.base)
    /\ h + Num(world.stacked) <= s + Num(world.inserted)

\* There is at most one place to stack on: the object placed last; what has been placed
\* cannot be picked again.
OneTop ==
  stage = "planning" =>
    /\ world.stackloc = IF Round.tower = <<>> THEN {} ELSE {Last(Round.tower)}
    /\ IsInjective(Round.tower)
    /\ ToSet(Round.tower) \cap world.pickloc = {}

\* parse_plan.py finds the rounds again in the stream of lines: every round in which the
\* goal was reached is counted, no other but one cut off, and the plan written is what
\* was played in the first of them.
Kept(rs) ==
  LET kept[n \in 0..Len(rs)] ==
        IF n = 0 THEN <<>>
        ELSE IF rs[n].end \in {"goal", "cut"} THEN Append(kept[n - 1], rs[n])
        ELSE kept[n - 1]
  IN  kept[Len(rs)]
StepsOf(rs) == [k \in 1..Len(rs) |-> rs[k].steps]
PlansAreRounds ==
  stage \in {"executing", "done", "failed"} => plans = StepsOf(Kept(rounds))

\* Executing the plan of a round in which nothing missed builds the tower of that round:
\* in its order, each object on the sum of the sizes below it, all of them where the
\* base stands.
ArmBuildsTower ==
  plans # <<>> =>
    LET round == Kept(rounds)[1]
        n == Len(arm.placed)
    IN  ~round.missed /\ n > 0 =>
          /\ arm.level = SizeOf(round.tower, n)
          /\ \A k \in 1..n : arm.locs[arm.placed[k]] = round.tower[1]
          /\ \A k \in 2..Len(round.tower) : k <= n + 1 => arm.placed[k - 1] = round.tower[k]
=============================================================================

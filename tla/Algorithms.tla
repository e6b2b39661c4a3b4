----------------------------- MODULE Algorithms -----------------------------
(***************************************************************************)
(* The other planners of mini-gpt (algorithms.cc, algorithms.h, planners.h *)
(* and the loop of XMLClient_t around them), over the problem of Ssp: vi   *)
(* sweeps over the whole state space before the first round, asp runs a    *)
(* fixed number of trials before each answer, and hdp(0,j) labels what can *)
(* be reached by likely outcomes, component by component, with a           *)
(* depth-first search, and plans again when j unlikely outcomes have led   *)
(* it to a state without a label.                                          *)
(*                                                                         *)
(* As in Lrtdp the hash table is the function V.                           *)
(***************************************************************************)
EXTENDS Ssp, FiniteSetsExt

CONSTANTS
  Planners,     \* the planners to choose from: "vi", "asp", "hdp"
  InitOrder,    \* problem_t::initial_states, a sequence
  Simulations,  \* of asp
  Cutoff,       \* gpt::cutoff, the length of a trial
  J,            \* of hdp(0,j)
  MaxIndex,     \* USHORT_MAX, for hashEntryX_t keeps idx and low as ushort_t
  Noise         \* gpt::noise: some answers are random

ASSUME AlgorithmsAssumption ==
  /\ Planners \subseteq {"vi", "asp", "hdp"} /\ Planners # {}
  /\ InitOrder \in Seq(States) /\ {InitOrder[i] : i \in DOMAIN InitOrder} = InitStates
  /\ Simulations \in Nat /\ Cutoff \in Nat /\ J \in Nat /\ Noise \in BOOLEAN
  /\ MaxIndex \in Nat \ {0}

VARIABLES
  planner,  \* the planner that was chosen
  V,        \* hashEntry_t::value_ of every state
  pc,       \* "generate", "sweep", "idle", "sent", "decide", "trial", "solve", "dfs",
            \* "visit", "update", "return", "answer", or "undefined": actionsT()[-1], or
            \* lrand48() % 0, or "lost": a list that does not lead to the entry looked for
  asked,    \* the state the simulator has sent
  action,   \* the action it was answered with, or NoAction
  queue, space,     \* of generate_state_space
  position, residual,  \* of valueIteration_t::solve
  node, steps, runs,   \* of asp_t::trial and asp_t::next; node also of hdpzj_t::dfs
  marked,   \* entries with the bit MARK
  active,   \* entries with the bit ACTIVE
  idx, low, \* of the extended entries
  top, back,        \* the list that begins with top and goes on with elink, and the entry
                    \* its last one leads back to, {} if that is NULL
  visited, index,   \* of hdpzj_t::solve; of index only what fits into idx is kept
  spent,    \* the last index, which means none, was given in this solve (read by no guard)
  calls,    \* the calls of dfs, the last one first: [node, rest, flag]
  result,   \* what dfs has returned
  last, kappa       \* last_state_ and last_action_ (<<>> at first), kappa_

spaceVars == <<queue, space, position, residual>>
trialVars == <<steps, runs>>
labels    == <<marked, active, idx, low, top, back, visited, index, spent, calls, result>>
memory    == <<last, kappa>>
vars == <<planner, V, pc, asked, action, node, spaceVars, trialVars, labels, memory>>

NoIndex == MaxIndex
Distance(x, y) == IF x < y THEN y - x ELSE x - y
Least(i, j)    == IF i < j THEN i ELSE j

-----------------------------------------------------------------------------
(* state_t::generate_state_space and valueIteration_t::solve *)

\* The outcomes of an action in s that were not found before are put in front, one by one.
PutInFront(q, s, outcomes) ==
  LET put[i \in 0..Len(outcomes)] ==
        IF i = 0 THEN q
        ELSE IF outcomes[i].state \in ToSet(put[i - 1]) \cup ToSet(space) \cup {s} THEN put[i - 1]
        ELSE <<outcomes[i].state>> \o put[i - 1]
  IN  put[Len(outcomes)]

\* All the actions are tried in s, the state at the front.
Found(s) ==
  LET after[a \in 0..NumActions] ==
        IF a = 0 THEN Tail(queue) ELSE PutInFront(after[a - 1], s, Outcomes[<<s, a>>])
  IN  after[NumActions]

Generate ==
  /\ pc = "generate"
  /\ IF queue # <<>>
       THEN /\ queue' = Found(Head(queue))
            /\ space' = Append(space, Head(queue))
            /\ UNCHANGED <<pc, position, residual>>
       ELSE /\ pc' = "sweep"
            /\ position' = 1
            /\ residual' = 0
            /\ UNCHANGED <<queue, space>>
  /\ UNCHANGED <<planner, V, asked, action, node, trialVars, labels, memory>>

\* Mutant: a sweep ends as soon as one entry has not changed.
SweepStopsEarly ==
  /\ pc = "sweep"
  /\ LET s == space[position]
         W == Update(V, s, Best(V, s).value)
         r == Distance(V[s], W[s])
     IN  /\ V' = W
         /\ IF position < Len(space) /\ r > Epsilon
              THEN position' = position + 1 /\ residual' = r /\ UNCHANGED pc
              ELSE position' = 1 /\ residual' = 0 /\ pc' = IF r > Epsilon THEN "sweep" ELSE "idle"
  /\ UNCHANGED <<planner, asked, action, queue, space, node, trialVars, labels, memory>>

\* Mutant: the residual of the sweeps before is not forgotten.
SweepKeepsResidual ==
  /\ pc = "sweep"
  /\ LET s == space[position]
         W == Update(V, s, Best(V, s).value)
         r == Max({residual, Distance(V[s], W[s])})
     IN  /\ V' = W
         /\ residual' = r
         /\ IF position < Len(space)
              THEN position' = position + 1 /\ UNCHANGED pc
              ELSE position' = 1 /\ pc' = IF r > Epsilon THEN "sweep" ELSE "idle"
  /\ UNCHANGED <<planner, asked, action, queue, space, node, trialVars, labels, memory>>

\* One entry of a sweep; the sweeps end with one in which none changed by more than epsilon.
Sweep ==
  /\ pc = "sweep"
  /\ LET s == space[position]
         W == Update(V, s, Best(V, s).value)
         r == Max({residual, Distance(V[s], W[s])})
     IN  /\ V' = W
         /\ IF position < Len(space)
              THEN position' = position + 1 /\ residual' = r /\ UNCHANGED pc
              ELSE position' = 1 /\ residual' = 0 /\ pc' = IF r > Epsilon THEN "sweep" ELSE "idle"
  /\ UNCHANGED <<planner, asked, action, queue, space, node, trialVars, labels, memory>>

-----------------------------------------------------------------------------
(* XMLClient_t: the simulator sends a state. *)

NewRound ==
  /\ pc = "idle"
  /\ asked' \in InitStates
  /\ last' = <<>>
  /\ pc' = "sent"
  /\ UNCHANGED <<planner, V, action, node, spaceVars, trialVars, labels, kappa>>

NextState ==
  /\ pc = "idle"
  /\ action # NoAction
  /\ asked' \in Successors(asked, action) \ GoalStates
  /\ pc' = "sent"
  /\ UNCHANGED <<planner, V, action, node, spaceVars, trialVars, labels, memory>>

\* planner_t::dead_end: <done/> is sent; otherwise the planner decides.
GiveUp ==
  /\ pc = "sent"
  /\ V[asked] = DeadEndValue
  /\ action' = NoAction
  /\ pc' = "idle"
  /\ UNCHANGED <<planner, V, asked, node, spaceVars, trialVars, labels, memory>>

\* Mutant: the planner decides in every state.
DecideAnyState ==
  /\ pc = "sent"
  /\ pc' = "decide"
  /\ runs' = 0
  /\ UNCHANGED <<planner, V, asked, action, node, steps, spaceVars, labels, memory>>

Decide ==
  /\ pc = "sent"
  /\ V[asked] # DeadEndValue
  /\ pc' = "decide"
  /\ runs' = 0
  /\ UNCHANGED <<planner, V, asked, action, node, steps, spaceVars, labels, memory>>

\* The greedy action is looked up at the index bestAction returns, even if that is -1.
Answer ==
  /\ action' = BestAction(V, asked)
  /\ pc' = IF BestAction(V, asked) = NoAction THEN "undefined" ELSE "idle"

\* random_t::next, which noise calls in the place of the planner; hdp is not told.
RandomNext ==
  /\ Noise
  /\ pc = "decide" /\ runs = 0
  /\ IF Enabled(asked) = {} THEN pc' = "undefined" /\ UNCHANGED action
                            ELSE pc' = "idle" /\ action' \in Enabled(asked)
  /\ UNCHANGED <<planner, V, asked, node, spaceVars, trialVars, labels, memory>>

\* valueIteration_t::next
ViNext ==
  /\ pc = "decide" /\ planner = "vi"
  /\ Answer
  /\ UNCHANGED <<planner, V, asked, node, spaceVars, trialVars, labels, memory>>

-----------------------------------------------------------------------------
(* asp_t *)

AspTrial ==
  /\ pc = "decide" /\ planner = "asp" /\ runs < Simulations
  /\ node' = asked
  /\ steps' = 0
  /\ pc' = "trial"
  /\ UNCHANGED <<planner, V, asked, action, runs, spaceVars, labels, memory>>

Walking == steps < Cutoff /\ V[node] < DeadEndValue /\ node \notin GoalStates

\* Mutant: the next entry is updated in the place of this one.
AspStepUpdatesNext ==
  /\ pc = "trial"
  /\ Walking
  /\ steps' = steps + 1
  /\ LET best == Best(V, node) IN
       IF best.action = NoAction
         THEN V' = Update(V, node, DeadEndValue) /\ UNCHANGED node
         ELSE /\ node' \in Successors(node, best.action)
              /\ V' = Update(V, node', best.value)
  /\ UNCHANGED <<planner, pc, asked, action, runs, spaceVars, labels, memory>>

\* asp_t::trial: one step, or the end of the trial.
AspStep ==
  /\ pc = "trial"
  /\ Walking
  /\ steps' = steps + 1
  /\ LET best == Best(V, node) IN
       IF best.action = NoAction
         THEN V' = Update(V, node, DeadEndValue) /\ UNCHANGED node
         ELSE /\ V' = Update(V, node, best.value)
              /\ node' \in Successors(node, best.action)
  /\ UNCHANGED <<planner, pc, asked, action, runs, spaceVars, labels, memory>>
AspStop ==
  /\ pc = "trial"
  /\ ~Walking
  /\ runs' = runs + 1
  /\ pc' = "decide"
  /\ UNCHANGED <<planner, V, asked, action, node, steps, spaceVars, labels, memory>>

\* asp_t::next, after the trials.
AspNext ==
  /\ pc = "decide" /\ planner = "asp" /\ runs = Simulations
  /\ V' = Update(V, asked, Best(V, asked).value)
  /\ Answer
  /\ UNCHANGED <<planner, asked, node, spaceVars, trialVars, labels, memory>>

-----------------------------------------------------------------------------
(* hdpzj_t: how unlikely an outcome is, and plannerHDPZJ_t::decideAction *)

\* kappa: the least k such that the probability is at least 1 / 2^k.
Kappa(weight) == CHOOSE k \in 0..Whole : /\ weight * 2^k >= Whole
                                         /\ k > 0 => weight * 2^(k - 1) < Whole
Normz(outcomes) == Min({Kappa(outcomes[i].weight) : i \in DOMAIN outcomes})

TransitionKappa(s, a, t) ==
  LET o == Outcomes[<<s, a>>]
      found == {i \in DOMAIN o : o[i].state = t}
  IN  IF found = {} THEN 0 ELSE Kappa(o[Min(found)].weight) - Normz(o)

\* The cost dfs is called with is always 0, so it follows the likeliest outcomes only.
Likely(s, a) ==
  LET o == Outcomes[<<s, a>>]
      followed[i \in 0..Len(o)] ==
        IF i = 0 THEN <<>>
        ELSE IF Kappa(o[i].weight) = Normz(o) THEN Append(followed[i - 1], o[i].state) ELSE followed[i - 1]
  IN  followed[Len(o)]

\* kappa_ is compared with J only, and kept up to there.
HdpDecide ==
  /\ pc = "decide" /\ planner = "hdp"
  /\ LET far == IF last = <<>> THEN 0
                ELSE Min({J, kappa + TransitionKappa(last[1], last[2], asked)})
         replan == last = <<>> \/ (asked \notin marked /\ far >= J)
     IN  /\ pc' = IF replan THEN "solve" ELSE "answer"
         /\ kappa' = IF replan THEN 0 ELSE far
  /\ index' = 0 /\ spent' = FALSE
  /\ UNCHANGED <<planner, V, asked, action, node, spaceVars, trialVars, marked, active, idx,
                 low, top, back, visited, calls, result, last>>

HdpNext ==
  /\ pc = "answer"
  /\ Answer
  /\ last' = <<asked, BestAction(V, asked)>>
  /\ UNCHANGED <<planner, V, asked, node, spaceVars, trialVars, labels, kappa>>

\* hdpzj_t::solve: dfs is called until the entry has its mark.
Solve ==
  /\ pc = "solve"
  /\ IF asked \in marked
       THEN pc' = "answer" /\ UNCHANGED <<node, top, back>>
       ELSE pc' = "dfs" /\ node' = asked /\ top' = <<>> /\ back' = {}
  /\ UNCHANGED <<planner, V, asked, action, spaceVars, trialVars, marked, active, idx, low,
                 visited, index, spent, calls, result, memory>>

-----------------------------------------------------------------------------
(* hdpzj_t::dfs *)

Residual(s) == Distance(BestValue(V, s), V[s])
Returns(r)  == pc' = "return" /\ result' = r

\* The base cases: a marked entry or a goal, and a dead end.
DfsBase ==
  /\ pc = "dfs"
  /\ \/ node \in marked \cup GoalStates /\ UNCHANGED V
     \/ /\ node \notin marked \cup GoalStates
        /\ BestAction(V, node) = NoAction
        /\ V' = Update(V, node, DeadEndValue)
  /\ marked' = marked \cup {node}
  /\ Returns(FALSE)
  /\ UNCHANGED <<planner, asked, action, node, spaceVars, trialVars, active, idx, low, top,
                 back, visited, index, spent, calls, memory>>

Open == pc = "dfs" /\ node \notin marked \cup GoalStates /\ BestAction(V, node) # NoAction

\* A residual above epsilon is taken away before anything is visited.
DfsResidual ==
  /\ Open
  /\ Residual(node) > Epsilon
  /\ pc' = "update"
  /\ UNCHANGED <<planner, V, asked, action, node, spaceVars, trialVars, labels, memory>>

\* Where an entry is on the list.
Depth(s) == CHOOSE i \in 1..Len(top) : top[i] = s

\* An entry whose index means none may be visited again while it is on the list: the list
\* then leads from there back to it, in a ring.
DfsVisit ==
  /\ Open
  /\ Residual(node) <= Epsilon
  /\ visited' = visited \cup {node}
  /\ IF node \in ToSet(top)
       THEN top' = <<node>> \o SubSeq(top, 1, Depth(node) - 1) /\ back' = {node}
       ELSE top' = <<node>> \o top /\ UNCHANGED back
  /\ idx' = [idx EXCEPT ![node] = index]
  /\ low' = [low EXCEPT ![node] = index]
  /\ active' = active \cup {node}
  /\ index' = IF index = MaxIndex THEN 0 ELSE index + 1
  /\ spent' = (spent \/ index = MaxIndex)
  /\ calls' = <<[node |-> node, rest |-> Likely(node, BestAction(V, node)), flag |-> FALSE]>> \o calls
  /\ pc' = "visit"
  /\ UNCHANGED <<planner, V, asked, action, node, spaceVars, trialVars, marked, result, memory>>

\* The last call goes on to its next outcome.
GoOn(f, flag) == <<[node |-> f.node, rest |-> Tail(f.rest), flag |-> flag]>> \o Tail(calls)

\* The next likely outcome: dfs is called for one without an index.
VisitChild ==
  /\ pc = "visit"
  /\ LET f == Head(calls) IN
     /\ f.rest # <<>>
     /\ IF idx[Head(f.rest)] = NoIndex
          THEN pc' = "dfs" /\ node' = Head(f.rest) /\ UNCHANGED <<low, calls>>
          ELSE /\ low' = IF Head(f.rest) \in active
                           THEN [low EXCEPT ![f.node] = Least(@, idx[Head(f.rest)])] ELSE low
               /\ calls' = GoOn(f, f.flag)
               /\ UNCHANGED <<pc, node>>
  /\ UNCHANGED <<planner, V, asked, action, spaceVars, trialVars, marked, active, idx, top,
                 back, visited, index, spent, result, memory>>

\* The entries from top down to s, which are taken from the list, and what is left: in a
\* ring that s closes, all of it, read from the entry after s.
Component(s) == {top[i] : i \in 1..Depth(s)}
Circles(s)   == back # {} /\ back \subseteq Component(s)
Remaining(s) == SubSeq(top, Depth(s) + 1, Len(top))
              \o IF Circles(s) THEN SubSeq(top, Depth(CHOOSE x \in back : TRUE), Depth(s)) ELSE <<>>

Labelled(s) ==
  /\ marked' = marked \cup Component(s)
  /\ active' = active \ Component(s)
  /\ top' = Remaining(s)
  /\ back' = IF Circles(s) THEN {Head(Remaining(s))} ELSE back

\* Mutant: a component is labelled although an entry below it was updated.
VisitEndIgnoresFlag ==
  /\ pc = "visit"
  /\ LET f == Head(calls) IN
     /\ f.rest = <<>>
     /\ calls' = Tail(calls)
     /\ node' = f.node
     /\ \/ idx[f.node] = low[f.node] /\ f.node \in ToSet(top) /\ Labelled(f.node)
        \/ idx[f.node] # low[f.node] /\ UNCHANGED <<marked, active, top, back>>
     /\ IF f.flag THEN pc' = "update" /\ UNCHANGED result ELSE Returns(FALSE)
  /\ UNCHANGED <<planner, V, asked, action, spaceVars, trialVars, idx, low, visited, index,
                 spent, memory>>

\* All outcomes are visited: either something below was updated, and so is this entry,
\* or the component whose first entry this is is labelled.
Completes(f) == ~f.flag /\ idx[f.node] = low[f.node]
VisitEnd ==
  /\ pc = "visit"
  /\ LET f == Head(calls) IN
     /\ f.rest = <<>>
     /\ calls' = Tail(calls)
     /\ node' = f.node
     /\ \/ Completes(f) /\ f.node \in ToSet(top) /\ Labelled(f.node)
        \/ ~Completes(f) /\ UNCHANGED <<marked, active, top, back>>
     /\ IF f.flag THEN pc' = "update" /\ UNCHANGED result ELSE Returns(FALSE)
  /\ UNCHANGED <<planner, V, asked, action, spaceVars, trialVars, idx, low, visited, index,
                 spent, memory>>

\* while( top != node ): a ring without the entry has no end, and a list without it ends
\* at NULL.
Lost ==
  /\ pc = "visit"
  /\ LET f == Head(calls) IN f.rest = <<>> /\ Completes(f) /\ f.node \notin ToSet(top)
  /\ pc' = "lost"
  /\ UNCHANGED <<planner, V, asked, action, node, spaceVars, trialVars, labels, memory>>

\* The entry is updated until its residual is gone.
DfsUpdate ==
  /\ pc = "update"
  /\ V' = Update(V, node, BestValue(V, node))
  /\ IF Distance(BestValue(V', node), V'[node]) > Epsilon THEN UNCHANGED <<pc, result>> ELSE Returns(TRUE)
  /\ UNCHANGED <<planner, asked, action, node, spaceVars, trialVars, marked, active, idx, low,
                 top, back, visited, index, spent, calls, memory>>

DfsReturn ==
  /\ pc = "return"
  /\ calls # <<>>
  /\ low' = [low EXCEPT ![Head(calls).node] = Least(@, low[node])]
  /\ calls' = GoOn(Head(calls), Head(calls).flag \/ result)
  /\ pc' = "visit"
  /\ UNCHANGED <<planner, V, asked, action, node, spaceVars, trialVars, marked, active, idx,
                 top, back, visited, index, spent, result, memory>>

\* Back in solve: what was visited takes over the mark of the entry asked for, and loses
\* everything else.
SearchEnd ==
  /\ pc = "return"
  /\ calls = <<>>
  /\ marked' = IF asked \in marked THEN marked \cup visited ELSE marked \ visited
  /\ active' = active \ visited
  /\ idx' = [s \in States |-> IF s \in visited THEN NoIndex ELSE idx[s]]
  /\ low' = [s \in States |-> IF s \in visited THEN NoIndex ELSE low[s]]
  /\ visited' = {}
  /\ pc' = "solve"
  /\ UNCHANGED <<planner, V, asked, action, node, spaceVars, trialVars, top, back, index, spent,
                 calls, result, memory>>

-----------------------------------------------------------------------------

Init ==
  /\ planner \in Planners
  /\ V \in Heuristics
  /\ pc = IF planner = "vi" THEN "generate" ELSE "idle"
  /\ asked \in InitStates
  /\ action = NoAction
  /\ queue = (IF planner = "vi" THEN Reverse(InitOrder) ELSE <<>>) /\ space = <<>>
  /\ position = 1 /\ residual = 0
  /\ node = asked /\ steps = 0 /\ runs = 0
  /\ marked = {} /\ active = {} /\ visited = {}
  /\ idx = [s \in States |-> NoIndex] /\ low = idx
  /\ top = <<>> /\ back = {} /\ index = 0 /\ spent = FALSE /\ calls = <<>> /\ result = FALSE
  /\ last = <<>> /\ kappa = 0

Compute ==
  \/ Generate \/ Sweep \/ ViNext \/ RandomNext
  \/ GiveUp \/ Decide
  \/ AspTrial \/ AspStep \/ AspStop \/ AspNext
  \/ HdpDecide \/ HdpNext \/ Solve
  \/ DfsBase \/ DfsResidual \/ DfsVisit \/ VisitChild \/ VisitEnd \/ Lost \/ DfsUpdate \/ DfsReturn
  \/ SearchEnd

Next == NewRound \/ NextState \/ Compute

Spec == Init /\ [][Next]_vars /\ WF_vars(Compute)
=============================================================================

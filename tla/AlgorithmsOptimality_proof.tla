-------------------- MODULE AlgorithmsOptimality_proof ---------------------
(***************************************************************************)
(* vi, asp and hdp never overestimate, for every problem and every         *)
(* admissible heuristic, and never answer with the action at index -1 if   *)
(* the heuristic knows the dead ends; hdp labels an entry only with what   *)
(* its label promises; and vi knows the optimal costs when it has swept.   *)
(***************************************************************************)
EXTENDS AlgorithmsOptimality, SspOptimality_proof

\* Every step of the planner leaves the hash table as it is or backs up an entry.
LEMMA StepBacksUp == ASSUME V \in Values, [Next]_vars PROVE BackedUp(V, V')
<1>1. ASSUME Sweep PROVE BackedUp(V, V')
  BY <1>1, LookaheadWritten DEF Sweep
<1>2. ASSUME AspStep PROVE BackedUp(V, V')
  <2>1. CASE Best(V, node).action = NoAction
    BY <1>2, <2>1, DeadEndWritten DEF AspStep, Walking, BestAction
  <2>2. CASE Best(V, node).action # NoAction
    BY <1>2, <2>2, LookaheadWritten DEF AspStep
  <2> QED BY <2>1, <2>2
<1>3. ASSUME AspNext PROVE BackedUp(V, V')
  BY <1>3, LookaheadWritten DEF AspNext
<1>4. ASSUME DfsBase PROVE BackedUp(V, V')
  <2>1. CASE V' = V
    BY <2>1 DEF BackedUp
  <2>2. CASE node \notin GoalStates /\ BestAction(V, node) = NoAction /\ V' = Update(V, node, DeadEndValue)
    BY <2>2, DeadEndWritten
  <2> QED BY <1>4, <2>1, <2>2 DEF DfsBase
<1>5. ASSUME DfsUpdate PROVE BackedUp(V, V')
  BY <1>5, LookaheadWritten DEF DfsUpdate
<1>6. V' = V => BackedUp(V, V')
  BY DEF BackedUp
<1>7. NewRound \/ NextState \/ GiveUp \/ Decide => V' = V
  BY DEF NewRound, NextState, GiveUp, Decide
<1>8. Generate \/ ViNext \/ RandomNext \/ AspTrial \/ AspStop => V' = V
  BY DEF Generate, ViNext, RandomNext, AspTrial, AspStop
<1>9. HdpDecide \/ HdpNext \/ Solve \/ SearchEnd => V' = V
  BY DEF HdpDecide, HdpNext, Solve, SearchEnd
<1>10. DfsResidual \/ DfsVisit \/ VisitChild \/ VisitEnd \/ Lost \/ DfsReturn => V' = V
  BY DEF DfsResidual, DfsVisit, VisitChild, VisitEnd, Lost, DfsReturn
<1>11. UNCHANGED vars => V' = V
  BY DEF vars
<1> QED
  BY <1>1, <1>2, <1>3, <1>4, <1>5, <1>6, <1>7, <1>8, <1>9, <1>10, <1>11 DEF Next, Compute

\* Whatever planner was chosen, no sweep, trial or depth-first search leaves more than
\* the optimal cost in an entry, in whatever order they meet the entries.
THEOREM PlannersStayAdmissible == Spec => [](V \in Values /\ NeverOverestimates)
<1>1. Init => Below(V)
  BY AdmissibleBelow DEF Init
<1>2. Below(V) /\ [Next]_vars => Below(V)'
  BY StepBacksUp, BackedUpBelow DEF Below
<1>3. Below(V) => V \in Values /\ NeverOverestimates
  BY DEF Below, NeverOverestimates
<1> QED BY <1>1, <1>2, <1>3, PTL DEF Spec

-----------------------------------------------------------------------------
(* Answers.  States without actions keep the dead-end value, so a state the *)
(* planner decides in has an action, and the greedy one exists.             *)

Idling == pc \in {"generate", "sweep", "idle", "sent"}

DefinedInv ==
  /\ V \in Values /\ KnowsDeadEnds
  /\ asked \in States \ GoalStates
  /\ action \in Actions \cup {NoAction}
  /\ ~Idling => Enabled(asked) # {}
  /\ pc # "undefined"

LEMMA DeadEndsStayKnown ==
  ASSUME V \in Values, KnowsDeadEnds, BackedUp(V, V') PROVE V' \in Values /\ KnowsDeadEnds'
<1>1. ASSUME NEW s \in States \ GoalStates, Enabled(s) = {} PROVE V'[s] = DeadEndValue
  <2>1. V[s] = DeadEndValue /\ BestValue(V, s) = DeadEndValue
    BY <1>1, SspAssumption DEF KnowsDeadEnds, BestValue, Best, Capped
  <2>2. ASSUME NEW t \in States, NEW v \in Nat, Capped(v) = BestValue(V, t), V' = Update(V, t, v)
        PROVE  V'[s] = DeadEndValue
    <3>1. V'[t] = BestValue(V, t) /\ \A u \in States \ {t} : V'[u] = V[u]
      BY <2>2, UpdatedAt
    <3> QED BY <2>1, <3>1
  <2> QED BY <2>1, <2>2 DEF BackedUp
<1> QED BY <1>1, BackedUpValues DEF KnowsDeadEnds

LEMMA InitDefined == ASSUME Init, KnowsDeadEnds PROVE DefinedInv
<1>1. V \in Values /\ asked \in States \ GoalStates
  BY SspAssumption DEF Init, Values
<1> QED BY <1>1 DEF Init, DefinedInv, Idling

LEMMA AnswerDefined ==
  ASSUME DefinedInv, ~Idling, Answer
  PROVE  action' \in Actions /\ pc' = "idle"
<1>1. V \in Values /\ asked \in States /\ Enabled(asked) # {}
  BY DEF DefinedInv
<1>2. BestAction(V, asked) # NoAction
  BY <1>1, NoActionMeansNone
<1>3. BestAction(V, asked) \in Actions
  BY <1>1, <1>2, GreedyType DEF Enabled
<1> QED BY <1>2, <1>3 DEF Answer

LEMMA StepDefined == ASSUME DefinedInv, [Next]_vars PROVE DefinedInv'
<1>0. V \in Values /\ KnowsDeadEnds /\ asked \in States \ GoalStates
  BY DEF DefinedInv
<1>1. V' \in Values /\ KnowsDeadEnds'
  BY <1>0, StepBacksUp, DeadEndsStayKnown
<1>2. ASSUME NewRound PROVE DefinedInv'
  BY <1>1, <1>2, SspAssumption DEF NewRound, DefinedInv, Idling
<1>3. ASSUME NextState PROVE DefinedInv'
  <2>1. action \in Actions /\ asked' \in Successors(asked, action) \ GoalStates
    BY <1>3 DEF NextState, DefinedInv
  <2>2. asked' \in States \ GoalStates
    BY <1>0, <2>1, SuccessorsType
  <2> QED BY <1>1, <1>3, <2>1, <2>2 DEF NextState, DefinedInv, Idling
<1>4. ASSUME GiveUp PROVE DefinedInv'
  BY <1>1, <1>4 DEF GiveUp, DefinedInv, Idling
<1>5. ASSUME Decide PROVE DefinedInv'
  <2>1. Enabled(asked) # {}
    BY <1>0, <1>5 DEF Decide, KnowsDeadEnds
  <2> QED BY <1>1, <1>5, <2>1 DEF Decide, DefinedInv
<1>6. ASSUME Generate \/ Sweep PROVE DefinedInv'
  <2>1. UNCHANGED <<asked, action>> /\ pc' \in {"generate", "sweep", "idle"}
    BY <1>6 DEF Generate, Sweep
  <2> QED BY <1>1, <2>1 DEF DefinedInv, Idling
<1>7. ASSUME RandomNext PROVE DefinedInv'
  <2>1. Enabled(asked) # {}
    BY <1>7 DEF RandomNext, DefinedInv, Idling
  <2>2. pc' = "idle" /\ action' \in Actions /\ asked' = asked
    BY <1>7, <2>1 DEF RandomNext, Enabled
  <2> QED BY <1>0, <1>1, <2>2 DEF DefinedInv, Idling
<1>8. ASSUME ViNext \/ AspNext \/ HdpNext PROVE DefinedInv'
  <2>1. ~Idling /\ Answer /\ asked' = asked
    BY <1>8 DEF ViNext, AspNext, HdpNext, Idling
  <2> QED BY <1>0, <1>1, <2>1, AnswerDefined DEF DefinedInv, Idling
<1>9. ASSUME AspTrial \/ AspStep \/ AspStop PROVE DefinedInv'
  <2>1. ~Idling /\ UNCHANGED <<asked, action>> /\ pc' \in {"trial", "decide"}
    BY <1>9 DEF AspTrial, AspStep, AspStop, Idling
  <2> QED BY <1>1, <2>1 DEF DefinedInv
<1>10. ASSUME HdpDecide \/ Solve \/ SearchEnd PROVE DefinedInv'
  <2>1. ~Idling /\ UNCHANGED <<asked, action>> /\ pc' # "undefined"
    BY <1>10 DEF HdpDecide, Solve, SearchEnd, Idling
  <2> QED BY <1>1, <2>1 DEF DefinedInv
<1>11. ASSUME DfsBase \/ DfsResidual \/ DfsVisit \/ VisitChild \/ VisitEnd \/ Lost \/ DfsUpdate \/ DfsReturn
       PROVE  DefinedInv'
  <2>1. ~Idling /\ UNCHANGED <<asked, action>>
    BY <1>11 DEF DfsBase, DfsResidual, DfsVisit, VisitChild, VisitEnd, Lost, DfsUpdate, DfsReturn, Open, Idling
  <2>2. pc' # "undefined"
    BY <1>11 DEF DfsBase, DfsResidual, DfsVisit, VisitChild, VisitEnd, Lost, DfsUpdate, DfsReturn, Open, Returns
  <2> QED BY <1>1, <2>1, <2>2 DEF DefinedInv
<1>12. ASSUME UNCHANGED vars PROVE DefinedInv'
  BY <1>1, <1>12 DEF vars, DefinedInv, Idling
<1> QED
  BY <1>2, <1>3, <1>4, <1>5, <1>6, <1>7, <1>8, <1>9, <1>10, <1>11, <1>12 DEF Next, Compute

\* If the heuristic knows the dead ends, no planner ever looks up an action that is not
\* there, in any round: what it has been sent and not given up on has an action.
THEOREM AnswersExist == Spec => AnswersDefined
<1>1. Init /\ KnowsDeadEnds => DefinedInv
  BY InitDefined
<1>2. DefinedInv /\ [Next]_vars => DefinedInv'
  BY StepDefined
<1>3. DefinedInv => pc # "undefined"
  BY DEF DefinedInv
<1> QED BY <1>1, <1>2, <1>3, PTL DEF Spec, AnswersDefined

-----------------------------------------------------------------------------
(* Marks.  The labelling of hdp is Tarjan's search for components, with     *)
(* updates in between; what it knows of the entries on its list is kept     *)
(* call by call.                                                            *)

\* Two sequences of states put together, and the rest of one.
LEMMA PushedIs ==
  ASSUME NEW S, NEW q \in Seq(S), NEW x \in S, NEW r, r = <<x>> \o q
  PROVE  /\ r \in Seq(S) /\ Len(r) = Len(q) + 1 /\ r[1] = x /\ Len(q) \in Nat
         /\ \A i \in 1..Len(q) : r[i + 1] = q[i]
         /\ \A i \in 2..Len(r) : i - 1 \in 1..Len(q) /\ r[i] = q[i - 1]
<1>1. r \in Seq(S) /\ Len(r) = Len(q) + 1 /\ r[1] = x /\ Len(q) \in Nat
  OBVIOUS
<1>2. \A i \in 1..Len(q) : r[i + 1] = q[i]
  OBVIOUS
<1>3. ASSUME NEW i \in 2..Len(r) PROVE i - 1 \in 1..Len(q) /\ r[i] = q[i - 1]
  <2>1. i - 1 \in 1..Len(q) /\ (i - 1) + 1 = i
    BY <1>1
  <2> QED BY <1>2, <2>1
<1> QED BY <1>1, <1>2, <1>3

LEMMA PoppedIs ==
  ASSUME NEW S, NEW q \in Seq(S), q # <<>>, NEW r, r = Tail(q)
  PROVE  /\ r \in Seq(S) /\ Len(r) = Len(q) - 1 /\ q[1] = Head(q) /\ q[1] \in S /\ Len(q) \in Nat \ {0}
         /\ \A i \in 1..Len(r) : r[i] = q[i + 1] /\ i + 1 \in 2..Len(q)
<1>1. r \in Seq(S) /\ Len(r) = Len(q) - 1 /\ q[1] = Head(q) /\ q[1] \in S /\ Len(q) \in Nat \ {0}
  OBVIOUS
<1>2. \A i \in 1..Len(r) : r[i] = q[i + 1]
  OBVIOUS
<1>3. \A i \in 1..Len(r) : i + 1 \in 2..Len(q)
  BY <1>1
<1> QED BY <1>1, <1>2, <1>3

LEMMA RestIs ==
  ASSUME NEW S, NEW q \in Seq(S), NEW p \in 0..Len(q), NEW r, r = SubSeq(q, p + 1, Len(q))
  PROVE  /\ r \in Seq(S) /\ Len(r) = Len(q) - p
         /\ \A i \in 1..Len(r) : r[i] = q[i + p] /\ i + p \in (p + 1)..Len(q)
<1>1. Len(q) \in Nat /\ p \in Nat
  OBVIOUS
<1>2. r \in Seq(S) /\ Len(r) = Len(q) - p
  OBVIOUS
<1>3. ASSUME NEW i \in 1..Len(r) PROVE r[i] = q[i + p] /\ i + p \in (p + 1)..Len(q)
  BY <1>1, <1>2
<1> QED BY <1>2, <1>3

\* The likely outcomes are states.
LEMMA LikelyType ==
  ASSUME NEW s \in States, NEW a \in Actions
  PROVE  Likely(s, a) \in Seq(States)
<1> DEFINE D == Seq(States)
<1>1. PICK o : o = Outcomes[<<s, a>>]
  OBVIOUS
<1>2. PICK n : n = Len(o)
  OBVIOUS
<1>3. n \in Nat /\ \A i \in 1..n : o[i].state \in States
  <2>1. o \in Seq([state : States, weight : 1..Whole])
    BY <1>1, SspAssumption
  <2>2. Len(o) \in Nat /\ \A i \in 1..Len(o) : o[i] \in [state : States, weight : 1..Whole]
    BY <2>1, ElementsOf
  <2> QED BY <1>2, <2>2
<1> DEFINE Chosen(i) == Kappa(o[i].weight) = Normz(o)
           Follows(f) == f = [i \in 0..n |-> IF i = 0 THEN <<>>
                                             ELSE IF Chosen(i) THEN Append(f[i - 1], o[i].state) ELSE f[i - 1]]
           F == [p \in (1..n) \X D |-> IF Chosen(p[1]) THEN Append(p[2], o[p[1]].state) ELSE p[2]]
<1>4. <<>> \in D /\ \A q \in D : \A t \in States : Append(q, t) \in D
  OBVIOUS
<1>5. Likely(s, a) = (CHOOSE f : Follows(f))[n]
  BY <1>1, <1>2 DEF Likely
<1> HIDE DEF D, Chosen
<1>6. F \in Steps(n, D)
  BY <1>3, <1>4 DEF Steps
<1>7. PICK f : f \in Traces(n, D, <<>>, F)
  <2> HIDE DEF F
  <2> QED BY <1>3, <1>4, <1>6, RecursionExists
<1>8. f \in [0..n -> D] /\ f[0] = <<>> /\ \A i \in 1..n : f[i] = F[<<i, f[i - 1]>>]
  BY <1>7 DEF Traces
<1>9. ASSUME NEW i \in 0..n
      PROVE  f[i] = IF i = 0 THEN <<>> ELSE IF Chosen(i) THEN Append(f[i - 1], o[i].state) ELSE f[i - 1]
  <2>1. CASE i = 0
    BY <1>8, <2>1
  <2>2. CASE i # 0
    <3>1. i \in 1..n /\ f[i - 1] \in D
      BY <1>3, <1>8, <2>2
    <3>2. f[i] = F[<<i, f[i - 1]>>]
      BY <1>8, <3>1
    <3>3. F[<<i, f[i - 1]>>] = IF Chosen(i) THEN Append(f[i - 1], o[i].state) ELSE f[i - 1]
      BY <3>1
    <3> QED BY <2>2, <3>2, <3>3
  <2> QED BY <2>1, <2>2
<1> HIDE DEF F
<1>10. Follows(f)
  <2>1. f = [i \in 0..n |-> f[i]]
    BY <1>8
  <2> QED BY <1>9, <2>1
<1>11. PICK g : g = CHOOSE h : Follows(h)
  OBVIOUS
<1>12. Follows(g)
  <2> HIDE DEF Follows
  <2> QED BY <1>10, <1>11
<1>13. g[n] \in D
  <2> DEFINE T == {i \in 0..n : g[i] \in D}
  <2>1. \A i \in 0..n : g[i] = IF i = 0 THEN <<>>
                               ELSE IF Chosen(i) THEN Append(g[i - 1], o[i].state) ELSE g[i - 1]
    BY <1>12
  <2> HIDE DEF Follows
  <2>2. 0 \in T
    BY <1>3, <1>4, <2>1
  <2>3. ASSUME NEW i \in 1..n, i - 1 \in T PROVE i \in T
    BY <1>3, <1>4, <2>1, <2>3
  <2>4. 0..n \subseteq T
    <3> HIDE DEF T
    <3> QED BY <1>3, <2>2, <2>3, UpTo
  <2> QED BY <1>3, <2>4
<1> QED BY <1>5, <1>11, <1>13 DEF D

\* A search of hdp is under way, and what its variables hold.
Searching == pc \in {"dfs", "visit", "update", "return"}
Calls == [node : States, rest : Seq(States), flag : BOOLEAN]

Labels ==
  /\ V \in Values /\ asked \in States \ GoalStates /\ action \in Actions \cup {NoAction}
  /\ node \in States
  /\ marked \in SUBSET States /\ active \in SUBSET States /\ visited \in SUBSET States
  /\ idx \in [States -> Int] /\ low \in [States -> Int] /\ index \in Nat /\ index <= NoIndex
  /\ top \in Seq(States) /\ calls \in Seq(Calls) /\ result \in BOOLEAN

\* What holds of the labels in any case, the index come round or not.
Basics ==
  /\ Labels
  /\ active \subseteq visited /\ \A s \in States \ visited : idx[s] = NoIndex
  /\ pc = "visit" => calls # <<>>
  /\ ~Searching /\ pc # "lost" => visited = {} /\ calls = <<>>

\* As long as it has not: the list ends, and it holds the visited entries whose components are not yet complete, the last one
\* visited first; the others are labelled.
Stacked ==
  /\ back = {} /\ active = ToSet(top) /\ active \subseteq visited /\ visited \ active \subseteq marked
  /\ \A i, j \in 1..Len(top) : i < j => idx[top[j]] < idx[top[i]]
  /\ \A s \in visited : Enabled(s) # {} /\ s \notin GoalStates
  /\ \A s \in States : IF s \in visited THEN idx[s] \in 0..(index - 1) ELSE idx[s] = NoIndex

\* Each call waits for the first of the outcomes it has left.
Called ==
  /\ \A k \in 1..Len(calls) : calls[k].node \in active /\ low[calls[k].node] < NoIndex
  /\ \A j, k \in 1..Len(calls) : j < k => idx[calls[k].node] < idx[calls[j].node]
  /\ \A k \in 2..Len(calls) : calls[k].rest # <<>> /\ Head(calls[k].rest) = calls[k - 1].node
  /\ pc = "visit" => calls # <<>>
  /\ pc # "visit" /\ calls # <<>> => calls[1].rest # <<>> /\ Head(calls[1].rest) = node
  /\ pc = "dfs" => node \notin visited
  /\ pc = "return" /\ ~result /\ calls # <<>> =>
       node \in marked \/ (node \in active /\ idx[calls[1].node] < idx[node])

\* The search begins with the entry asked for, and when that is labelled, so is all it has
\* visited.
Asked ==
  /\ calls # <<>> => calls[Len(calls)].node = asked
  /\ pc = "dfs" /\ calls = <<>> => node = asked /\ visited = {}
  /\ asked \in visited => \A s \in visited : idx[asked] <= idx[s]
  /\ asked \in marked => pc = "return" /\ calls = <<>> /\ visited \subseteq marked
  /\ visited # {} => asked \in visited

\* Nothing was updated below the k-th call.
Sound(k) ==
  /\ ~(pc = "update" \/ (pc = "return" /\ result))
  /\ \A j \in 1..k : ~calls[j].flag

\* An outcome of an entry in the subtree of the k-th call is labelled, still to come, or
\* known to the call as a way up the list.
Seen(k, s, t) ==
  \/ t \in marked
  \/ \E j \in 1..k : calls[j].node = s /\ t \in ToSet(calls[j].rest)
  \/ /\ t \in active
     /\ \/ idx[calls[k].node] <= idx[t]
        \/ \E j \in 1..k : low[calls[j].node] <= idx[t]
        \/ pc = "return" /\ low[node] <= idx[t]

Settled(k, s) ==
  \/ FoundDeadEnd(s)
  \/ Residual(s) <= Epsilon /\ \A t \in ToSet(Likely(s, BestAction(V, s))) : Seen(k, s, t)

Settles ==
  \A k \in 1..Len(calls), s \in active :
    Sound(k) /\ idx[calls[k].node] <= idx[s] => Settled(k, s)

\* What holds of the labels during a search and between two.
LabelInv ==
  /\ Labels /\ pc # "lost"
  /\ Searching  => Stacked /\ Called /\ Asked /\ Settles
  /\ ~Searching => visited = {} /\ active = {} /\ calls = <<>> /\ \A s \in States : idx[s] = NoIndex

\* What a step has labelled has earned it.
MarksEarned == \A s \in marked' \ marked : Closed(s)'

LEMMA ValuesKept == ASSUME V \in Values, [Next]_vars PROVE V' \in Values
BY StepBacksUp, BackedUpValues

LEMMA NoIndexIs == NoIndex \in Nat
BY AlgorithmsAssumption DEF NoIndex

LEMMA InitLabels == ASSUME Init PROVE Basics /\ LabelInv
<1>1. V \in Values /\ asked \in States \ GoalStates
  BY SspAssumption DEF Init, Values
<1>2. pc \in {"generate", "idle"}
  BY DEF Init
<1>3. /\ action = NoAction /\ node = asked /\ marked = {} /\ active = {} /\ visited = {}
      /\ index = 0 /\ top = <<>> /\ calls = <<>> /\ result = FALSE
      /\ idx = [s \in States |-> NoIndex] /\ low = idx
  BY DEF Init
<1>4. top \in Seq(States) /\ calls \in Seq(Calls)
  BY <1>3
<1>5. /\ idx \in [States -> Int] /\ low \in [States -> Int] /\ \A s \in States : idx[s] = NoIndex
      /\ index \in Nat /\ index <= NoIndex
  BY <1>3, NoIndexIs
<1>6. Labels
  BY <1>1, <1>3, <1>4, <1>5 DEF Labels
<1>7. Basics
  BY <1>2, <1>3, <1>5, <1>6 DEF Basics
<1> QED BY <1>2, <1>7 DEF LabelInv, Basics, Searching

\* The steps of the client and of the other planners touch no label.
Outside == NewRound \/ NextState \/ Generate \/ Sweep \/ ViNext \/ RandomNext \/ GiveUp \/ Decide
             \/ AspTrial \/ AspStep \/ AspStop \/ AspNext \/ HdpDecide \/ HdpNext

LEMMA AnswerType == ASSUME Labels, Answer PROVE action' \in Actions \cup {NoAction} /\ pc' \in {"idle", "undefined"}
<1>1. BestAction(V, asked) \in Actions \cup {NoAction}
  <2>1. CASE BestAction(V, asked) = NoAction
    BY <2>1
  <2>2. CASE BestAction(V, asked) # NoAction
    BY <2>2, GreedyType DEF Labels, Enabled
  <2> QED BY <2>1, <2>2
<1> QED BY <1>1 DEF Answer

LEMMA OutsideKept == ASSUME Basics, Outside PROVE Basics' /\ LabelInv' /\ marked' = marked
<1>1. V' \in Values
  <2>1. Next
    BY DEF Outside, Next, Compute
  <2> QED BY <2>1, ValuesKept DEF Basics, Labels
<1>2. /\ pc \notin {"dfs", "visit", "update", "return", "lost"}
      /\ UNCHANGED <<marked, active, idx, low, top, visited, calls, result>>
      /\ index' \in {index, 0}
  <2>1. CASE NewRound \/ NextState \/ Generate \/ Sweep
    BY <2>1 DEF NewRound, NextState, Generate, Sweep, labels
  <2>2. CASE ViNext \/ RandomNext \/ GiveUp \/ Decide
    BY <2>2 DEF ViNext, RandomNext, GiveUp, Decide, labels
  <2>3. CASE AspTrial \/ AspStep \/ AspStop \/ AspNext
    BY <2>3 DEF AspTrial, AspStep, AspStop, AspNext, labels
  <2>4. CASE HdpDecide \/ HdpNext
    BY <2>4 DEF HdpDecide, HdpNext, labels
  <2> QED BY <2>1, <2>2, <2>3, <2>4 DEF Outside
<1>3. Labels
  BY DEF Basics
<1>4. asked' \in States \ GoalStates /\ action' \in Actions \cup {NoAction} /\ node' \in States
  <2>1. CASE NewRound
    BY <1>3, <2>1, SspAssumption DEF NewRound, Labels
  <2>2. CASE NextState
    <3>1. action \in Actions /\ asked' \in Successors(asked, action) \ GoalStates
      BY <1>3, <2>2 DEF NextState, Labels
    <3>2. asked' \in States
      BY <1>3, <3>1, SuccessorsType DEF Labels
    <3> QED BY <1>3, <2>2, <3>1, <3>2 DEF NextState, Labels
  <2>3. CASE Generate \/ Sweep
    BY <1>3, <2>3 DEF Generate, Sweep, Labels
  <2>4. CASE ViNext \/ AspNext \/ HdpNext
    <3>1. Answer /\ UNCHANGED <<asked, node>>
      BY <2>4 DEF ViNext, AspNext, HdpNext
    <3> QED BY <1>3, <3>1, AnswerType DEF Labels
  <2>5. CASE RandomNext
    BY <1>3, <2>5 DEF RandomNext, Labels, Enabled
  <2>6. CASE GiveUp \/ Decide \/ AspStop \/ HdpDecide
    BY <1>3, <2>6 DEF GiveUp, Decide, AspStop, HdpDecide, Labels
  <2>7. CASE AspTrial
    BY <1>3, <2>7 DEF AspTrial, Labels
  <2>8. CASE AspStep
    <3>1. UNCHANGED <<asked, action>>
      BY <2>8 DEF AspStep
    <3>2. CASE Best(V, node).action = NoAction
      BY <1>3, <2>8, <3>1, <3>2 DEF AspStep, Labels
    <3>3. CASE Best(V, node).action # NoAction
      <4>1. node' \in Successors(node, BestAction(V, node))
        BY <2>8, <3>3 DEF AspStep, BestAction
      <4>2. BestAction(V, node) \in Actions
        BY <1>3, <3>3, GreedyType DEF Labels, BestAction, Enabled
      <4> QED BY <1>3, <3>1, <4>1, <4>2, SuccessorsType DEF Labels
    <3> QED BY <3>2, <3>3
  <2> QED BY <2>1, <2>2, <2>3, <2>4, <2>5, <2>6, <2>7, <2>8 DEF Outside
<1>5. pc' \notin {"dfs", "visit", "update", "return", "lost"}
  <2>1. CASE NewRound \/ NextState \/ Generate \/ Sweep
    BY <1>2, <2>1 DEF NewRound, NextState, Generate, Sweep
  <2>2. CASE ViNext \/ AspNext \/ HdpNext
    <3>1. Answer
      BY <2>2 DEF ViNext, AspNext, HdpNext
    <3> QED BY <3>1, <1>3, AnswerType
  <2>3. CASE RandomNext \/ GiveUp \/ Decide \/ HdpDecide
    BY <2>3 DEF RandomNext, GiveUp, Decide, HdpDecide
  <2>4. CASE AspTrial \/ AspStep \/ AspStop
    BY <1>2, <2>4 DEF AspTrial, AspStep, AspStop
  <2> QED BY <2>1, <2>2, <2>3, <2>4 DEF Outside
<1>6. Labels'
  BY <1>1, <1>2, <1>3, <1>4, NoIndexIs DEF Labels, NoIndex
<1>7. Basics'
  BY <1>2, <1>5, <1>6 DEF Basics, Searching
<1> QED BY <1>2, <1>5, <1>7 DEF LabelInv, Basics, Searching

LEMMA DepthIs ==
  ASSUME NEW s \in ToSet(top), top \in Seq(States)
  PROVE  Depth(s) \in 1..Len(top) /\ top[Depth(s)] = s
<1>1. \E i \in 1..Len(top) : top[i] = s
  BY SetOf
<1> QED BY <1>1 DEF Depth

LEMMA PieceIs ==
  ASSUME NEW q \in Seq(States), NEW m \in 1..(Len(q) + 1), NEW n \in 0..Len(q)
  PROVE  SubSeq(q, m, n) \in Seq(States)
OBVIOUS

LEMMA TailIs == ASSUME NEW S, NEW q \in Seq(S) PROVE Tail(q) \in Seq(S)
<1>1. CASE q = <<>>
  BY <1>1
<1>2. CASE q # <<>>
  BY <1>2
<1> QED BY <1>1, <1>2

LEMMA JoinIs == ASSUME NEW q \in Seq(States), NEW r \in Seq(States) PROVE q \o r \in Seq(States)
OBVIOUS

LEMMA VisitBasics == ASSUME Basics, DfsVisit PROVE Basics'
<1>1. Labels /\ active \subseteq visited /\ (\A s \in States \ visited : idx[s] = NoIndex) /\ pc' = "visit"
  BY DEF Basics, DfsVisit
<1>2. PICK new : new = [node |-> node, rest |-> Likely(node, BestAction(V, node)), flag |-> FALSE]
  OBVIOUS
<1>3. /\ visited' = visited \cup {node} /\ active' = active \cup {node}
      /\ index' = (IF index = MaxIndex THEN 0 ELSE index + 1) /\ calls' = <<new>> \o calls
      /\ idx' = [idx EXCEPT ![node] = index] /\ low' = [low EXCEPT ![node] = index]
      /\ UNCHANGED <<V, asked, action, node, marked, result>>
  BY <1>2 DEF DfsVisit
<1>4. BestAction(V, node) \in Actions
  BY <1>1, GreedyType DEF Labels, Enabled, DfsVisit, Open
<1>5. new \in Calls
  BY <1>1, <1>2, <1>4, LikelyType DEF Labels, Calls
<1>6. calls' \in Seq(Calls) /\ calls' # <<>>
  <2>1. calls' \in Seq(Calls) /\ Len(calls') = Len(calls) + 1 /\ Len(calls) \in Nat
    BY <1>1, <1>3, <1>5, PushedIs DEF Labels
  <2> QED BY <2>1
<1>7. top' \in Seq(States)
  <2>1. node \in States /\ top \in Seq(States) /\ <<node>> \in Seq(States)
    BY <1>1 DEF Labels
  <2>2. CASE node \in ToSet(top)
    <3>1. top' = <<node>> \o SubSeq(top, 1, Depth(node) - 1)
      BY <2>2 DEF DfsVisit
    <3>2. Depth(node) \in 1..Len(top)
      BY <2>1, <2>2, DepthIs
    <3>3. Len(top) \in Nat /\ 1 \in 1..(Len(top) + 1) /\ Depth(node) - 1 \in 0..Len(top)
      BY <2>1, <3>2
    <3>4. SubSeq(top, 1, Depth(node) - 1) \in Seq(States)
      BY <2>1, <3>3, PieceIs
    <3> QED BY <2>1, <3>1, <3>4, JoinIs
  <2>3. CASE node \notin ToSet(top)
    BY <2>1, <2>3, JoinIs DEF DfsVisit
  <2> QED BY <2>2, <2>3
<1>8. idx' \in [States -> Int] /\ low' \in [States -> Int] /\ index' \in Nat /\ index' <= NoIndex
  BY <1>1, <1>3, NoIndexIs DEF Labels, NoIndex
<1>9. Labels'
  BY <1>1, <1>3, <1>6, <1>7, <1>8 DEF Labels
<1>10. \A s \in States \ visited' : idx'[s] = NoIndex
  BY <1>1, <1>3 DEF Labels
<1> QED BY <1>1, <1>3, <1>6, <1>9, <1>10 DEF Basics, Searching, NoIndex

LEMMA ChildBasics == ASSUME Basics, VisitChild PROVE Basics'
<1>1. /\ Labels /\ active \subseteq visited /\ (\A s \in States \ visited : idx[s] = NoIndex)
      /\ calls # <<>> /\ calls \in Seq(Calls)
  BY DEF Basics, VisitChild, Labels
<1>2. PICK f, h : f = Head(calls) /\ f.rest # <<>> /\ h = Head(f.rest)
  BY DEF VisitChild
<1>3. f \in Calls /\ f = calls[1]
  BY <1>1, <1>2
<1>4. f.node \in States /\ f.rest \in Seq(States) /\ f.flag \in BOOLEAN
  BY <1>3 DEF Calls
<1>5. h \in States /\ Tail(f.rest) \in Seq(States)
  BY <1>2, <1>4, TailIs
<1>6. UNCHANGED <<V, asked, action, marked, active, idx, top, visited, index, result>>
  BY DEF VisitChild
<1>7. CASE idx[h] = NoIndex
  <2>1. pc' = "dfs" /\ node' = h /\ low' = low /\ calls' = calls
    BY <1>2, <1>7 DEF VisitChild
  <2>2. Labels'
    BY <1>1, <1>5, <1>6, <2>1, NoIndexIs DEF Labels, NoIndex
  <2> QED BY <1>1, <1>6, <2>1, <2>2 DEF Basics, Searching, NoIndex
<1>8. CASE idx[h] # NoIndex
  <2>1. /\ pc' = pc /\ node' = node /\ pc = "visit"
        /\ low' = IF h \in active THEN [low EXCEPT ![f.node] = Least(@, idx[h])] ELSE low
        /\ calls' = <<[node |-> f.node, rest |-> Tail(f.rest), flag |-> f.flag]>> \o Tail(calls)
    BY <1>2, <1>8 DEF VisitChild, GoOn
  <2>2. PICK c : c = [node |-> f.node, rest |-> Tail(f.rest), flag |-> f.flag]
    OBVIOUS
  <2>3. c \in Calls /\ Tail(calls) \in Seq(Calls) /\ calls' = <<c>> \o Tail(calls)
    BY <1>1, <1>4, <1>5, <2>1, <2>2 DEF Calls
  <2>4. calls' \in Seq(Calls) /\ calls' # <<>>
    BY <2>3
  <2>5. low' \in [States -> Int]
    BY <1>1, <1>5, <2>1 DEF Labels, Least
  <2>6. Labels'
    BY <1>1, <1>6, <2>1, <2>4, <2>5, NoIndexIs DEF Labels, NoIndex
  <2> QED BY <1>1, <1>6, <2>1, <2>4, <2>6 DEF Basics, Searching, NoIndex
<1> QED BY <1>7, <1>8

LEMMA ReturnBasics == ASSUME Basics, DfsReturn PROVE Basics'
<1>1. /\ Labels /\ active \subseteq visited /\ (\A s \in States \ visited : idx[s] = NoIndex)
      /\ calls # <<>> /\ calls \in Seq(Calls) /\ pc' = "visit"
  BY DEF Basics, DfsReturn, Labels
<1>2. PICK f : f = Head(calls)
  OBVIOUS
<1>3. f \in Calls
  BY <1>1, <1>2
<1>4. f.node \in States /\ f.rest \in Seq(States) /\ f.flag \in BOOLEAN
  BY <1>3 DEF Calls
<1>5. UNCHANGED <<V, asked, action, node, marked, active, idx, top, visited, index, result>>
  BY DEF DfsReturn
<1>6. /\ low' = [low EXCEPT ![f.node] = Least(@, low[node])]
      /\ calls' = <<[node |-> f.node, rest |-> Tail(f.rest), flag |-> f.flag \/ result]>> \o Tail(calls)
  BY <1>2 DEF DfsReturn, GoOn
<1>7. PICK c : c = [node |-> f.node, rest |-> Tail(f.rest), flag |-> f.flag \/ result]
  OBVIOUS
<1>8. Tail(f.rest) \in Seq(States) /\ (f.flag \/ result) \in BOOLEAN
  <2>1. (f.flag \/ result) \in BOOLEAN
    OBVIOUS
  <2>2. Tail(f.rest) \in Seq(States)
    BY <1>4, TailIs
  <2> QED BY <2>1, <2>2
<1>9. c \in Calls /\ Tail(calls) \in Seq(Calls) /\ calls' = <<c>> \o Tail(calls)
  BY <1>1, <1>4, <1>6, <1>7, <1>8 DEF Calls
<1>10. calls' \in Seq(Calls) /\ calls' # <<>>
  BY <1>9
<1>11. low' \in [States -> Int]
  BY <1>1, <1>6 DEF Labels, Least
<1>12. Labels'
  BY <1>1, <1>5, <1>10, <1>11, NoIndexIs DEF Labels, NoIndex
<1> QED BY <1>1, <1>5, <1>10, <1>12 DEF Basics, Searching, NoIndex

LEMMA LabelledBasics ==
  ASSUME Labels, NEW s \in ToSet(top), Labelled(s)
  PROVE  marked' \subseteq States /\ active' \subseteq active /\ top' \in Seq(States)
<1>1. top \in Seq(States) /\ Len(top) \in Nat /\ \A i \in 1..Len(top) : top[i] \in States
  BY DEF Labels
<1>2. Depth(s) \in 1..Len(top)
  BY <1>1, DepthIs
<1>3. Component(s) \subseteq States /\ Component(s) \subseteq ToSet(top)
  <2>1. \A i \in 1..Depth(s) : i \in 1..Len(top)
    BY <1>1, <1>2
  <2> QED BY <1>1, <2>1, SetOf DEF Component
<1>4. SubSeq(top, Depth(s) + 1, Len(top)) \in Seq(States)
  BY <1>1, <1>2, PieceIs
<1>5. CASE Circles(s)
  <2>1. PICK x : x = CHOOSE y \in back : TRUE
    OBVIOUS
  <2>2. x \in ToSet(top)
    BY <1>3, <1>5, <2>1 DEF Circles
  <2>3. Depth(x) \in 1..(Len(top) + 1) /\ Depth(s) \in 0..Len(top)
    BY <1>1, <1>2, <2>2, DepthIs
  <2>4. SubSeq(top, Depth(x), Depth(s)) \in Seq(States)
    BY <1>1, <2>3, PieceIs
  <2>5. top' = SubSeq(top, Depth(s) + 1, Len(top)) \o SubSeq(top, Depth(x), Depth(s))
    BY <1>5, <2>1 DEF Labelled, Remaining
  <2>6. top' \in Seq(States)
    BY <1>4, <2>4, <2>5, JoinIs
  <2> QED BY <1>3, <2>6 DEF Labelled, Labels
<1>6. CASE ~Circles(s)
  <2>1. top' = SubSeq(top, Depth(s) + 1, Len(top)) \o <<>>
    BY <1>6 DEF Labelled, Remaining
  <2>2. <<>> \in Seq(States)
    OBVIOUS
  <2>3. top' \in Seq(States)
    BY <1>4, <2>1, <2>2, JoinIs
  <2> QED BY <1>3, <2>3 DEF Labelled, Labels
<1> QED BY <1>5, <1>6

LEMMA EndBasics == ASSUME Basics, VisitEnd PROVE Basics'
<1>1. /\ Labels /\ active \subseteq visited /\ (\A s \in States \ visited : idx[s] = NoIndex)
      /\ calls # <<>> /\ calls \in Seq(Calls)
  BY DEF Basics, VisitEnd, Labels
<1>2. PICK f : f = Head(calls)
  OBVIOUS
<1>3. f \in Calls /\ Tail(calls) \in Seq(Calls)
  BY <1>1, <1>2
<1>4. f.node \in States /\ f.flag \in BOOLEAN
  BY <1>3 DEF Calls
<1>5. /\ UNCHANGED <<V, asked, action, idx, low, visited, index>>
      /\ calls' = Tail(calls) /\ node' = f.node
      /\ pc' \in {"update", "return"} /\ result' \in {result, FALSE}
  BY <1>2 DEF VisitEnd, Returns
<1>6. marked' \subseteq States /\ active' \subseteq active /\ top' \in Seq(States)
  <2>1. CASE UNCHANGED <<marked, active, top>>
    BY <1>1, <2>1 DEF Labels
  <2>2. CASE f.node \in ToSet(top) /\ Labelled(f.node)
    BY <1>1, <2>2, LabelledBasics
  <2> QED BY <1>2, <2>1, <2>2 DEF VisitEnd
<1>7. Labels'
  BY <1>1, <1>3, <1>4, <1>5, <1>6, NoIndexIs DEF Labels, NoIndex
<1> QED BY <1>1, <1>5, <1>6, <1>7 DEF Basics, Searching, NoIndex

LEMMA SearchBasics ==
  ASSUME Basics, Solve \/ DfsBase \/ DfsResidual \/ DfsUpdate \/ Lost \/ SearchEnd
  PROVE  Basics'
<1>1. Labels /\ active \subseteq visited /\ \A s \in States \ visited : idx[s] = NoIndex
  BY DEF Basics
<1>2. V' \in Values
  BY <1>1, ValuesKept DEF Labels, Next, Compute
<1>3. CASE Solve
  <2>1. visited = {} /\ calls = <<>> /\ pc' \in {"answer", "dfs"} /\ node' \in {node, asked}
        /\ UNCHANGED <<asked, action, marked, active, idx, low, visited, index, calls, result>>
    BY <1>3 DEF Basics, Solve, Searching
  <2>2. top' = top \/ top' = <<>>
    BY <1>3 DEF Solve
  <2>3. top' \in Seq(States) /\ node' \in States
    <3>1. <<>> \in Seq(States)
      OBVIOUS
    <3> QED BY <1>1, <2>1, <2>2, <3>1 DEF Labels
  <2>4. Labels'
    BY <1>1, <1>2, <2>1, <2>3, NoIndexIs DEF Labels, NoIndex
  <2> QED BY <1>1, <2>1, <2>4 DEF Basics, Searching, NoIndex
<1>4. CASE DfsBase
  <2>1. /\ pc' = "return" /\ result' = FALSE /\ marked' = marked \cup {node}
        /\ UNCHANGED <<asked, action, node, active, idx, low, top, visited, index, calls>>
    BY <1>4 DEF DfsBase, Returns
  <2>2. Labels'
    BY <1>1, <1>2, <2>1, NoIndexIs DEF Labels, NoIndex
  <2> QED BY <1>1, <2>1, <2>2 DEF Basics, Searching, NoIndex
<1>5. CASE DfsResidual
  <2>1. /\ pc' = "update"
        /\ UNCHANGED <<asked, action, node, marked, active, idx, low, top, visited, index, calls, result>>
    BY <1>5 DEF DfsResidual, labels
  <2>2. Labels'
    BY <1>1, <1>2, <2>1, NoIndexIs DEF Labels, NoIndex
  <2> QED BY <1>1, <2>1, <2>2 DEF Basics, Searching, NoIndex
<1>6. CASE DfsUpdate
  <2>1. /\ pc' \in {"update", "return"} /\ result' \in {result, TRUE}
        /\ UNCHANGED <<asked, action, node, marked, active, idx, low, top, visited, index, calls>>
    BY <1>6 DEF DfsUpdate, Returns
  <2>2. Labels'
    BY <1>1, <1>2, <2>1, NoIndexIs DEF Labels, NoIndex
  <2> QED BY <1>1, <2>1, <2>2 DEF Basics, Searching, NoIndex
<1>7. CASE Lost
  <2>1. /\ pc' = "lost"
        /\ UNCHANGED <<asked, action, node, marked, active, idx, low, top, visited, index, calls, result>>
    BY <1>7 DEF Lost, labels
  <2>2. Labels'
    BY <1>1, <1>2, <2>1, NoIndexIs DEF Labels, NoIndex
  <2> QED BY <1>1, <2>1, <2>2 DEF Basics, Searching, NoIndex
<1>8. CASE SearchEnd
  <2>1. /\ UNCHANGED <<asked, action, node, top, index, calls, result>> /\ pc' = "solve" /\ calls = <<>>
        /\ marked' = (IF asked \in marked THEN marked \cup visited ELSE marked \ visited)
        /\ active' = active \ visited /\ visited' = {}
        /\ idx' = [s \in States |-> IF s \in visited THEN NoIndex ELSE idx[s]]
        /\ low' = [s \in States |-> IF s \in visited THEN NoIndex ELSE low[s]]
    BY <1>8 DEF SearchEnd
  <2>2. idx' \in [States -> Int] /\ low' \in [States -> Int] /\ \A s \in States : idx'[s] = NoIndex
    BY <1>1, <2>1, NoIndexIs DEF Labels
  <2>3. Labels'
    BY <1>1, <1>2, <2>1, <2>2, NoIndexIs DEF Labels, NoIndex
  <2> QED BY <1>1, <2>1, <2>2, <2>3 DEF Basics, Searching, NoIndex
<1> QED BY <1>3, <1>4, <1>5, <1>6, <1>7, <1>8

LEMMA StepBasics == ASSUME Basics, [Next]_vars PROVE Basics'
<1>1. CASE Outside
  BY <1>1, OutsideKept
<1>2. CASE DfsVisit \/ VisitChild \/ VisitEnd \/ DfsReturn
  BY <1>2, VisitBasics, ChildBasics, EndBasics, ReturnBasics
<1>3. CASE Solve \/ DfsBase \/ DfsResidual \/ DfsUpdate \/ Lost \/ SearchEnd
  BY <1>3, SearchBasics
<1>4. CASE UNCHANGED vars
  <2>1. /\ UNCHANGED <<V, pc, asked, action, node, marked, active, idx, low, top, visited, index>>
        /\ UNCHANGED <<calls, result>>
    BY <1>4 DEF vars, labels
  <2>2. Labels' <=> Labels
    BY <2>1 DEF Labels, NoIndex
  <2> QED BY <2>1, <2>2 DEF Basics, Searching, NoIndex
<1> QED BY <1>1, <1>2, <1>3, <1>4 DEF Next, Compute, Outside

LEMMA SolveKept == ASSUME LabelInv, Basics', Solve PROVE LabelInv' /\ marked' = marked
<1>1. Labels /\ ~Searching /\ visited = {} /\ active = {} /\ calls = <<>> /\ \A s \in States : idx[s] = NoIndex
  BY DEF LabelInv, Searching, Solve
<1>2. UNCHANGED <<V, asked, action, marked, active, idx, low, visited, index, calls, result>>
  BY DEF Solve
<1>3. CASE asked \in marked
  <2>1. pc' = "answer" /\ node' = node /\ top' = top
    BY <1>3 DEF Solve
  <2>2. Labels'
    BY DEF Basics
  <2>3. visited' = {} /\ active' = {} /\ calls' = <<>> /\ \A s \in States : idx'[s] = NoIndex
    BY <1>1, <1>2
  <2> QED BY <1>2, <2>1, <2>2, <2>3 DEF LabelInv, Searching
<1>4. CASE asked \notin marked
  <2>1. pc' = "dfs" /\ node' = asked /\ top' = <<>> /\ back' = {}
    BY <1>4 DEF Solve
  <2>2. Labels'
    BY DEF Basics
  <2>3. Len(calls') = 0 /\ 1..0 = {} /\ 2..0 = {}
    BY <1>1, <1>2
  <2>4. Stacked'
    BY <1>1, <1>2, <2>1, EmptySet DEF Stacked
  <2>5. Called'
    BY <1>1, <1>2, <2>1, <2>3 DEF Called
  <2>6. Asked'
    BY <1>1, <1>2, <1>4, <2>1 DEF Asked
  <2>7. Settles'
    BY <1>2, <1>1 DEF Settles
  <2> QED BY <1>2, <2>1, <2>2, <2>4, <2>5, <2>6, <2>7 DEF LabelInv, Searching
<1> QED BY <1>2, <1>3, <1>4

\* While a residual is being taken away nothing else is claimed.
LEMMA ResidualKept == ASSUME LabelInv, Basics', DfsResidual PROVE LabelInv' /\ marked' = marked
<1>1. Labels /\ Stacked /\ Called /\ Asked /\ pc = "dfs" /\ pc' = "update"
  BY DEF LabelInv, Searching, DfsResidual, Open
<1>2. UNCHANGED <<V, asked, action, node, marked, active, idx, low, top, back, visited, index, calls, result>>
  BY DEF DfsResidual, labels
<1>3. Labels'
  BY DEF Basics
<1>4. Stacked'
  BY <1>1, <1>2 DEF Stacked
<1>5. Called'
  BY <1>1, <1>2 DEF Called
<1>6. Asked'
  BY <1>1, <1>2 DEF Asked
<1>7. Settles'
  BY <1>1 DEF Settles, Sound
<1> QED BY <1>1, <1>2, <1>3, <1>4, <1>5, <1>6, <1>7 DEF LabelInv, Searching

LEMMA UpdateKept == ASSUME LabelInv, Basics', DfsUpdate PROVE LabelInv' /\ marked' = marked
<1>1. Labels /\ Stacked /\ Called /\ Asked /\ pc = "update"
  BY DEF LabelInv, Searching, DfsUpdate
<1>2. UNCHANGED <<asked, action, node, marked, active, idx, low, top, back, visited, index, calls>>
  BY DEF DfsUpdate
<1>3. (pc' = "update" /\ result' = result) \/ (pc' = "return" /\ result' = TRUE)
  BY <1>1 DEF DfsUpdate, Returns
<1>4. Labels'
  BY DEF Basics
<1>5. Stacked'
  BY <1>1, <1>2 DEF Stacked
<1>6. Called'
  BY <1>1, <1>2, <1>3 DEF Called
<1>7. Asked'
  BY <1>1, <1>2, <1>3 DEF Asked
<1>8. Settles'
  BY <1>3 DEF Settles, Sound
<1> QED BY <1>2, <1>3, <1>4, <1>5, <1>6, <1>7, <1>8 DEF LabelInv, Searching

LEMMA EndKept == ASSUME LabelInv, Basics', SearchEnd PROVE LabelInv' /\ marked' \subseteq marked
<1>1. Asked /\ calls = <<>> /\ pc' = "solve"
  BY DEF LabelInv, Searching, SearchEnd
<1>2. marked' = IF asked \in marked THEN marked \cup visited ELSE marked \ visited
  BY DEF SearchEnd
<1>3. marked' \subseteq marked
  BY <1>1, <1>2 DEF Asked
<1> QED BY <1>1, <1>3 DEF LabelInv, Basics, Searching

\* The value of a dead end concerns only those it is an outcome of.
LEMMA DeadEndElsewhere ==
  ASSUME NEW W \in Values, NEW t \in States, Enabled(t) = {}, NEW X, X = Update(W, t, DeadEndValue),
         NEW s \in States, Enabled(s) # {}, ~FoundDeadEnd(s)
  PROVE  X \in Values /\ X[s] = W[s] /\ Best(X, s) = Best(W, s)
<1>1. DeadEndValue \in Nat /\ Capped(DeadEndValue) = DeadEndValue
  BY SspAssumption DEF Capped
<1>2. X \in Values /\ \A u \in States : X[u] = IF u = t THEN DeadEndValue ELSE W[u]
  BY <1>1, UpdateAt
<1>3. \A u \in States : W[u] <= X[u]
  BY <1>1, <1>2 DEF Values
<1>4. Best(W, s).action \in Enabled(s)
  BY BestIsLeast
<1>5. ASSUME NEW u \in Successors(s, Best(W, s).action) PROVE W[u] = X[u]
  <2>1. u \in States
    BY <1>4, SuccessorsType DEF Enabled
  <2>2. u # t
    BY <1>4, <1>5 DEF FoundDeadEnd
  <2> QED BY <1>2, <2>1, <2>2
<1> QED BY <1>2, <1>3, <1>5, GreedyPersists

LEMMA BaseKept == ASSUME LabelInv, Basics', DfsBase PROVE LabelInv' /\ MarksEarned
<1>1. Labels /\ Stacked /\ Called /\ Asked /\ Settles /\ pc = "dfs" /\ pc' = "return" /\ result' = FALSE
  BY DEF LabelInv, Searching, DfsBase, Returns
<1>2. UNCHANGED <<asked, action, node, active, idx, low, top, back, visited, index, calls>>
  BY DEF DfsBase
<1>3. marked' = marked \cup {node}
  BY DEF DfsBase
<1>4. \/ V' = V /\ node \in marked \cup GoalStates
      \/ Enabled(node) = {} /\ V' = Update(V, node, DeadEndValue)
  BY <1>1, NoActionMeansNone DEF DfsBase, Labels
<1>6. Labels'
  BY DEF Basics
<1>7. Stacked'
  BY <1>1, <1>2, <1>3 DEF Stacked
<1>8. Called'
  BY <1>1, <1>2, <1>3 DEF Called
<1>9. Asked'
  <2>1. ASSUME asked = node PROVE visited = {} /\ calls = <<>>
    <3>1. visited = {}
      BY <1>1, <2>1 DEF Called, Asked
    <3>2. ASSUME calls # <<>> PROVE FALSE
      <4>1. 1 \in 1..Len(calls)
        BY <1>1, <3>2 DEF Labels
      <4> QED BY <1>1, <3>1, <4>1 DEF Called, Stacked
    <3> QED BY <3>1, <3>2
  <2> QED BY <1>1, <1>2, <1>3, <2>1 DEF Asked
<1>10. ASSUME NEW k \in 1..Len(calls), NEW s \in active, Sound(k)', idx[calls[k].node] <= idx[s]
       PROVE  Settled(k, s)'
  <2>1. Sound(k)
    BY <1>1, <1>2, <1>10 DEF Sound
  <2>2. Settled(k, s)
    BY <1>1, <1>10, <2>1 DEF Settles
  <2>3. ASSUME ~FoundDeadEnd(s)
        PROVE  Residual(s)' = Residual(s) /\ BestAction(V', s) = BestAction(V, s)
    <3>1. s \in States /\ Enabled(s) # {}
      BY <1>1 DEF Stacked, Labels
    <3>2. V'[s] = V[s] /\ Best(V', s) = Best(V, s)
      <4>1. CASE V' = V
        BY <4>1
      <4>2. CASE Enabled(node) = {} /\ V' = Update(V, node, DeadEndValue)
        <5>1. V \in Values /\ node \in States
          BY <1>1 DEF Labels
        <5> QED BY <2>3, <3>1, <4>2, <5>1, DeadEndElsewhere
      <4> QED BY <1>4, <4>1, <4>2
    <3> QED BY <3>2 DEF Residual, BestAction, BestValue
  <2>4. \A t : Seen(k, s, t) => Seen(k, s, t)'
    BY <1>1, <1>2, <1>3 DEF Seen
  <2> QED BY <2>2, <2>3, <2>4 DEF Settled
<1>11. Settles'
  BY <1>2, <1>10 DEF Settles
<1>12. MarksEarned
  <2>1. SUFFICES ASSUME NEW s \in marked' \ marked PROVE Closed(s)'
    BY DEF MarksEarned
  <2>2. s = node /\ s \in States
    BY <1>1, <1>3 DEF Labels
  <2>3. s \in GoalStates \/ V'[s] = DeadEndValue
    <3>1. CASE V' = V /\ node \in marked \cup GoalStates
      BY <2>1, <2>2, <3>1
    <3>2. CASE V' = Update(V, node, DeadEndValue)
      <4>1. DeadEndValue \in Nat /\ Capped(DeadEndValue) = DeadEndValue
        BY SspAssumption DEF Capped
      <4> QED BY <1>1, <2>2, <3>2, <4>1, UpdateAt DEF Labels
    <3> QED BY <1>4, <3>1, <3>2
  <2> QED BY <2>3 DEF Closed
<1> QED BY <1>1, <1>6, <1>7, <1>8, <1>9, <1>11, <1>12 DEF LabelInv, Searching

\* Before the index comes round the entry gets one that none on the list has, and that is
\* not taken for none.
LEMMA VisitKept == ASSUME LabelInv, Basics', DfsVisit, ~spent' PROVE LabelInv' /\ marked' = marked
<1>1. Labels /\ Stacked /\ Called /\ Asked /\ Settles /\ pc = "dfs" /\ pc' = "visit"
  BY DEF LabelInv, Searching, DfsVisit, Open
<1>2. UNCHANGED <<V, asked, action, node, marked, result>>
  BY DEF DfsVisit
<1>3. PICK new : new = [node |-> node, rest |-> Likely(node, BestAction(V, node)), flag |-> FALSE]
  OBVIOUS
<1>4. /\ visited' = visited \cup {node} /\ active' = active \cup {node} /\ index' = index + 1
      /\ top' = <<node>> \o top /\ back' = {} /\ calls' = <<new>> \o calls
      /\ idx' = [idx EXCEPT ![node] = index] /\ low' = [low EXCEPT ![node] = index]
  <2>1. node \notin ToSet(top)
    BY <1>1 DEF Called, Stacked
  <2>2. index # MaxIndex
    BY DEF DfsVisit
  <2> QED BY <1>1, <1>3, <2>1, <2>2 DEF DfsVisit, Stacked
<1>5. node \notin GoalStates /\ BestAction(V, node) # NoAction /\ Residual(node) <= Epsilon
  BY DEF DfsVisit, Open
<1>6. BestAction(V, node) \in Enabled(node) /\ BestAction(V, node) \in Actions
  BY <1>1, <1>5, GreedyType DEF Labels, Enabled
<1>7. new \in Calls /\ new.node = node /\ ~new.flag /\ new.rest = Likely(node, BestAction(V, node))
  BY <1>1, <1>3, <1>6, LikelyType DEF Labels, Calls
<1>8. /\ calls' \in Seq(Calls) /\ Len(calls') = Len(calls) + 1 /\ calls'[1] = new /\ Len(calls) \in Nat
      /\ \A i \in 1..Len(calls) : calls'[i + 1] = calls[i]
      /\ \A i \in 2..Len(calls') : i - 1 \in 1..Len(calls) /\ calls'[i] = calls[i - 1]
  BY <1>1, <1>4, <1>7, PushedIs DEF Labels
<1>9. /\ top' \in Seq(States) /\ Len(top') = Len(top) + 1 /\ top'[1] = node /\ Len(top) \in Nat
      /\ \A i \in 1..Len(top) : top'[i + 1] = top[i]
      /\ \A i \in 2..Len(top') : i - 1 \in 1..Len(top) /\ top'[i] = top[i - 1]
  BY <1>1, <1>4, PushedIs DEF Labels
<1>10. /\ node \notin visited /\ node \notin active /\ active \subseteq visited /\ visited \subseteq States
       /\ idx'[node] = index /\ low'[node] = index
       /\ \A s \in visited : /\ idx'[s] = idx[s] /\ low'[s] = low[s]
                             /\ idx[s] \in 0..(index - 1) /\ idx[s] < index
  BY <1>1, <1>4 DEF Labels, Called, Stacked
<1>11. Labels'
  BY DEF Basics
<1>12. Stacked'
  <2>1. active' = ToSet(top')
    BY <1>1, <1>4, FrontOf DEF Labels, Stacked
  <2>2. ASSUME NEW i \in 1..Len(top'), NEW j \in 1..Len(top'), i < j PROVE idx'[top'[j]] < idx'[top'[i]]
    <3>1. j \in 2..Len(top') /\ j - 1 \in 1..Len(top) /\ top'[j] = top[j - 1]
      BY <1>9, <2>2
    <3>2. top[j - 1] \in visited
      <4>1. top[j - 1] \in ToSet(top)
        BY <1>1, <3>1, SetOf DEF Labels
      <4> QED BY <1>1, <4>1 DEF Stacked
    <3>3. CASE i = 1
      BY <1>9, <1>10, <3>1, <3>2, <3>3
    <3>4. CASE i # 1
      <4>1. i \in 2..Len(top') /\ i - 1 \in 1..Len(top) /\ top'[i] = top[i - 1] /\ i - 1 < j - 1
        BY <1>9, <2>2, <3>4
      <4>2. top[i - 1] \in visited
        <5>1. top[i - 1] \in ToSet(top)
          BY <1>1, <4>1, SetOf DEF Labels
        <5> QED BY <1>1, <5>1 DEF Stacked
      <4> QED BY <1>1, <1>10, <3>1, <3>2, <4>1, <4>2 DEF Stacked
    <3> QED BY <3>3, <3>4
  <2>3. \A s \in visited' : Enabled(s) # {} /\ s \notin GoalStates
    BY <1>1, <1>4, <1>5, <1>6 DEF Stacked
  <2>4. \A s \in States : IF s \in visited' THEN idx'[s] \in 0..(index' - 1) ELSE idx'[s] = NoIndex
    <3>1. ASSUME NEW s \in States, s # node PROVE idx'[s] = idx[s]
      BY <1>1, <1>4, <3>1 DEF Labels
    <3>2. index \in Nat
      BY <1>1 DEF Labels
    <3> QED BY <1>1, <1>4, <1>10, <3>1, <3>2 DEF Stacked
  <2>5. active' \subseteq visited' /\ visited' \ active' \subseteq marked'
    BY <1>1, <1>2, <1>4 DEF Stacked
  <2> QED BY <1>4, <2>1, <2>2, <2>3, <2>4, <2>5 DEF Stacked
<1>13. ASSUME NEW k \in 1..Len(calls)
       PROVE  calls[k].node \in active /\ calls[k].node \in visited /\ calls[k].node # node
  BY <1>1, <1>10 DEF Called
<1>14. ASSUME NEW k \in 1..Len(calls') PROVE k = 1 \/ (k \in 2..Len(calls') /\ k - 1 \in 1..Len(calls))
  BY <1>8
<1>15. Called'
  <2>1. ASSUME NEW k \in 1..Len(calls') PROVE calls'[k].node \in active' /\ low'[calls'[k].node] < NoIndex
    <3>1. CASE k = 1
      <4>1. index # MaxIndex
        BY DEF DfsVisit
      <4>2. index < NoIndex
        BY <1>1, <4>1, NoIndexIs DEF Labels, NoIndex
      <4> QED BY <1>1, <1>4, <1>7, <1>8, <1>10, <3>1, <4>2 DEF Labels
    <3>2. CASE k \in 2..Len(calls') /\ k - 1 \in 1..Len(calls)
      BY <1>1, <1>4, <1>8, <1>10, <1>13, <3>2 DEF Called
    <3> QED BY <1>14, <3>1, <3>2
  <2>2. ASSUME NEW j \in 1..Len(calls'), NEW k \in 1..Len(calls'), j < k
        PROVE  idx'[calls'[k].node] < idx'[calls'[j].node]
    <3>1. k \in 2..Len(calls') /\ k - 1 \in 1..Len(calls) /\ calls'[k] = calls[k - 1]
      BY <1>8, <1>14, <2>2
    <3>2. CASE j = 1
      BY <1>7, <1>8, <1>10, <1>13, <3>1, <3>2
    <3>3. CASE j \in 2..Len(calls') /\ j - 1 \in 1..Len(calls)
      <4>1. j - 1 < k - 1
        BY <2>2
      <4>2. idx[calls[k - 1].node] < idx[calls[j - 1].node]
        BY <1>1, <3>1, <3>3, <4>1 DEF Called
      <4> QED BY <1>8, <1>10, <1>13, <3>1, <3>3, <4>2
    <3> QED BY <1>14, <3>2, <3>3
  <2>3. ASSUME NEW k \in 2..Len(calls')
        PROVE  calls'[k].rest # <<>> /\ Head(calls'[k].rest) = calls'[k - 1].node
    <3>1. k - 1 \in 1..Len(calls) /\ calls'[k] = calls[k - 1]
      BY <1>8
    <3>2. CASE k = 2
      <4>1. calls # <<>> /\ pc # "visit"
        BY <1>1, <1>8, <3>2
      <4> QED BY <1>1, <1>7, <1>8, <3>1, <3>2, <4>1 DEF Called
    <3>3. CASE k # 2
      <4>1. k - 1 \in 2..Len(calls) /\ k - 1 \in 2..Len(calls') /\ (k - 1) - 1 = k - 2
        BY <1>8, <3>1, <3>3
      <4>2. calls'[k - 1] = calls[k - 2]
        BY <1>8, <4>1
      <4> QED BY <1>1, <3>1, <4>1, <4>2 DEF Called
    <3> QED BY <3>2, <3>3
  <2>4. calls' # <<>>
    BY <1>8
  <2> QED BY <1>1, <2>1, <2>2, <2>3, <2>4 DEF Called
<1>16. Asked'
  <2>1. CASE calls = <<>>
    <3>1. node = asked /\ visited = {} /\ Len(calls') = 1
      BY <1>1, <1>8, <2>1 DEF Asked
    <3>2. calls'[Len(calls')].node = asked
      BY <1>7, <1>8, <3>1
    <3>3. visited' = {asked}
      BY <1>4, <3>1
    <3>4. idx'[asked] <= idx'[asked]
      BY <1>1, <1>10, <3>1 DEF Labels
    <3> QED BY <1>1, <1>2, <3>2, <3>3, <3>4 DEF Asked
  <2>2. CASE calls # <<>>
    <3>1. Len(calls) \in 1..Len(calls) /\ Len(calls) + 1 = Len(calls')
      BY <1>1, <1>8, <2>2 DEF Labels
    <3>2. calls'[Len(calls')] = calls[Len(calls)]
      BY <1>8, <3>1
    <3>3. calls[Len(calls)].node = asked /\ asked \in visited
      BY <1>1, <1>13, <2>2, <3>1 DEF Asked
    <3>4. \A s \in visited' : idx'[asked] <= idx'[s]
      <4>1. \A s \in visited : idx'[asked] <= idx'[s]
        BY <1>1, <1>10, <3>3 DEF Asked
      <4>2. idx'[asked] <= index
        BY <1>1, <1>10, <3>3 DEF Labels
      <4> QED BY <1>4, <1>10, <4>1, <4>2
    <3> QED BY <1>1, <1>2, <1>4, <3>2, <3>3, <3>4 DEF Asked
  <2> QED BY <2>1, <2>2
<1>17. ASSUME NEW k \in 1..Len(calls'), NEW s \in active', Sound(k)', idx'[calls'[k].node] <= idx'[s]
       PROVE  Settled(k, s)'
  <2>1. CASE s = node
    <3>1. Residual(s)' <= Epsilon /\ BestAction(V', s) = BestAction(V, node)
      BY <1>2, <1>5, <2>1 DEF Residual
    <3>2. ASSUME NEW t \in ToSet(Likely(node, BestAction(V, node))) PROVE Seen(k, s, t)'
      <4>1. 1 \in 1..k /\ calls'[1].node = s /\ t \in ToSet(calls'[1].rest)
        BY <1>7, <1>8, <2>1
      <4> QED BY <4>1 DEF Seen
    <3> QED BY <2>1, <3>1, <3>2 DEF Settled
  <2>2. CASE s # node
    <3>1. s \in active /\ s \in visited
      BY <1>4, <1>10, <2>2
    <3>2. k \in 2..Len(calls') /\ k - 1 \in 1..Len(calls) /\ calls'[k] = calls[k - 1]
      <4>1. k # 1
        BY <1>1, <1>7, <1>8, <1>10, <1>17, <3>1 DEF Labels
      <4> QED BY <1>8, <1>14, <4>1
    <3>3. Sound(k - 1)
      <4>1. SUFFICES ASSUME NEW j \in 1..(k - 1) PROVE ~calls[j].flag
        BY <1>1 DEF Sound
      <4>2. j + 1 \in 1..k /\ j \in 1..Len(calls)
        BY <3>2
      <4> QED BY <1>8, <1>17, <4>2 DEF Sound
    <3>4. Settled(k - 1, s)
      <4>1. idx[calls[k - 1].node] <= idx[s]
        BY <1>10, <1>13, <1>17, <3>1, <3>2
      <4> QED BY <1>1, <3>1, <3>2, <3>3, <4>1 DEF Settles
    <3>5. ASSUME NEW t, Seen(k - 1, s, t) PROVE Seen(k, s, t)'
      <4>1. ASSUME NEW j \in 1..(k - 1)
            PROVE  /\ j + 1 \in 1..k /\ calls'[j + 1] = calls[j]
                   /\ low'[calls[j].node] = low[calls[j].node]
        BY <1>8, <1>10, <1>13, <3>2
      <4>2. CASE t \in marked
        BY <1>2, <4>2 DEF Seen
      <4>3. CASE \E j \in 1..(k - 1) : calls[j].node = s /\ t \in ToSet(calls[j].rest)
        BY <4>1, <4>3 DEF Seen
      <4>4. CASE t \in active /\ idx[calls[k - 1].node] <= idx[t]
        BY <1>4, <1>10, <1>13, <3>2, <4>4 DEF Seen
      <4>5. CASE t \in active /\ \E j \in 1..(k - 1) : low[calls[j].node] <= idx[t]
        <5>1. PICK j \in 1..(k - 1) : low[calls[j].node] <= idx[t]
          BY <4>5
        <5>2. t \in active' /\ j + 1 \in 1..k /\ low'[calls'[j + 1].node] <= idx'[t]
          BY <1>4, <1>10, <4>1, <4>5, <5>1
        <5> QED BY <5>2 DEF Seen
      <4> QED BY <1>1, <3>5, <4>2, <4>3, <4>4, <4>5 DEF Seen
    <3>6. Residual(s)' = Residual(s) /\ BestAction(V', s) = BestAction(V, s)
      BY <1>2 DEF Residual
    <3> QED BY <3>4, <3>5, <3>6 DEF Settled
  <2> QED BY <2>1, <2>2
<1>18. Settles'
  BY <1>17 DEF Settles
<1> QED BY <1>1, <1>2, <1>11, <1>12, <1>15, <1>16, <1>18 DEF LabelInv, Searching

\* What becomes of the calls when the last one goes on to its next outcome.
LEMMA GoesOn ==
  ASSUME NEW q \in Seq(Calls), q # <<>>, NEW c \in Calls, c.node = q[1].node, NEW r, r = <<c>> \o Tail(q)
  PROVE  /\ r \in Seq(Calls) /\ Len(r) = Len(q) /\ r[1] = c
         /\ \A i \in 2..Len(q) : r[i] = q[i]
         /\ \A i \in 1..Len(q) : r[i].node = q[i].node
<1>1. PICK t : t = Tail(q)
  OBVIOUS
<1>2. /\ t \in Seq(Calls) /\ Len(t) = Len(q) - 1 /\ Len(q) \in Nat \ {0}
      /\ \A i \in 1..Len(t) : t[i] = q[i + 1] /\ i + 1 \in 2..Len(q)
  BY <1>1, PoppedIs
<1>3. /\ r \in Seq(Calls) /\ Len(r) = Len(t) + 1 /\ r[1] = c
      /\ \A i \in 2..Len(r) : i - 1 \in 1..Len(t) /\ r[i] = t[i - 1]
  BY <1>1, <1>2, PushedIs
<1>4. ASSUME NEW i \in 2..Len(q) PROVE r[i] = q[i]
  <2>1. i - 1 \in 1..Len(t) /\ (i - 1) + 1 = i /\ i \in 2..Len(r)
    BY <1>2, <1>3
  <2> QED BY <1>2, <1>3, <2>1
<1>5. \A i \in 1..Len(q) : i = 1 \/ i \in 2..Len(q)
  BY <1>2
<1> QED BY <1>2, <1>3, <1>4, <1>5

LEMMA ChildKept == ASSUME LabelInv, Basics', VisitChild PROVE LabelInv' /\ marked' = marked
<1>1. /\ Labels /\ Stacked /\ Called /\ Asked /\ Settles /\ pc = "visit"
      /\ calls # <<>> /\ calls \in Seq(Calls)
  BY DEF LabelInv, Searching, VisitChild, Called, Labels
<1>2. PICK f, h : f = calls[1] /\ h = Head(f.rest) /\ f.rest # <<>>
  BY <1>1 DEF VisitChild
<1>3. f = Head(calls) /\ f \in Calls /\ f.rest \in Seq(States) /\ h \in States /\ Len(calls) \in Nat \ {0}
  <2>1. f = Head(calls) /\ f \in Calls /\ Len(calls) \in Nat \ {0}
    BY <1>1, <1>2
  <2>2. f.rest \in Seq(States)
    BY <2>1 DEF Calls
  <2> QED BY <1>2, <2>1, <2>2
<1>4. UNCHANGED <<V, asked, action, marked, active, idx, top, back, visited, index, result>>
  BY DEF VisitChild
<1>5. CASE idx[h] = NoIndex
  <2>1. pc' = "dfs" /\ node' = h /\ low' = low /\ calls' = calls
    BY <1>2, <1>3, <1>5 DEF VisitChild
  <2>2. h \notin visited
    BY <1>1, <1>3, <1>5, NoIndexIs DEF Stacked, Labels
  <2>3. Labels'
    BY DEF Basics
  <2>4. Stacked'
    BY <1>1, <1>4, <2>1 DEF Stacked
  <2>5. Called'
    BY <1>1, <1>2, <1>3, <1>4, <2>1, <2>2 DEF Called
  <2>6. Asked'
    BY <1>1, <1>4, <2>1 DEF Asked
  <2>7. ASSUME NEW k \in 1..Len(calls), NEW s \in active, Sound(k)', idx[calls[k].node] <= idx[s]
        PROVE  Settled(k, s)'
    <3>1. Settled(k, s)
      BY <1>1, <2>1, <2>7 DEF Settles, Sound
    <3>2. \A t : Seen(k, s, t) => Seen(k, s, t)'
      BY <1>1, <1>4, <2>1 DEF Seen
    <3>3. Residual(s)' = Residual(s) /\ BestAction(V', s) = BestAction(V, s)
      BY <1>4 DEF Residual
    <3> QED BY <3>1, <3>2, <3>3 DEF Settled
  <2>8. Settles'
    BY <1>4, <2>1, <2>7 DEF Settles
  <2> QED BY <1>4, <2>1, <2>3, <2>4, <2>5, <2>6, <2>8 DEF LabelInv, Searching
<1>6. CASE idx[h] # NoIndex
  <2>1. /\ pc' = pc /\ node' = node
        /\ low' = IF h \in active THEN [low EXCEPT ![f.node] = Least(@, idx[h])] ELSE low
        /\ calls' = <<[node |-> f.node, rest |-> Tail(f.rest), flag |-> f.flag]>> \o Tail(calls)
    BY <1>2, <1>3, <1>6 DEF VisitChild, GoOn
  <2>2. h \in visited
    BY <1>1, <1>3, <1>6 DEF Stacked
  <2>4. /\ calls' \in Seq(Calls) /\ Len(calls') = Len(calls)
        /\ calls'[1].node = f.node /\ calls'[1].flag = f.flag /\ calls'[1].rest = Tail(f.rest)
        /\ \A i \in 2..Len(calls) : calls'[i] = calls[i]
        /\ \A i \in 1..Len(calls) : calls'[i].node = calls[i].node
    <3>1. PICK c : c = [node |-> f.node, rest |-> Tail(f.rest), flag |-> f.flag]
      OBVIOUS
    <3>2. c \in Calls /\ c.node = f.node /\ c.flag = f.flag /\ c.rest = Tail(f.rest)
      <4>1. f.flag \in BOOLEAN /\ f.node \in States /\ Tail(f.rest) \in Seq(States)
        BY <1>2, <1>3 DEF Calls
      <4> QED BY <3>1, <4>1 DEF Calls
    <3>3. calls' = <<c>> \o Tail(calls)
      BY <2>1, <3>1
    <3> QED BY <1>1, <1>2, <3>2, <3>3, GoesOn
  <2>5. f.node \in active /\ f.node \in States /\ low[f.node] \in Int /\ low[f.node] < NoIndex
    <3>1. 1 \in 1..Len(calls)
      BY <1>3
    <3> QED BY <1>1, <1>2, <3>1 DEF Called, Labels
  <2>6. /\ low' \in [States -> Int] /\ low'[f.node] <= low[f.node]
        /\ h \in active => low'[f.node] <= idx[h]
        /\ \A s \in States : s # f.node => low'[s] = low[s]
    <3>1. idx[h] \in Int /\ low \in [States -> Int]
      BY <1>1, <1>3 DEF Labels
    <3> QED BY <2>1, <2>5, <3>1 DEF Least
  <2>7. Labels'
    BY DEF Basics
  <2>8. Stacked'
    BY <1>1, <1>4 DEF Stacked
  <2>9. \A s \in States : low'[s] <= low[s] /\ (low[s] < NoIndex => low'[s] < NoIndex)
    <3>1. ASSUME NEW s \in States PROVE low'[s] <= low[s]
      <4>1. low[s] \in Int /\ low'[s] \in Int
        BY <1>1, <2>6 DEF Labels
      <4> QED BY <2>6, <4>1
    <3>2. \A s \in States : low[s] \in Int /\ low'[s] \in Int
      BY <1>1, <2>6 DEF Labels
    <3> QED BY <3>1, <3>2, NoIndexIs
  <2>10. \A k \in 1..Len(calls) : calls[k].node \in States
    BY <1>1 DEF Called, Labels
  <2>11. Called'
    <3>1. ASSUME NEW k \in 1..Len(calls') PROVE calls'[k].node \in active' /\ low'[calls'[k].node] < NoIndex
      BY <1>1, <1>4, <2>4, <2>9, <2>10 DEF Called
    <3>2. ASSUME NEW j \in 1..Len(calls'), NEW k \in 1..Len(calls'), j < k
          PROVE  idx'[calls'[k].node] < idx'[calls'[j].node]
      BY <1>1, <1>4, <2>4, <3>2 DEF Called
    <3>3. ASSUME NEW k \in 2..Len(calls')
          PROVE  calls'[k].rest # <<>> /\ Head(calls'[k].rest) = calls'[k - 1].node
      <4>1. calls'[k] = calls[k] /\ k - 1 \in 1..Len(calls) /\ k \in 2..Len(calls)
        BY <1>3, <2>4
      <4> QED BY <1>1, <2>4, <4>1 DEF Called
    <3>4. calls' # <<>>
      BY <1>3, <2>4
    <3> QED BY <1>1, <2>1, <3>1, <3>2, <3>3, <3>4 DEF Called
  <2>12. Asked'
    <3>1. Len(calls) \in 1..Len(calls)
      BY <1>3
    <3>2. calls'[Len(calls')].node = asked
      BY <1>1, <2>4, <3>1 DEF Asked
    <3> QED BY <1>1, <1>4, <2>1, <3>2 DEF Asked
  <2>13. ASSUME NEW k \in 1..Len(calls), NEW s \in active, Sound(k)', idx[calls[k].node] <= idx[s]
         PROVE  Settled(k, s)'
    <3>1. ASSUME NEW j \in 1..Len(calls) PROVE j = 1 \/ j \in 2..Len(calls)
      BY <1>3
    <3>2. \A j \in 1..Len(calls) : calls'[j].flag = calls[j].flag
      BY <1>2, <2>4, <3>1
    <3>3. Sound(k)
      BY <1>1, <2>1, <2>13, <3>2 DEF Sound
    <3>4. Settled(k, s)
      BY <1>1, <2>13, <3>3 DEF Settles
    <3>5. ASSUME NEW t, Seen(k, s, t) PROVE Seen(k, s, t)'
      <4>1. CASE t \in marked
        BY <1>4, <4>1 DEF Seen
      <4>2. CASE \E j \in 1..k : calls[j].node = s /\ t \in ToSet(calls[j].rest)
        <5>1. PICK j \in 1..k : calls[j].node = s /\ t \in ToSet(calls[j].rest)
          BY <4>2
        <5>2. j \in 1..Len(calls)
          OBVIOUS
        <5>3. CASE j # 1 \/ t # h
          <6>1. t \in ToSet(calls'[j].rest)
            <7>1. CASE j = 1
              BY <1>2, <1>3, <2>4, <5>1, <5>3, <7>1, HeadOf
            <7>2. CASE j # 1
              BY <2>4, <3>1, <5>1, <5>2, <7>2
            <7> QED BY <7>1, <7>2
          <6> QED BY <2>4, <5>1, <5>2, <6>1 DEF Seen
        <5>4. CASE j = 1 /\ t = h
          <6>1. CASE h \in active
            BY <1>4, <2>4, <2>6, <5>1, <5>4, <6>1 DEF Seen
          <6>2. CASE h \notin active
            BY <1>1, <1>4, <2>2, <5>4, <6>2 DEF Seen, Stacked
          <6> QED BY <6>1, <6>2
        <5> QED BY <5>3, <5>4
      <4>3. CASE t \in active /\ idx[calls[k].node] <= idx[t]
        BY <1>4, <2>4, <4>3 DEF Seen
      <4>4. CASE t \in active /\ \E j \in 1..k : low[calls[j].node] <= idx[t]
        <5>1. PICK j \in 1..k : low[calls[j].node] <= idx[t]
          BY <4>4
        <5>2. j \in 1..Len(calls) /\ calls'[j].node = calls[j].node /\ calls[j].node \in States
          BY <2>4, <2>10
        <5>3. low'[calls'[j].node] <= idx'[t]
          <6>1. idx[t] \in Int /\ low[calls[j].node] \in Int /\ low'[calls[j].node] \in Int
            BY <1>1, <2>6, <4>4, <5>2 DEF Labels
          <6>2. low'[calls[j].node] <= low[calls[j].node]
            BY <2>9, <5>2
          <6> QED BY <1>4, <5>1, <5>2, <6>1, <6>2
        <5> QED BY <1>4, <4>4, <5>3 DEF Seen
      <4> QED BY <1>1, <3>5, <4>1, <4>2, <4>3, <4>4 DEF Seen
    <3>6. Residual(s)' = Residual(s) /\ BestAction(V', s) = BestAction(V, s)
      BY <1>4 DEF Residual
    <3> QED BY <3>4, <3>5, <3>6 DEF Settled
  <2>14. Settles'
    BY <1>4, <2>4, <2>13 DEF Settles
  <2> QED BY <1>1, <1>4, <2>1, <2>7, <2>8, <2>11, <2>12, <2>14 DEF LabelInv, Searching
<1> QED BY <1>5, <1>6

LEMMA ReturnKept == ASSUME LabelInv, Basics', DfsReturn PROVE LabelInv' /\ marked' = marked
<1>1. /\ Labels /\ Stacked /\ Called /\ Asked /\ Settles /\ pc = "return" /\ pc' = "visit"
      /\ calls # <<>> /\ calls \in Seq(Calls)
  BY DEF LabelInv, Searching, DfsReturn, Labels
<1>2. PICK f : f = calls[1] /\ f.rest # <<>> /\ Head(f.rest) = node
  BY <1>1 DEF Called
<1>3. f = Head(calls) /\ f \in Calls /\ f.rest \in Seq(States) /\ Len(calls) \in Nat \ {0}
  <2>1. f = Head(calls) /\ f \in Calls /\ Len(calls) \in Nat \ {0}
    BY <1>1, <1>2
  <2>2. f.rest \in Seq(States)
    BY <2>1 DEF Calls
  <2> QED BY <2>1, <2>2
<1>4. UNCHANGED <<V, asked, action, node, marked, active, idx, top, back, visited, index, result>>
  BY DEF DfsReturn
<1>5. /\ low' = [low EXCEPT ![f.node] = Least(@, low[node])]
      /\ calls' = <<[node |-> f.node, rest |-> Tail(f.rest), flag |-> f.flag \/ result]>> \o Tail(calls)
  BY <1>3 DEF DfsReturn, GoOn
<1>6. PICK c : c = [node |-> f.node, rest |-> Tail(f.rest), flag |-> f.flag \/ result]
  OBVIOUS
<1>7. c \in Calls /\ c.node = f.node /\ c.flag = (f.flag \/ result) /\ c.rest = Tail(f.rest)
  <2>1. f.node \in States /\ Tail(f.rest) \in Seq(States)
    BY <1>2, <1>3 DEF Calls
  <2>2. (f.flag \/ result) \in BOOLEAN
    OBVIOUS
  <2> QED BY <1>6, <2>1, <2>2 DEF Calls
<1>8. /\ calls' \in Seq(Calls) /\ Len(calls') = Len(calls) /\ calls'[1] = c
      /\ \A i \in 2..Len(calls) : calls'[i] = calls[i]
      /\ \A i \in 1..Len(calls) : calls'[i].node = calls[i].node
  BY <1>1, <1>2, <1>5, <1>6, <1>7, GoesOn
<1>9. f.node \in active /\ f.node \in States /\ low[f.node] \in Int /\ low[f.node] < NoIndex
  <2>1. 1 \in 1..Len(calls)
    BY <1>3
  <2> QED BY <1>1, <1>2, <2>1 DEF Called, Labels
<1>10. /\ low' \in [States -> Int] /\ low'[f.node] <= low[f.node]
       /\ low'[f.node] <= low[node]
       /\ \A s \in States : s # f.node => low'[s] = low[s]
  <2>1. low[node] \in Int /\ low \in [States -> Int]
    BY <1>1 DEF Labels
  <2> QED BY <1>5, <1>9, <2>1 DEF Least
<1>11. Labels'
  BY DEF Basics
<1>12. Stacked'
  BY <1>1, <1>4 DEF Stacked
<1>13. \A s \in States : low'[s] <= low[s] /\ (low[s] < NoIndex => low'[s] < NoIndex)
  <2>1. ASSUME NEW s \in States PROVE low'[s] <= low[s]
    <3>1. low[s] \in Int /\ low'[s] \in Int
      BY <1>1, <1>10 DEF Labels
    <3> QED BY <1>10, <3>1
  <2>2. \A s \in States : low[s] \in Int /\ low'[s] \in Int
    BY <1>1, <1>10 DEF Labels
  <2> QED BY <2>1, <2>2, NoIndexIs
<1>14. \A k \in 1..Len(calls) : calls[k].node \in States
  BY <1>1 DEF Called, Labels
<1>15. Called'
  <2>1. ASSUME NEW k \in 1..Len(calls') PROVE calls'[k].node \in active' /\ low'[calls'[k].node] < NoIndex
    BY <1>1, <1>4, <1>8, <1>13, <1>14 DEF Called
  <2>2. ASSUME NEW j \in 1..Len(calls'), NEW k \in 1..Len(calls'), j < k
        PROVE  idx'[calls'[k].node] < idx'[calls'[j].node]
    BY <1>1, <1>4, <1>8, <2>2 DEF Called
  <2>3. ASSUME NEW k \in 2..Len(calls')
        PROVE  calls'[k].rest # <<>> /\ Head(calls'[k].rest) = calls'[k - 1].node
    <3>1. calls'[k] = calls[k] /\ k - 1 \in 1..Len(calls) /\ k \in 2..Len(calls)
      BY <1>3, <1>8
    <3> QED BY <1>1, <1>8, <3>1 DEF Called
  <2>4. calls' # <<>>
    BY <1>3, <1>8
  <2> QED BY <1>1, <2>1, <2>2, <2>3, <2>4 DEF Called
<1>16. Asked'
  <2>1. Len(calls) \in 1..Len(calls)
    BY <1>3
  <2>2. calls'[Len(calls')].node = asked
    BY <1>1, <1>8, <2>1 DEF Asked
  <2> QED BY <1>1, <1>4, <2>2 DEF Asked
<1>17. ASSUME NEW j \in 1..Len(calls) PROVE j = 1 \/ j \in 2..Len(calls)
  BY <1>3
<1>18. ASSUME NEW k \in 1..Len(calls), NEW s \in active, Sound(k)', idx[calls[k].node] <= idx[s]
       PROVE  Settled(k, s)'
  <2>1. ~result /\ ~f.flag
    <3>1. 1 \in 1..k
      OBVIOUS
    <3> QED BY <1>7, <1>8, <1>18, <3>1 DEF Sound
  <2>2. \A j \in 1..k : ~calls[j].flag
    <3>1. ASSUME NEW j \in 1..k PROVE ~calls[j].flag
      <4>1. j \in 1..Len(calls) /\ ~calls'[j].flag
        BY <1>18 DEF Sound
      <4> QED BY <1>2, <1>8, <1>17, <2>1, <4>1
    <3> QED BY <3>1
  <2>3. Sound(k)
    BY <1>1, <2>1, <2>2 DEF Sound
  <2>4. Settled(k, s)
    BY <1>1, <1>18, <2>3 DEF Settles
  <2>5. ASSUME NEW t, Seen(k, s, t) PROVE Seen(k, s, t)'
    <3>1. CASE t \in marked
      BY <1>4, <3>1 DEF Seen
    <3>2. CASE \E j \in 1..k : calls[j].node = s /\ t \in ToSet(calls[j].rest)
      <4>1. PICK j \in 1..k : calls[j].node = s /\ t \in ToSet(calls[j].rest)
        BY <3>2
      <4>2. j \in 1..Len(calls)
        OBVIOUS
      <4>3. CASE j # 1 \/ t # node
        <5>1. t \in ToSet(calls'[j].rest)
          <6>1. CASE j = 1
            BY <1>2, <1>3, <1>7, <1>8, <4>1, <4>3, <6>1, HeadOf
          <6>2. CASE j # 1
            BY <1>8, <1>17, <4>1, <4>2, <6>2
          <6> QED BY <6>1, <6>2
        <5> QED BY <1>8, <4>1, <4>2, <5>1 DEF Seen
      <4>4. CASE t = node
        <5>1. node \in marked \/ (node \in active /\ idx[calls[1].node] < idx[node])
          BY <1>1, <2>1 DEF Called
        <5>2. CASE node \in marked
          BY <1>4, <4>4, <5>2 DEF Seen
        <5>3. CASE node \in active /\ idx[calls[1].node] < idx[node]
          <6>1. idx[calls[k].node] <= idx[calls[1].node]
            <7>1. 1 \in 1..Len(calls) /\ calls[1].node \in States /\ idx[calls[1].node] \in Int
              BY <1>3, <1>1, <1>14 DEF Labels
            <7>2. CASE k = 1
              BY <7>1, <7>2
            <7>3. CASE k # 1
              <8>1. 1 < k
                BY <7>3
              <8>2. idx[calls[k].node] < idx[calls[1].node] /\ idx[calls[k].node] \in Int
                BY <1>1, <1>14, <7>1, <8>1 DEF Called, Labels
              <8> QED BY <7>1, <8>2
            <7> QED BY <7>2, <7>3
          <6>2. idx[calls[k].node] \in Int /\ idx[calls[1].node] \in Int /\ idx[node] \in Int
            BY <1>1, <1>2, <1>9, <1>14 DEF Labels
          <6>3. idx[calls[k].node] <= idx[node]
            BY <5>3, <6>1, <6>2
          <6> QED BY <1>4, <1>8, <4>4, <5>3, <6>3 DEF Seen
        <5> QED BY <5>1, <5>2, <5>3
      <4> QED BY <4>3, <4>4
    <3>3. CASE t \in active /\ idx[calls[k].node] <= idx[t]
      BY <1>4, <1>8, <3>3 DEF Seen
    <3>4. CASE t \in active /\ \E j \in 1..k : low[calls[j].node] <= idx[t]
      <4>1. PICK j \in 1..k : low[calls[j].node] <= idx[t]
        BY <3>4
      <4>2. j \in 1..Len(calls) /\ calls'[j].node = calls[j].node /\ calls[j].node \in States
        BY <1>8, <1>14
      <4>3. low'[calls'[j].node] <= idx'[t]
        <5>1. idx[t] \in Int /\ low[calls[j].node] \in Int /\ low'[calls[j].node] \in Int
          BY <1>1, <1>10, <3>4, <4>2 DEF Labels
        <5>2. low'[calls[j].node] <= low[calls[j].node]
          BY <1>13, <4>2
        <5> QED BY <1>4, <4>1, <4>2, <5>1, <5>2
      <4> QED BY <1>4, <3>4, <4>3 DEF Seen
    <3>5. CASE t \in active /\ low[node] <= idx[t]
      <4>1. low[node] \in Int /\ idx[t] \in Int /\ low'[f.node] \in Int
        BY <1>1, <1>9, <1>10, <3>5 DEF Labels
      <4>2. 1 \in 1..k /\ low'[calls'[1].node] <= idx'[t]
        BY <1>4, <1>7, <1>8, <1>10, <3>5, <4>1
      <4> QED BY <1>4, <3>5, <4>2 DEF Seen
    <3> QED BY <2>5, <3>1, <3>2, <3>3, <3>4, <3>5 DEF Seen
  <2>6. Residual(s)' = Residual(s) /\ BestAction(V', s) = BestAction(V, s)
    BY <1>4 DEF Residual
  <2> QED BY <2>4, <2>5, <2>6 DEF Settled
<1>19. Settles'
  BY <1>4, <1>8, <1>18 DEF Settles
<1> QED BY <1>1, <1>4, <1>11, <1>12, <1>15, <1>16, <1>19 DEF LabelInv, Searching

LEMMA IsIn == ASSUME NEW S, NEW q \in Seq(S)
              PROVE  \A t : t \in ToSet(q) <=> \E i \in 1..Len(q) : q[i] = t
BY DEF ToSet

\* What is taken from the list when a call ends is what was visited since it began.
LEMMA ComponentIs ==
  ASSUME Labels, Stacked, NEW s \in active, NEW r, r = SubSeq(top, Depth(s) + 1, Len(top))
  PROVE  /\ Component(s) = {t \in active : idx[s] <= idx[t]}
         /\ r \in Seq(States) /\ ToSet(r) = active \ Component(s)
         /\ \A i, j \in 1..Len(r) : i < j => idx[r[j]] < idx[r[i]]
<1>1. top \in Seq(States) /\ Len(top) \in Nat /\ \A i \in 1..Len(top) : top[i] \in States
  BY DEF Labels
<1>2. active = {top[i] : i \in 1..Len(top)}
  BY <1>1, SetOf DEF Stacked
<1>3. PICK p \in 1..Len(top) : p = Depth(s) /\ top[p] = s
  BY <1>2 DEF Depth
<1>4. ASSUME NEW i \in 1..Len(top) PROVE i <= p <=> idx[s] <= idx[top[i]]
  <2>1. idx[s] \in Int /\ idx[top[i]] \in Int
    BY <1>1, <1>3 DEF Labels
  <2>2. i < p => idx[s] < idx[top[i]]
    BY <1>3 DEF Stacked
  <2>3. p < i => idx[top[i]] < idx[s]
    BY <1>3 DEF Stacked
  <2>4. i = p => idx[s] <= idx[top[i]]
    BY <1>3, <2>1
  <2>5. i < p \/ i = p \/ p < i
    BY <1>1
  <2> QED BY <1>1, <2>1, <2>2, <2>3, <2>4, <2>5
<1>5. Component(s) = {top[i] : i \in 1..p}
  BY <1>3 DEF Component
<1>6. \A i \in 1..Len(top) : i \in 1..p <=> i <= p
  BY <1>1
<1>7. Component(s) = {t \in active : idx[s] <= idx[t]}
  BY <1>1, <1>2, <1>4, <1>5, <1>6
<1>8. /\ r \in Seq(States) /\ Len(r) = Len(top) - p
      /\ \A i \in 1..Len(r) : r[i] = top[i + p] /\ i + p \in (p + 1)..Len(top)
  <2>1. p \in 0..Len(top) /\ r = SubSeq(top, p + 1, Len(top))
    BY <1>3
  <2> QED BY <1>1, <2>1, RestIs
<1>9. \A t : t \in ToSet(r) <=> \E i \in 1..Len(r) : r[i] = t
  <2>1. r \in Seq(States)
    BY <1>8
  <2> QED BY <2>1, IsIn
<1>10. ToSet(r) = active \ Component(s)
  <2>1. ASSUME NEW i \in 1..Len(r) PROVE r[i] \in active \ Component(s)
    <3>1. i + p \in 1..Len(top) /\ ~(i + p <= p)
      BY <1>1, <1>8
    <3> QED BY <1>2, <1>4, <1>7, <1>8, <3>1
  <2>2. ASSUME NEW t \in active \ Component(s) PROVE t \in ToSet(r)
    <3>1. PICK i \in 1..Len(top) : t = top[i]
      BY <1>2
    <3>2. ~(i <= p)
      BY <1>4, <1>7, <3>1
    <3>3. i - p \in 1..Len(r) /\ (i - p) + p = i
      BY <1>1, <1>8, <3>2
    <3> QED BY <1>8, <1>9, <3>1, <3>3
  <2> QED BY <1>9, <2>1, <2>2
<1>11. ASSUME NEW i \in 1..Len(r), NEW j \in 1..Len(r), i < j PROVE idx[r[j]] < idx[r[i]]
  <2>1. i + p \in 1..Len(top) /\ j + p \in 1..Len(top) /\ i + p < j + p
    BY <1>1, <1>8, <1>11
  <2> QED BY <1>8, <2>1 DEF Stacked
<1> QED BY <1>7, <1>8, <1>10, <1>11

LEMMA VisitEndKept == ASSUME LabelInv, Basics', VisitEnd PROVE LabelInv' /\ MarksEarned
<1>1. /\ Labels /\ Stacked /\ Called /\ Asked /\ Settles /\ pc = "visit" /\ pc' \in {"update", "return"}
      /\ calls # <<>> /\ calls \in Seq(Calls)
  <2>1. Labels /\ Stacked /\ Called /\ Asked /\ Settles /\ pc = "visit"
    BY DEF LabelInv, Searching, VisitEnd
  <2>2. pc' \in {"update", "return"}
    BY DEF VisitEnd, Returns
  <2> QED BY <2>1, <2>2 DEF Called, Labels
<1>2. PICK f : f = calls[1]
  OBVIOUS
<1>3. f = Head(calls) /\ f \in Calls /\ Len(calls) \in Nat \ {0} /\ 1 \in 1..Len(calls)
  <2>1. f = Head(calls) /\ f \in Calls /\ Len(calls) \in Nat \ {0}
    BY <1>1, <1>2
  <2> QED BY <2>1
<1>4. /\ UNCHANGED <<V, asked, action, idx, low, visited, index>>
      /\ f.rest = <<>> /\ calls' = Tail(calls) /\ node' = f.node
      /\ IF f.flag THEN pc' = "update" /\ result' = result ELSE pc' = "return" /\ result' = FALSE
  BY <1>3 DEF VisitEnd, Returns
<1>5. /\ calls' \in Seq(Calls) /\ Len(calls') = Len(calls) - 1
      /\ \A i \in 1..Len(calls') : calls'[i] = calls[i + 1] /\ i + 1 \in 2..Len(calls)
  BY <1>1, <1>4, PoppedIs
<1>6. f.node \in active /\ f.node \in visited /\ f.node \in States /\ low[f.node] < NoIndex /\ f.flag \in BOOLEAN
  BY <1>1, <1>2, <1>3 DEF Called, Labels, Stacked, Calls
<1>7. \A k \in 1..Len(calls) : calls[k].node \in active /\ calls[k].node \in States
  BY <1>1 DEF Called, Labels
<1>8. \A s \in States : idx[s] \in Int /\ low[s] \in Int
  BY <1>1 DEF Labels
<1>9. ASSUME NEW k \in 1..Len(calls') PROVE idx[calls'[k].node] < idx[f.node]
  <2>1. k + 1 \in 1..Len(calls) /\ 1 < k + 1 /\ calls'[k] = calls[k + 1]
    BY <1>5
  <2> QED BY <1>1, <1>2, <1>3, <2>1 DEF Called
<1>10. asked \notin marked
  BY <1>1 DEF Asked
<1>11. calls' # <<>> => calls'[Len(calls')].node = asked
  <2>1. SUFFICES ASSUME calls' # <<>> PROVE calls'[Len(calls')].node = asked
    OBVIOUS
  <2>2. Len(calls') \in 1..Len(calls') /\ Len(calls') + 1 = Len(calls)
    BY <1>3, <1>5, <2>1
  <2> QED BY <1>1, <1>5, <2>2 DEF Asked
\* What a call knows of the entries below those it has come through.
<1>12. ASSUME NEW k \in 1..Len(calls'), NEW s \in active, NEW t, Seen(k + 1, s, t)
       PROVE  \/ t \in marked
              \/ \E j \in 1..k : calls'[j].node = s /\ t \in ToSet(calls'[j].rest)
              \/ t \in active /\ idx[calls'[k].node] <= idx[t]
              \/ t \in active /\ \E j \in 1..k : low[calls'[j].node] <= idx[t]
              \/ t \in active /\ low[f.node] <= idx[t]
  <2>1. ASSUME NEW j \in 1..(k + 1) PROVE j = 1 \/ (j - 1 \in 1..k /\ calls'[j - 1] = calls[j])
    <3>1. j # 1 => j - 1 \in 1..Len(calls') /\ j - 1 \in 1..k /\ (j - 1) + 1 = j
      BY <1>3, <1>5
    <3> QED BY <1>5, <3>1
  <2>2. CASE \E j \in 1..(k + 1) : calls[j].node = s /\ t \in ToSet(calls[j].rest)
    <3>1. PICK j \in 1..(k + 1) : calls[j].node = s /\ t \in ToSet(calls[j].rest)
      BY <2>2
    <3>2. j # 1
      BY <1>2, <1>4, <3>1, EmptySet
    <3> QED BY <2>1, <3>1, <3>2
  <2>3. CASE t \in active /\ \E j \in 1..(k + 1) : low[calls[j].node] <= idx[t]
    <3>1. PICK j \in 1..(k + 1) : low[calls[j].node] <= idx[t]
      BY <2>3
    <3> QED BY <1>2, <2>1, <2>3, <3>1
  <2>4. calls'[k] = calls[k + 1]
    BY <1>5
  <2> QED BY <1>1, <1>12, <2>2, <2>3, <2>4 DEF Seen
<1>13. ASSUME NEW k \in 1..Len(calls'), NEW s \in active, Sound(k)', idx[calls'[k].node] <= idx[s]
       PROVE  ~f.flag /\ Settled(k + 1, s)
  <2>1. ~f.flag
    BY <1>4, <1>13 DEF Sound
  <2>2. ASSUME NEW j \in 1..(k + 1) PROVE ~calls[j].flag
    <3>1. CASE j = 1
      BY <1>2, <2>1, <3>1
    <3>2. CASE j # 1
      <4>1. j - 1 \in 1..k /\ j - 1 \in 1..Len(calls') /\ (j - 1) + 1 = j
        BY <3>2
      <4> QED BY <1>5, <1>13, <4>1 DEF Sound
    <3> QED BY <3>1, <3>2
  <2>3. Sound(k + 1)
    BY <1>1, <2>2 DEF Sound
  <2>4. k + 1 \in 1..Len(calls) /\ calls'[k] = calls[k + 1]
    BY <1>5
  <2> QED BY <1>1, <1>13, <2>1, <2>3, <2>4 DEF Settles
<1>14. Called' <=> /\ \A k \in 1..Len(calls') : calls'[k].node \in active'
                   /\ pc' = "return" /\ calls' # <<>> =>
                        f.node \in marked' \/ (f.node \in active' /\ idx[calls'[1].node] < idx[f.node])
  <2>1. ASSUME NEW k \in 1..Len(calls') PROVE low'[calls'[k].node] < NoIndex
    <3>1. k + 1 \in 1..Len(calls) /\ calls'[k] = calls[k + 1]
      BY <1>5
    <3> QED BY <1>1, <1>4, <3>1 DEF Called
  <2>2. ASSUME NEW j \in 1..Len(calls'), NEW k \in 1..Len(calls'), j < k
        PROVE  idx'[calls'[k].node] < idx'[calls'[j].node]
    <3>1. /\ j + 1 \in 1..Len(calls) /\ k + 1 \in 1..Len(calls) /\ j + 1 < k + 1
          /\ calls'[j] = calls[j + 1] /\ calls'[k] = calls[k + 1]
      BY <1>5, <2>2
    <3> QED BY <1>1, <1>4, <3>1 DEF Called
  <2>3. ASSUME NEW k \in 2..Len(calls')
        PROVE  calls'[k].rest # <<>> /\ Head(calls'[k].rest) = calls'[k - 1].node
    <3>1. /\ k + 1 \in 2..Len(calls) /\ (k + 1) - 1 = k /\ (k - 1) + 1 = k
          /\ k \in 1..Len(calls') /\ k - 1 \in 1..Len(calls')
      BY <1>5
    <3>2. calls'[k] = calls[k + 1] /\ calls'[k - 1] = calls[k]
      BY <1>5, <3>1
    <3> QED BY <1>1, <3>1, <3>2 DEF Called
  <2>4. calls' # <<>> => calls'[1].rest # <<>> /\ Head(calls'[1].rest) = node'
    <3>1. SUFFICES ASSUME calls' # <<>> PROVE calls'[1].rest # <<>> /\ Head(calls'[1].rest) = node'
      OBVIOUS
    <3>2. 1 \in 1..Len(calls') /\ 2 \in 2..Len(calls) /\ 1 + 1 = 2 /\ 2 - 1 = 1
      BY <1>3, <1>5, <3>1
    <3>3. calls'[1] = calls[2]
      BY <1>5, <3>2
    <3> QED BY <1>1, <1>2, <1>4, <3>2, <3>3 DEF Called
  <2>5. pc' = "return" => ~result'
    BY <1>4, <1>6
  <2> QED BY <1>1, <1>4, <2>1, <2>2, <2>3, <2>4, <2>5 DEF Called
<1>15. V' = V => \A s : Residual(s)' = Residual(s) /\ BestAction(V', s) = BestAction(V, s)
  BY DEF Residual
<1>16. CASE f.flag \/ idx[f.node] # low[f.node]
  <2>1. UNCHANGED <<marked, active, top, back>>
    BY <1>3, <1>16 DEF VisitEnd, Completes
  <2>2. Labels'
    BY DEF Basics
  <2>3. Stacked'
    BY <1>1, <1>4, <2>1 DEF Stacked
  <2>4. Called'
    <3>1. \A k \in 1..Len(calls') : calls'[k].node \in active'
      <4>1. \A k \in 1..Len(calls') : k + 1 \in 1..Len(calls)
        BY <1>5
      <4> QED BY <1>5, <1>7, <2>1, <4>1
    <3>2. calls' # <<>> => idx[calls'[1].node] < idx[f.node]
      <4>1. calls' # <<>> => 1 \in 1..Len(calls')
        BY <1>5
      <4> QED BY <1>9, <4>1
    <3> QED BY <1>6, <1>14, <2>1, <3>1, <3>2
  <2>5. Asked'
    BY <1>1, <1>4, <1>10, <1>11, <2>1 DEF Asked
  <2>6. ASSUME NEW k \in 1..Len(calls'), NEW s \in active, Sound(k)', idx[calls'[k].node] <= idx[s]
        PROVE  Settled(k, s)'
    <3>1. ~f.flag /\ Settled(k + 1, s)
      BY <1>13, <2>6
    <3>2. pc' = "return"
      BY <1>4, <3>1
    <3>3. ASSUME NEW t, Seen(k + 1, s, t) PROVE Seen(k, s, t)'
      <4>1. \/ t \in marked
            \/ \E j \in 1..k : calls'[j].node = s /\ t \in ToSet(calls'[j].rest)
            \/ t \in active /\ idx[calls'[k].node] <= idx[t]
            \/ t \in active /\ \E j \in 1..k : low[calls'[j].node] <= idx[t]
            \/ t \in active /\ low[f.node] <= idx[t]
        BY <1>12, <3>3
      <4> QED BY <1>4, <1>6, <2>1, <3>2, <4>1 DEF Seen
    <3> QED BY <1>4, <1>15, <3>1, <3>3 DEF Settled
  <2>7. Settles'
    BY <1>4, <2>1, <2>6 DEF Settles
  <2>8. MarksEarned
    BY <2>1 DEF MarksEarned
  <2> QED BY <1>1, <2>2, <2>3, <2>4, <2>5, <2>7, <2>8 DEF LabelInv, Searching
<1>17. CASE ~f.flag /\ idx[f.node] = low[f.node]
  <2>1. PICK C : C = Component(f.node)
    OBVIOUS
  <2>2. /\ marked' = marked \cup C /\ active' = active \ C
        /\ top' = SubSeq(top, Depth(f.node) + 1, Len(top)) /\ back' = {}
    <3>1. back = {} /\ ~Circles(f.node)
      BY <1>1 DEF Stacked, Circles
    <3>2. Labelled(f.node)
      BY <1>3, <1>17 DEF VisitEnd, Completes
    <3>3. marked' = marked \cup C /\ active' = active \ C /\ back' = {}
      BY <2>1, <3>1, <3>2 DEF Labelled
    <3>4. top' = SubSeq(top, Depth(f.node) + 1, Len(top)) \o <<>>
      BY <3>1, <3>2 DEF Labelled, Remaining
    <3>5. top \in Seq(States) /\ Depth(f.node) \in 1..Len(top)
      BY <1>1, <1>6, DepthIs DEF Labels, Stacked
    <3>6. SubSeq(top, Depth(f.node) + 1, Len(top)) \in Seq(States)
      BY <3>5, PieceIs
    <3> QED BY <3>3, <3>4, <3>6
  <2>3. /\ C = {t \in active : idx[f.node] <= idx[t]}
        /\ top' \in Seq(States) /\ ToSet(top') = active \ C
        /\ \A i, j \in 1..Len(top') : i < j => idx[top'[j]] < idx[top'[i]]
    BY <1>1, <1>6, <2>1, <2>2, ComponentIs
  <2>4. pc' = "return" /\ result' = FALSE
    BY <1>4, <1>17
  <2>5. active \subseteq visited /\ active \subseteq States /\ f.node \in C
    BY <1>1, <1>6, <1>8, <2>3 DEF Stacked, Labels
  <2>6. Labels'
    BY DEF Basics
  <2>7. Stacked'
    <3>1. active' = ToSet(top') /\ active' \subseteq visited' /\ visited' \ active' \subseteq marked'
      BY <1>1, <1>4, <2>2, <2>3 DEF Stacked
    <3> QED BY <1>1, <1>4, <2>2, <2>3, <3>1 DEF Stacked
  <2>8. Called'
    <3>1. ASSUME NEW k \in 1..Len(calls') PROVE calls'[k].node \in active'
      <4>1. k + 1 \in 1..Len(calls) /\ calls'[k] = calls[k + 1]
        BY <1>5
      <4>2. calls'[k].node \in active /\ calls'[k].node \in States
        BY <1>7, <4>1
      <4>3. idx[calls'[k].node] < idx[f.node]
        BY <1>9
      <4>4. ~(idx[f.node] <= idx[calls'[k].node])
        BY <1>6, <1>8, <4>2, <4>3
      <4> QED BY <2>2, <2>3, <4>2, <4>4
    <3> QED BY <1>14, <2>2, <2>5, <3>1
  <2>9. ASSUME asked \in marked' PROVE calls' = <<>> /\ visited \subseteq marked'
    <3>1. asked \in active /\ asked \in visited /\ asked \in States /\ idx[f.node] <= idx[asked]
      BY <1>10, <2>2, <2>3, <2>5, <2>9
    <3>2. \A s \in visited : idx[asked] <= idx[s]
      BY <1>1, <3>1 DEF Asked
    <3>3. idx[asked] = idx[f.node]
      BY <1>6, <1>8, <3>1, <3>2
    <3>4. calls' = <<>>
      <4>1. SUFFICES ASSUME calls' # <<>> PROVE FALSE
        OBVIOUS
      <4>2. Len(calls') \in 1..Len(calls') /\ calls'[Len(calls')].node = asked
        BY <1>5, <1>11, <4>1
      <4>3. idx[asked] < idx[f.node]
        BY <1>9, <4>2
      <4> QED BY <1>8, <3>1, <3>3, <4>3
    <3>5. active \subseteq C
      BY <2>3, <2>5, <3>2, <3>3
    <3>6. visited \ active \subseteq marked
      BY <1>1 DEF Stacked
    <3> QED BY <2>2, <3>4, <3>5, <3>6
  <2>10. Asked'
    BY <1>1, <1>4, <1>11, <2>4, <2>9 DEF Asked
  <2>11. ASSUME NEW k \in 1..Len(calls'), NEW s \in active', Sound(k)', idx[calls'[k].node] <= idx[s]
         PROVE  Settled(k, s)'
    <3>1. s \in active /\ Settled(k + 1, s)
      BY <1>13, <2>2, <2>11
    <3>2. ASSUME NEW t, Seen(k + 1, s, t) PROVE Seen(k, s, t)'
      <4>1. \/ t \in marked
            \/ \E j \in 1..k : calls'[j].node = s /\ t \in ToSet(calls'[j].rest)
            \/ t \in active /\ idx[calls'[k].node] <= idx[t]
            \/ t \in active /\ \E j \in 1..k : low[calls'[j].node] <= idx[t]
            \/ t \in active /\ low[f.node] <= idx[t]
        BY <1>12, <3>1, <3>2
      <4>2. CASE t \in marked \/ t \in C
        BY <2>2, <4>2 DEF Seen
      <4>3. CASE t \in active /\ t \notin C
        <5>1. t \in active' /\ ~(low[f.node] <= idx[t])
          BY <1>17, <2>2, <2>3, <4>3
        <5> QED BY <1>4, <4>1, <5>1, <4>2 DEF Seen
      <4>4. CASE \E j \in 1..k : calls'[j].node = s /\ t \in ToSet(calls'[j].rest)
        BY <4>4 DEF Seen
      <4> QED BY <4>1, <4>2, <4>3, <4>4
    <3> QED BY <1>4, <1>15, <3>1, <3>2 DEF Settled
  <2>12. Settles'
    BY <1>4, <2>11 DEF Settles
  <2>13. ASSUME NEW s \in marked' \ marked PROVE Closed(s)'
    <3>1. s \in C /\ s \in active /\ idx[f.node] <= idx[s]
      BY <2>2, <2>3, <2>13
    <3>2. Sound(1)
      <4>1. \A j \in 1..1 : j = 1
        OBVIOUS
      <4> QED BY <1>1, <1>2, <1>17, <4>1 DEF Sound
    <3>3. Settled(1, s)
      BY <1>1, <1>2, <1>3, <3>1, <3>2 DEF Settles
    <3>4. ASSUME NEW t, Seen(1, s, t) PROVE t \in marked'
      <4>1. ASSUME NEW j \in 1..1 PROVE calls[j] = f
        <5>1. j = 1
          OBVIOUS
        <5> QED BY <1>2, <5>1
      <4>2. t \notin ToSet(f.rest)
        BY <1>4, EmptySet
      <4>3. t \in marked \/ (t \in active /\ idx[f.node] <= idx[t])
        BY <1>1, <1>2, <1>17, <3>4, <4>1, <4>2 DEF Seen
      <4> QED BY <2>2, <2>3, <4>3
    <3>5. ToSet(Likely(s, BestAction(V, s)))' = ToSet(Likely(s, BestAction(V, s)))
      BY <1>4
    <3> QED BY <1>4, <1>15, <3>3, <3>4, <3>5 DEF Settled, Closed
  <2>14. MarksEarned
    BY <2>13 DEF MarksEarned
  <2> QED BY <1>1, <2>6, <2>7, <2>8, <2>10, <2>12, <2>14 DEF LabelInv, Searching
<1> QED BY <1>6, <1>16, <1>17

\* Before the index comes round the entry looked for is on the list.
LEMMA NotLost == ASSUME LabelInv, Lost PROVE FALSE
<1>1. Stacked /\ Called /\ calls # <<>> /\ calls \in Seq(Calls)
  BY DEF LabelInv, Labels, Searching, Called, Lost
<1>2. 1 \in 1..Len(calls) /\ Head(calls) = calls[1]
  BY <1>1
<1>3. Head(calls).node \in ToSet(top)
  BY <1>1, <1>2 DEF Called, Stacked
<1> QED BY <1>3 DEF Lost

\* As long as the index has not come round, the list is what the labels rely on.
Searched == Basics /\ (~spent => LabelInv)

LEMMA StepLabels == ASSUME Searched, [Next]_vars PROVE Searched' /\ (~spent' => MarksEarned)
<1>1. Basics' /\ (marked' \subseteq marked => MarksEarned)
  BY StepBasics DEF MarksEarned, Searched
<1>2. CASE Outside
  BY <1>1, <1>2, OutsideKept DEF Searched
<1>3. ASSUME ~spent', ~Outside, Next PROVE LabelInv
  <2>1. ~spent
    BY <1>3 DEF Next, Compute, Outside, Solve, DfsBase, DfsResidual, DfsVisit, VisitChild, VisitEnd, Lost,
                DfsUpdate, DfsReturn, SearchEnd, labels
  <2> QED BY <2>1 DEF Searched
<1>4. CASE ~Outside /\ (Solve \/ DfsResidual \/ DfsUpdate \/ SearchEnd)
  BY <1>1, <1>3, <1>4, SolveKept, ResidualKept, UpdateKept, EndKept DEF Searched, Next, Compute
<1>5. CASE ~Outside /\ (DfsVisit \/ VisitChild \/ DfsReturn)
  BY <1>1, <1>3, <1>5, VisitKept, ChildKept, ReturnKept DEF Searched, Next, Compute
<1>6. CASE ~Outside /\ (DfsBase \/ VisitEnd \/ Lost)
  BY <1>1, <1>3, <1>6, BaseKept, VisitEndKept, NotLost DEF Searched, Next, Compute
<1>7. CASE UNCHANGED vars
  <2>1. /\ UNCHANGED <<V, pc, asked, action, node, marked, active, idx, low, top, back, visited, index>>
        /\ UNCHANGED <<spent, calls, result>>
    BY <1>7 DEF vars, labels
  <2>2. (Stacked' <=> Stacked) /\ (Asked' <=> Asked) /\ (Searching' <=> Searching)
    BY <2>1 DEF Stacked, Asked, Searching, NoIndex
  <2>3. Called' <=> Called
    BY <2>1 DEF Called, NoIndex
  <2>4. \A s : Residual(s)' = Residual(s) /\ BestAction(V', s) = BestAction(V, s)
    BY <2>1 DEF Residual
  <2>5. \A k, s, t : Seen(k, s, t)' <=> Seen(k, s, t)
    BY <2>1 DEF Seen
  <2>6. \A k : Sound(k)' <=> Sound(k)
    BY <2>1 DEF Sound
  <2>7. \A k, s : Settled(k, s)' <=> Settled(k, s)
    BY <2>4, <2>5 DEF Settled
  <2>8. Settles' <=> Settles
    BY <2>1, <2>6, <2>7 DEF Settles
  <2>9. ~spent => LabelInv'
    BY <1>1, <2>1, <2>2, <2>3, <2>8 DEF Searched, LabelInv, Basics, NoIndex
  <2> QED BY <1>1, <2>1, <2>9 DEF Searched
<1> QED BY <1>2, <1>4, <1>5, <1>6, <1>7 DEF Next, Compute, Outside

\* An entry is labelled by hdp only with what the label promises: it is a goal or a dead
\* end, or has just found one, or its residual is at most epsilon and its likely outcomes
\* are labelled with it -- as long as the solve has visited no more entries than there are
\* indices (65535: hashEntryX_t keeps 16 bits, the last value means none, and the index is
\* not reset from one search of a solve to the next).
THEOREM MarksAreEarned == Spec => MarkedWhenClosed
<1>1. Init => Searched
  BY InitLabels DEF Searched
<1>2. Searched /\ [Next]_vars => Searched'
  BY StepLabels
<1>3. Searched /\ [Next]_vars => [~spent' => \A s \in marked' \ marked : Closed(s)']_vars
  BY StepLabels DEF MarksEarned
<1> QED BY <1>1, <1>2, <1>3, PTL DEF Spec, MarkedWhenClosed

-----------------------------------------------------------------------------
(* The state space of vi.  What is found is in the space, or in the queue   *)
(* that is put there before the first sweep.                                *)

\* What is in the queue, without what is done: once, if that is so at the start.
Fresh(q, done) ==
  /\ q \in Seq(States)
  /\ IsInjective(InitOrder) => Distinct(q) /\ ToSet(q) \cap done = {}

LEMMA PutCovers ==
  ASSUME NEW s \in States, NEW outcomes \in Seq([state : States, weight : 1..Whole]),
         NEW q, Fresh(q, ToSet(space) \cup {s})
  PROVE  /\ Fresh(PutInFront(q, s, outcomes), ToSet(space) \cup {s})
         /\ ToSet(q) \subseteq ToSet(PutInFront(q, s, outcomes))
         /\ \A i \in 1..Len(outcomes) :
              outcomes[i].state \in ToSet(PutInFront(q, s, outcomes)) \cup ToSet(space) \cup {s}
<1> DEFINE n == Len(outcomes)
           done == ToSet(space) \cup {s}
           D == {r \in Seq(States) : Fresh(r, done) /\ ToSet(q) \subseteq ToSet(r)}
           Put(r, t) == IF t \in ToSet(r) \cup done THEN r ELSE <<t>> \o r
           F == [p \in (1..n) \X D |-> Put(p[2], outcomes[p[1]].state)]
           Puts(f) == f = [i \in 0..n |->
                        IF i = 0 THEN q
                        ELSE IF outcomes[i].state \in ToSet(f[i - 1]) \cup ToSet(space) \cup {s} THEN f[i - 1]
                        ELSE <<outcomes[i].state>> \o f[i - 1]]
           put == CHOOSE f : Puts(f)
<1>1. n \in Nat /\ \A i \in 1..n : outcomes[i].state \in States
  <2>1. Len(outcomes) \in Nat /\ \A i \in 1..Len(outcomes) : outcomes[i] \in [state : States, weight : 1..Whole]
    BY ElementsOf
  <2> QED BY <2>1
<1>2. PutInFront(q, s, outcomes) = put[n]
  BY DEF PutInFront
<1> HIDE DEF n
<1>3. q \in D
  BY DEF Fresh
<1>4. ASSUME NEW r \in D, NEW t \in States
      PROVE  Put(r, t) \in D /\ t \in ToSet(Put(r, t)) \cup done /\ ToSet(r) \subseteq ToSet(Put(r, t))
  <2>1. CASE t \in ToSet(r) \cup done
    BY <2>1
  <2>2. CASE t \notin ToSet(r) \cup done
    <3>1. PICK u : u = <<t>> \o r
      OBVIOUS
    <3>2. r \in Seq(States)
      OBVIOUS
    <3>3. u \in Seq(States) /\ ToSet(u) = {t} \cup ToSet(r) /\ (Distinct(r) => Distinct(u))
      BY <2>2, <3>1, <3>2, FrontOf
    <3>4. Fresh(u, done)
      BY <2>2, <3>3 DEF Fresh
    <3>5. Put(r, t) = u
      BY <2>2, <3>1
    <3> QED BY <3>3, <3>4, <3>5
  <2> QED BY <2>1, <2>2
<1>5. F \in Steps(n, D)
  <2> HIDE DEF D, Put
  <2> QED BY <1>1, <1>4 DEF Steps
<1>6. PICK f \in [0..n -> D] : f[0] = q /\ \A i \in 1..n : f[i] = F[<<i, f[i - 1]>>]
  <2> HIDE DEF D, F
  <2>1. \E f : f \in Traces(n, D, q, F)
    BY <1>1, <1>3, <1>5, RecursionExists
  <2> QED BY <2>1 DEF Traces
<1>7. ASSUME NEW i \in 1..n PROVE f[i - 1] \in D /\ f[i] = Put(f[i - 1], outcomes[i].state)
  <2>1. f[i - 1] \in D
    <3> HIDE DEF D
    <3> QED BY <1>1, <1>6
  <2> HIDE DEF D, Put
  <2> QED BY <1>6, <2>1
<1>8. Puts(f)
  <2>1. ASSUME NEW i \in 0..n
        PROVE  f[i] = IF i = 0 THEN q
                      ELSE IF outcomes[i].state \in ToSet(f[i - 1]) \cup ToSet(space) \cup {s} THEN f[i - 1]
                      ELSE <<outcomes[i].state>> \o f[i - 1]
    <3>1. CASE i = 0
      BY <1>6, <3>1
    <3>2. CASE i # 0
      <4>1. i \in 1..n
        BY <1>1, <3>2
      <4>2. f[i] = Put(f[i - 1], outcomes[i].state)
        BY <1>7, <4>1
      <4> QED BY <3>2, <4>2
    <3> QED BY <3>1, <3>2
  <2>2. f = [i \in 0..n |-> f[i]]
    BY <1>6
  <2> QED BY <2>1, <2>2
<1>9. Puts(put)
  <2> HIDE DEF Puts
  <2> QED BY <1>8
<1> HIDE DEF put
<1>10. ASSUME NEW i \in 0..n PROVE put[i] = IF i = 0 THEN q ELSE Put(put[i - 1], outcomes[i].state)
  BY <1>9
<1> HIDE DEF Put, D, Puts, F
<1> DEFINE T == {i \in 0..n : put[i] \in D /\ \A j \in 1..i : outcomes[j].state \in ToSet(put[i]) \cup done}
<1>11. 0 \in T
  BY <1>1, <1>3, <1>10
<1>12. ASSUME NEW i \in 1..n, i - 1 \in T PROVE i \in T
  <2>1. put[i] = Put(put[i - 1], outcomes[i].state) /\ put[i - 1] \in D /\ outcomes[i].state \in States
    BY <1>1, <1>10, <1>12
  <2>2. /\ put[i] \in D /\ outcomes[i].state \in ToSet(put[i]) \cup done
        /\ ToSet(put[i - 1]) \subseteq ToSet(put[i])
    BY <1>4, <2>1
  <2>3. ASSUME NEW j \in 1..i PROVE outcomes[j].state \in ToSet(put[i]) \cup done
    <3>1. j = i \/ j \in 1..(i - 1)
      BY <1>1
    <3> QED BY <1>12, <2>2, <3>1
  <2> QED BY <1>1, <2>2, <2>3
<1>13. 0..n \subseteq T
  <2> HIDE DEF T
  <2> QED BY <1>1, <1>11, <1>12, UpTo
<1>14. put[n] \in D /\ \A j \in 1..n : outcomes[j].state \in ToSet(put[n]) \cup done
  BY <1>1, <1>13
<1> QED BY <1>2, <1>14 DEF D, n

LEMMA FoundCovers ==
  ASSUME NEW s \in States, Fresh(Tail(queue), ToSet(space) \cup {s})
  PROVE  /\ Fresh(Found(s), ToSet(space) \cup {s})
         /\ ToSet(Tail(queue)) \subseteq ToSet(Found(s))
         /\ \A a \in Actions : Successors(s, a) \subseteq ToSet(Found(s)) \cup ToSet(space) \cup {s}
<1> DEFINE n == NumActions
           done == ToSet(space) \cup {s}
           z == Tail(queue)
           D == {r \in Seq(States) : Fresh(r, done) /\ ToSet(z) \subseteq ToSet(r)}
           Try(r, a) == PutInFront(r, s, Outcomes[<<s, a>>])
           F == [p \in (1..n) \X D |-> Try(p[2], p[1])]
           Tries(f) == f = [a \in 0..n |-> IF a = 0 THEN z ELSE PutInFront(f[a - 1], s, Outcomes[<<s, a>>])]
           after == CHOOSE f : Tries(f)
<1>1. n \in Nat /\ \A a \in 1..n : Outcomes[<<s, a>>] \in Seq([state : States, weight : 1..Whole])
  BY SspAssumption DEF Actions
<1>2. Found(s) = after[n]
  BY DEF Found
<1>3. z \in D
  BY DEF Fresh
<1>4. ASSUME NEW r \in D, NEW a \in 1..n
      PROVE  /\ Try(r, a) \in D /\ ToSet(r) \subseteq ToSet(Try(r, a))
             /\ Successors(s, a) \subseteq ToSet(Try(r, a)) \cup done
  <2>1. PICK o, u : o = Outcomes[<<s, a>>] /\ u = PutInFront(r, s, o)
    OBVIOUS
  <2>2. o \in Seq([state : States, weight : 1..Whole]) /\ Fresh(r, done) /\ ToSet(z) \subseteq ToSet(r)
    BY <1>1, <2>1
  <2>3. /\ Fresh(u, done) /\ ToSet(r) \subseteq ToSet(u)
        /\ \A i \in 1..Len(o) : o[i].state \in ToSet(u) \cup done
    BY <2>1, <2>2, PutCovers
  <2>4. Successors(s, a) = {o[i].state : i \in 1..Len(o)}
    BY <2>1 DEF Successors
  <2>5. Try(r, a) = u /\ u \in Seq(States)
    BY <2>1, <2>3 DEF Fresh
  <2> QED BY <2>2, <2>3, <2>4, <2>5
<1> HIDE DEF Try
<1>5. F \in Steps(n, D)
  <2> HIDE DEF D
  <2> QED BY <1>1, <1>4 DEF Steps
<1>6. PICK f \in [0..n -> D] : f[0] = z /\ \A a \in 1..n : f[a] = F[<<a, f[a - 1]>>]
  <2> HIDE DEF D, F, n, z
  <2>1. \E f : f \in Traces(n, D, z, F)
    BY <1>1, <1>3, <1>5, RecursionExists
  <2> QED BY <2>1 DEF Traces
<1>7. ASSUME NEW a \in 1..n PROVE f[a] = Try(f[a - 1], a)
  <2>1. f[a - 1] \in D
    <3> HIDE DEF D
    <3> QED BY <1>1, <1>6
  <2> HIDE DEF D
  <2> QED BY <1>6, <2>1
<1>8. Tries(f)
  <2>1. ASSUME NEW a \in 0..n
        PROVE  f[a] = IF a = 0 THEN z ELSE PutInFront(f[a - 1], s, Outcomes[<<s, a>>])
    <3>1. CASE a = 0
      BY <1>6, <3>1
    <3>2. CASE a # 0
      <4>1. a \in 1..n
        BY <1>1, <3>2
      <4> QED BY <1>7, <3>2, <4>1 DEF Try
    <3> QED BY <3>1, <3>2
  <2>2. f = [a \in 0..n |-> f[a]]
    BY <1>6
  <2> QED BY <2>1, <2>2
<1>9. Tries(after)
  <2> HIDE DEF Tries
  <2> QED BY <1>8
<1> HIDE DEF after
<1>10. ASSUME NEW a \in 0..n PROVE after[a] = IF a = 0 THEN z ELSE Try(after[a - 1], a)
  BY <1>9 DEF Try
<1> HIDE DEF D, Tries, F, n
<1> DEFINE T == {a \in 0..n : after[a] \in D /\ \A b \in 1..a : Successors(s, b) \subseteq ToSet(after[a]) \cup done}
<1>11. 0 \in T
  BY <1>1, <1>3, <1>10
<1>12. ASSUME NEW a \in 1..n, a - 1 \in T PROVE a \in T
  <2>1. after[a] = Try(after[a - 1], a) /\ after[a - 1] \in D
    BY <1>1, <1>10, <1>12
  <2>2. /\ after[a] \in D /\ Successors(s, a) \subseteq ToSet(after[a]) \cup done
        /\ ToSet(after[a - 1]) \subseteq ToSet(after[a])
    BY <1>4, <2>1
  <2>3. ASSUME NEW b \in 1..a PROVE Successors(s, b) \subseteq ToSet(after[a]) \cup done
    <3>1. b = a \/ b \in 1..(a - 1)
      BY <1>1
    <3> QED BY <1>12, <2>2, <3>1
  <2> QED BY <1>1, <2>2, <2>3
<1>13. 0..n \subseteq T
  <2> HIDE DEF T
  <2> QED BY <1>1, <1>11, <1>12, UpTo
<1>14. after[n] \in D /\ \A b \in 1..n : Successors(s, b) \subseteq ToSet(after[n]) \cup done
  BY <1>1, <1>13
<1> QED BY <1>2, <1>14 DEF D, n, Actions

\* Every state found is done or waits in the queue; during a sweep whose residual is
\* still 0, the entries it has passed are those of their lookahead.
Space ==
  /\ queue \in Seq(States) /\ space \in Seq(States)
  /\ InitStates \subseteq ToSet(queue) \cup ToSet(space)
  /\ \A s \in ToSet(space) : \A a \in Actions : Successors(s, a) \subseteq ToSet(queue) \cup ToSet(space)
  /\ IsInjective(InitOrder) =>
       Distinct(queue) /\ Distinct(space) /\ ToSet(queue) \cap ToSet(space) = {}

Fixed(s) == V[s] = BestValue(V, s)

ViInv ==
  planner = "vi" =>
    /\ Space
    /\ pc \in {"generate", "sweep", "idle", "sent", "decide", "undefined"}
    /\ pc # "generate" => queue = <<>>
    /\ pc = "sweep" => /\ position \in 1..Len(space) /\ residual \in Nat
                       /\ residual = 0 => \A i \in 1..(position - 1) : Fixed(space[i])
    /\ pc \notin {"generate", "sweep"} /\ Epsilon = 0 => \A s \in ToSet(space) : Fixed(s)

LEMMA InitVi == ASSUME Init PROVE ViInv
<1>1. SUFFICES ASSUME planner = "vi" PROVE ViInv
  BY DEF ViInv
<1>2. pc = "generate" /\ queue = Reverse(InitOrder) /\ space = <<>>
  BY <1>1 DEF Init
<1>3. InitOrder \in Seq(States) /\ ToSet(InitOrder) = InitStates
  BY AlgorithmsAssumption DEF ToSet
<1>4. /\ queue \in Seq(States) /\ ToSet(queue) = InitStates
      /\ Distinct(InitOrder) => Distinct(queue)
  BY <1>2, <1>3, ReverseOf
<1>5. space \in Seq(States) /\ ToSet(space) = {} /\ Distinct(space)
  BY <1>2, EmptySet
<1>6. IsInjective(InitOrder) => Distinct(InitOrder)
  <2>1. DOMAIN InitOrder = 1..Len(InitOrder)
    BY <1>3
  <2> QED BY <2>1 DEF IsInjective, Distinct
<1>7. Space
  BY <1>4, <1>5, <1>6 DEF Space
<1> QED BY <1>2, <1>7 DEF ViInv

LEMMA GenerateVi == ASSUME ViInv, planner = "vi", Generate PROVE ViInv'
<1>1. pc = "generate" /\ UNCHANGED <<planner, V>> /\ Space
  BY DEF Generate, ViInv
<1>2. CASE queue # <<>>
  <2>1. PICK s : s = Head(queue)
    OBVIOUS
  <2>2. queue' = Found(s) /\ space' = Append(space, s) /\ pc' = pc
    BY <1>2, <2>1 DEF Generate
  <2>3. /\ s \in States /\ Tail(queue) \in Seq(States) /\ ToSet(queue) = {s} \cup ToSet(Tail(queue))
        /\ Distinct(queue) => Distinct(Tail(queue)) /\ s \notin ToSet(Tail(queue))
    BY <1>1, <1>2, <2>1, HeadOf DEF Space
  <2>4. Fresh(Tail(queue), ToSet(space) \cup {s})
    BY <1>1, <2>3 DEF Space, Fresh
  <2>5. /\ Fresh(queue', ToSet(space) \cup {s})
        /\ ToSet(Tail(queue)) \subseteq ToSet(queue')
        /\ \A a \in Actions : Successors(s, a) \subseteq ToSet(queue') \cup ToSet(space) \cup {s}
    BY <2>2, <2>3, <2>4, FoundCovers
  <2>6. /\ space' \in Seq(States) /\ ToSet(space') = ToSet(space) \cup {s}
        /\ Distinct(space) /\ s \notin ToSet(space) => Distinct(space')
    BY <1>1, <2>2, <2>3, BackOf DEF Space
  <2>7. IsInjective(InitOrder) =>
          Distinct(queue') /\ Distinct(space') /\ ToSet(queue') \cap ToSet(space') = {}
    BY <1>1, <2>3, <2>5, <2>6 DEF Space, Fresh
  <2>8. queue' \in Seq(States)
    BY <2>5 DEF Fresh
  <2>9. InitStates \subseteq ToSet(queue') \cup ToSet(space')
    BY <1>1, <2>3, <2>5, <2>6 DEF Space
  <2>10. \A t \in ToSet(space') : \A a \in Actions : Successors(t, a) \subseteq ToSet(queue') \cup ToSet(space')
    BY <1>1, <2>3, <2>5, <2>6 DEF Space
  <2>11. Space'
    BY <2>6, <2>7, <2>8, <2>9, <2>10 DEF Space
  <2> QED BY <1>1, <2>2, <2>11 DEF ViInv
<1>3. CASE queue = <<>>
  <2>1. pc' = "sweep" /\ position' = 1 /\ residual' = 0 /\ UNCHANGED <<queue, space>>
    BY <1>3 DEF Generate
  <2>2. 1 \in 1..Len(space)
    <3>1. ToSet(queue) = {}
      BY <1>3, EmptySet
    <3>2. space \in Seq(States) /\ ToSet(space) # {}
      BY <1>1, <3>1, SspAssumption DEF Space
    <3>3. ToSet(space) = {space[i] : i \in 1..Len(space)} /\ Len(space) \in Nat
      BY <3>2, SetOf
    <3> QED BY <3>2, <3>3
  <2>3. Space' /\ 1..(1 - 1) = {}
    BY <1>1, <2>1 DEF Space
  <2> QED BY <1>1, <1>3, <2>1, <2>2, <2>3 DEF ViInv
<1> QED BY <1>2, <1>3

LEMMA GreaterOf ==
  ASSUME NEW x \in Nat, NEW y \in Nat
  PROVE  Max({x, y}) \in {x, y} /\ Max({x, y}) >= x /\ Max({x, y}) >= y
<1>1. \E z \in {x, y} : \A u \in {x, y} : z >= u
  OBVIOUS
<1> QED BY <1>1 DEF Max

LEMMA SweepVi ==
  ASSUME ViInv, planner = "vi", Sweep, V \in Values PROVE ViInv'
<1>1. /\ pc = "sweep" /\ Space /\ queue = <<>> /\ position \in 1..Len(space) /\ residual \in Nat
      /\ residual = 0 => \A i \in 1..(position - 1) : Fixed(space[i])
      /\ UNCHANGED <<planner, queue, space>>
  BY DEF Sweep, ViInv
<1>2. PICK s, W, r : s = space[position] /\ W = Update(V, s, Best(V, s).value)
                     /\ r = Max({residual, Distance(V[s], W[s])})
  OBVIOUS
<1>3. /\ V' = W
      /\ IF position < Len(space)
           THEN position' = position + 1 /\ residual' = r /\ UNCHANGED pc
           ELSE position' = 1 /\ residual' = 0 /\ pc' = IF r > Epsilon THEN "sweep" ELSE "idle"
  BY <1>2 DEF Sweep
<1>4. /\ space \in Seq(States) /\ s \in States /\ Len(space) \in Nat /\ position \in Nat
      /\ ToSet(space) = {space[i] : i \in 1..Len(space)}
  BY <1>1, <1>2, ElementsOf, SetOf DEF Space
<1>5. Best(V, s).value \in Nat /\ Capped(Best(V, s).value) = BestValue(V, s)
  <2>1. \A u \in States : V[u] <= V[u]
    BY SspAssumption DEF Values
  <2> QED BY <1>4, <2>1, BestMonotone DEF BestValue
<1>6. /\ W \in Values /\ W[s] = BestValue(V, s)
      /\ \A t \in States \ {s} : W[t] = V[t]
  BY <1>2, <1>4, <1>5, UpdateAt, UpdatedAt
<1>7. r \in Nat /\ (r = 0 => residual = 0 /\ V[s] = W[s])
  <2>1. V[s] \in Nat /\ W[s] \in Nat
    BY <1>4, <1>6, SspAssumption DEF Values
  <2>2. Distance(V[s], W[s]) \in Nat /\ (Distance(V[s], W[s]) = 0 => V[s] = W[s])
    BY <2>1 DEF Distance
  <2> QED BY <1>1, <1>2, <2>2, GreaterOf
<1>8. ASSUME r = 0 PROVE V' = V /\ \A i \in 1..position : Fixed(space[i])'
  <2>1. \A t \in States : V[t] = W[t]
    BY <1>6, <1>7, <1>8
  <2>2. V' = V
    BY <1>3, <1>6, <2>1 DEF Values
  <2>3. Fixed(s)
    BY <1>6, <1>7, <1>8 DEF Fixed
  <2>4. ASSUME NEW i \in 1..position PROVE Fixed(space[i])'
    <3>1. i = position \/ i \in 1..(position - 1)
      BY <1>4
    <3>2. Fixed(space[i])
      BY <1>1, <1>2, <1>7, <1>8, <2>3, <3>1
    <3> QED BY <1>1, <2>2, <3>2 DEF Fixed
  <2> QED BY <2>2, <2>4
<1>9. Space'
  BY <1>1 DEF Space
<1>10. CASE position < Len(space)
  <2>1. position' \in 1..Len(space') /\ residual' \in Nat /\ pc' = "sweep" /\ position' - 1 = position
    BY <1>1, <1>3, <1>4, <1>7, <1>10
  <2>2. residual' = 0 => \A i \in 1..(position' - 1) : Fixed(space[i])'
    BY <1>3, <1>8, <1>10, <2>1
  <2> QED BY <1>1, <1>9, <2>1, <2>2 DEF ViInv
<1>11. CASE ~(position < Len(space)) /\ r > Epsilon
  <2>1. pc' = "sweep" /\ position' = 1 /\ residual' = 0
    BY <1>3, <1>11
  <2>2. 1 \in 1..Len(space') /\ 1..(1 - 1) = {}
    BY <1>1, <1>4
  <2> QED BY <1>1, <1>9, <2>1, <2>2 DEF ViInv
<1>12. CASE ~(position < Len(space)) /\ ~(r > Epsilon)
  <2>1. pc' = "idle"
    BY <1>3, <1>12
  <2>2. ASSUME Epsilon = 0, NEW t \in ToSet(space) PROVE Fixed(t)'
    <3>1. r = 0 /\ position = Len(space)
      BY <1>1, <1>4, <1>7, <1>12, <2>2
    <3>2. PICK i \in 1..position : t = space[i]
      BY <1>4, <2>2, <3>1
    <3>3. Fixed(space[i])' /\ UNCHANGED space
      BY <1>1, <1>8, <3>1
    <3> QED BY <3>2, <3>3 DEF Fixed
  <2>3. Epsilon = 0 => \A t \in ToSet(space') : Fixed(t)'
    BY <1>1, <2>2
  <2> QED BY <1>1, <1>9, <2>1, <2>3 DEF ViInv
<1> QED BY <1>10, <1>11, <1>12

\* After the sweeps vi writes to no entry any more.
LEMMA ElsewhereVi ==
  ASSUME ViInv, [Next]_vars, ~Generate, ~Sweep PROVE ViInv'
<1>1. SUFFICES ASSUME planner' = "vi" PROVE ViInv'
  BY DEF ViInv
<1>2. CASE UNCHANGED vars
  <2>1. UNCHANGED <<planner, V, pc, queue, space, position, residual>>
    BY <1>2 DEF vars, spaceVars
  <2> QED BY <2>1 DEF ViInv, Space, Fixed
<1>3. CASE Next
  <2>1. planner = "vi" /\ pc \in {"generate", "sweep", "idle", "sent", "decide", "undefined"}
    <3>1. planner' = planner
      BY <1>3
         DEF Next, Compute, NewRound, NextState, GiveUp, Decide, Generate, Sweep, ViNext, RandomNext,
             AspTrial, AspStep, AspStop, AspNext, HdpDecide, HdpNext, Solve, DfsBase, DfsResidual,
             DfsVisit, VisitChild, VisitEnd, Lost, DfsUpdate, DfsReturn, SearchEnd
    <3> QED BY <1>1, <3>1 DEF ViInv
  <2>2. NewRound \/ NextState \/ GiveUp \/ Decide \/ ViNext \/ RandomNext
    BY <1>3, <2>1
       DEF Next, Compute, AspTrial, AspStep, AspStop, AspNext, HdpDecide, HdpNext, Solve, DfsBase,
           Open, DfsResidual, DfsVisit, VisitChild, VisitEnd, Lost, DfsUpdate, DfsReturn, SearchEnd
  <2>3. /\ UNCHANGED <<V, queue, space>> /\ pc \notin {"generate", "sweep"}
        /\ pc' \in {"idle", "sent", "decide", "undefined"}
    BY <2>2 DEF NewRound, NextState, GiveUp, Decide, ViNext, RandomNext, Answer, spaceVars
  <2> QED BY <2>1, <2>3 DEF ViInv, Space, Fixed
<1> QED BY <1>2, <1>3

LEMMA StepVi == ASSUME V \in Values, ViInv, [Next]_vars PROVE ViInv'
<1>1. CASE Generate \/ Sweep
  <2>1. planner' = planner
    BY <1>1 DEF Generate, Sweep
  <2>2. CASE planner = "vi"
    BY <1>1, <2>2, GenerateVi, SweepVi
  <2>3. CASE planner # "vi"
    BY <2>1, <2>3 DEF ViInv
  <2> QED BY <2>2, <2>3
<1> QED BY <1>1, ElsewhereVi

\* What is fixed and closed under all actions has optimal values.
LEMMA SpaceOptimal ==
  ASSUME ViInv, Below(V) PROVE ViOptimal
<1>1. SUFFICES ASSUME planner = "vi", pc \notin {"generate", "sweep"} PROVE ViOptimal
  BY DEF ViOptimal
<1>2. Space /\ queue = <<>> /\ (Epsilon = 0 => \A s \in ToSet(space) : Fixed(s))
  BY <1>1 DEF ViInv
<1>3. ToSet(queue) = {} /\ space \in Seq(States) /\ ToSet(space) \in SUBSET States
  BY <1>2, EmptySet, SetOf DEF Space
<1>4. InitStates \subseteq ToSet(space) /\ Reachable(ToSet(space))
  BY <1>2, <1>3 DEF Space, Reachable
<1>5. IsInjective(InitOrder) => IsInjective(space)
  <2>1. DOMAIN space = 1..Len(space)
    BY <1>3
  <2> QED BY <1>2, <2>1 DEF Space, IsInjective, Distinct
<1>6. ASSUME Epsilon = 0 PROVE \A s \in ToSet(space) : V[s] = VStar[s]
  <2>1. V \in Values /\ \A s \in States : V[s] <= VStar[s]
    BY DEF Below
  <2>2. ASSUME NEW s \in ToSet(space), s \notin GoalStates, V[s] # DeadEndValue
        PROVE  /\ V[s] = BestValue(V, s) /\ BestAction(V, s) # NoAction
               /\ Successors(s, BestAction(V, s)) \subseteq ToSet(space)
    <3>1. s \in States /\ V[s] = BestValue(V, s)
      BY <1>2, <1>3, <1>6 DEF Fixed
    <3>2. BestAction(V, s) # NoAction
      <4>1. SUFFICES ASSUME BestAction(V, s) = NoAction PROVE FALSE
        OBVIOUS
      <4>2. Enabled(s) = {}
        BY <2>1, <3>1, <4>1, NoActionMeansNone
      <4> QED BY <2>2, <3>1, <4>2, SspAssumption DEF BestValue, Best, Capped
    <3>3. BestAction(V, s) \in Actions
      BY <2>1, <3>1, <3>2, GreedyType DEF Enabled
    <3> QED BY <1>4, <3>1, <3>2, <3>3 DEF Reachable
  <2> QED BY <1>3, <2>1, <2>2, OptimalWhenClosed
<1> QED BY <1>4, <1>5, <1>6 DEF ViOptimal

\* When the first round begins vi knows all that can be reached, and with epsilon 0 it
\* knows the optimal costs, from every admissible heuristic, in whatever order the states
\* were found; they stay what they are in every round.
THEOREM ViKnowsTheCosts == Spec => []ViOptimal
<1>1. Init => Below(V) /\ ViInv
  BY AdmissibleBelow, InitVi DEF Init
<1>2. Below(V) /\ ViInv /\ [Next]_vars => Below(V)' /\ ViInv'
  BY StepBacksUp, BackedUpBelow, StepVi DEF Below
<1>3. Below(V) /\ ViInv => ViOptimal
  BY SpaceOptimal
<1> QED BY <1>1, <1>2, <1>3, PTL DEF Spec
=============================================================================

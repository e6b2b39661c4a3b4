----------------------- MODULE LrtdpOptimality_proof -----------------------
(***************************************************************************)
(* lrtdp never overestimates, for every problem and every admissible       *)
(* heuristic, and never lowers a value once the values are consistent.     *)
(* Then its labels are never premature, and if the heuristic knows the     *)
(* dead ends and epsilon is 0 its answers are optimal.                     *)
(***************************************************************************)
EXTENDS LrtdpOptimality, SspOptimality_proof

\* Every step of the planner leaves the hash table as it is or backs up an entry.
LEMMA StepBacksUp == ASSUME V \in Values, [Next]_vars PROVE BackedUp(V, V')
<1>1. ASSUME TrialDeadEnd PROVE BackedUp(V, V')
  BY <1>1, DeadEndWritten DEF TrialDeadEnd, Walking
<1>2. ASSUME NEW s \in States, NEW t \in States, TrialMove(s, t) PROVE BackedUp(V, V')
  BY <1>2, LookaheadWritten DEF TrialMove
<1>3. ASSUME CheckNode PROVE BackedUp(V, V')
  <2> DEFINE s == Head(open)
  <2>1. V' = V \/ (BestAction(V, s) = NoAction /\ V' = Update(V, s, DeadEndValue))
    BY <1>3 DEF CheckNode, BestAction
  <2>2. s \in GoalStates => Enabled(s) # {}
    BY GoalAssumption
  <2> HIDE DEF s
  <2> QED BY <2>1, <2>2, DeadEndWritten DEF BackedUp
<1>4. ASSUME Backup PROVE BackedUp(V, V')
  BY <1>4, LookaheadWritten DEF Backup
<1>5. V' = V => BackedUp(V, V')
  BY DEF BackedUp
<1> QED
  BY <1>1, <1>2, <1>3, <1>4, <1>5
     DEF Next, Compute, GiveUp, Solve, Answer, TrialStop, Label, TrialEnd, CheckSucceeds,
         CheckFails, BackupEnd, vars

LEMMA BelowInvariant == Spec => []Below(V)
<1>1. Init => Below(V)
  BY AdmissibleBelow DEF Init
<1>2. Below(V) /\ [Next]_vars => Below(V)'
  BY StepBacksUp, BackedUpBelow DEF Below
<1> QED BY <1>1, <1>2, PTL DEF Spec

\* No trial, check or backup ever raises a value above the optimal cost, in whatever
\* order they come and whichever outcomes are drawn: the hash table stays admissible
\* over all the rounds of a session, and its values stay within 0..dead_end_value.
THEOREM StaysAdmissible == Spec => [](V \in Values /\ NeverOverestimates)
<1>1. Below(V) => V \in Values /\ NeverOverestimates
  BY DEF Below, NeverOverestimates
<1> QED BY <1>1, BelowInvariant, PTL

\* Once no value exceeds its lookahead, no step of any trial, check or backup lowers a
\* value or makes one exceed its lookahead: the order of the updates does not matter.
THEOREM StaysConsistent == Spec => ConsistencyKept
<1>1. Below(V) /\ [Next]_vars => [Consistent => Consistent' /\ \A s \in States : V'[s] >= V[s]]_V
  <2> SUFFICES ASSUME V \in Values, [Next]_vars, Consistent
               PROVE  Consistent' /\ \A s \in States : V'[s] >= V[s]
    BY DEF Below
  <2>1. \A s \in States : V[s] <= V'[s] /\ V'[s] <= BestValue(V', s)
    BY StepBacksUp, BackedUpConsistent DEF Consistent
  <2> QED BY <2>1 DEF Consistent
<1> QED BY <1>1, BelowInvariant, PTL DEF Spec, ConsistencyKept

-----------------------------------------------------------------------------
(* Labels.  A consistent heuristic makes every value rise only, so a        *)
(* labelled state keeps its greedy action while the entries of that         *)
(* action's outcomes keep their values; and they do, being labelled.        *)

\* What checkSolved has met: what waits in open is neither labelled nor closed, and
\* what it labels on its way are dead ends only.
Frontier(q, met, done) ==
  /\ q \in Seq(States) /\ Distinct(q)
  /\ met \in SUBSET States
  /\ met = ToSet(q) \cup done
  /\ ToSet(q) \cap (done \cup solved) = {}

DeadLabels == \A s \in ToSet(closed) \cap solved : V[s] = DeadEndValue

\* A settled state, with the exception for dead ends found late or, if b, without it.
SettledAs(b, s) ==
  \/ s \in GoalStates \/ V[s] = DeadEndValue \/ (~b /\ FoundDeadEnd(s))
  \/ /\ Residual(s) <= Epsilon
     /\ BestAction(V, s) # NoAction
     /\ Successors(s, BestAction(V, s)) \subseteq solved

\* What a closed state has passed when no residual was met.
Passed(b, s) ==
  \/ s \in GoalStates \/ V[s] = DeadEndValue \/ (~b /\ FoundDeadEnd(s))
  \/ /\ Residual(s) <= Epsilon
     /\ BestAction(V, s) # NoAction
     /\ Successors(s, BestAction(V, s)) \subseteq solved \cup aux

ClosedInv(b) ==
  /\ V \in Values /\ Consistent /\ (b => KnowsDeadEnds)
  /\ node \in States /\ asked \in States \ GoalStates
  /\ stack \in Seq(States)
  /\ solved \in SUBSET States
  /\ \A s \in solved : SettledAs(b, s)
  /\ pc = "check" => /\ Frontier(open, aux, ToSet(closed))
                     /\ closed \in Seq(States) /\ DeadLabels
                     /\ rv \in BOOLEAN
                     /\ rv => \A s \in ToSet(closed) : Passed(b, s)
  /\ pc = "backup" => closed \in Seq(States) /\ DeadLabels

\* The outcomes of an action are put in front of open until all of them are met.
LEMMA ExpandedCovers ==
  ASSUME NEW done \in SUBSET States, Frontier(Tail(open), aux, done), solved \in SUBSET States,
         NEW s \in States, NEW a \in Enabled(s)
  PROVE  /\ Frontier(Expanded(s, a).open, Expanded(s, a).aux, done)
         /\ aux \subseteq Expanded(s, a).aux
         /\ Successors(s, a) \subseteq solved \cup Expanded(s, a).aux
<1> DEFINE o == Outcomes[<<s, a>>]
           n == Len(o)
           D == {r \in [open : Seq(States), aux : SUBSET States] :
                  Frontier(r.open, r.aux, done) /\ aux \subseteq r.aux}
           Put(r, t) == IF t \in solved \cup r.aux THEN r
                        ELSE [open |-> <<t>> \o r.open, aux |-> r.aux \cup {t}]
           F == [p \in (1..n) \X D |-> Put(p[2], o[p[1]].state)]
           z == [open |-> Tail(open), aux |-> aux]
           Put0(f) == f = [i \in 0..n |-> IF i = 0 THEN z
                                        ELSE IF o[i].state \in solved \cup f[i - 1].aux THEN f[i - 1]
                                        ELSE [open |-> <<o[i].state>> \o f[i - 1].open,
                                              aux |-> f[i - 1].aux \cup {o[i].state}]]
           q == CHOOSE f : Put0(f)
<1>1. n \in Nat /\ \A i \in 1..n : o[i].state \in States
  <2>1. o \in Seq([state : States, weight : 1..Whole])
    BY SspAssumption DEF Enabled
  <2> HIDE DEF o
  <2>2. Len(o) \in Nat /\ \A i \in 1..Len(o) : o[i] \in [state : States, weight : 1..Whole]
    BY <2>1, ElementsOf
  <2> QED BY <2>2
<1>2. Successors(s, a) = {o[i].state : i \in 1..n}
  BY DEF Successors
<1>3. Expanded(s, a) = q[n]
  BY DEF Expanded
<1> HIDE DEF o, n
<1>4. z \in D
  BY DEF Frontier
<1>5. ASSUME NEW r \in D, NEW t \in States
      PROVE  Put(r, t) \in D /\ t \in solved \cup Put(r, t).aux /\ r.aux \subseteq Put(r, t).aux
  <2>1. CASE t \in solved \cup r.aux
    BY <2>1
  <2>2. CASE t \notin solved \cup r.aux
    <3> DEFINE u == [open |-> <<t>> \o r.open, aux |-> r.aux \cup {t}]
    <3>1. r.open \in Seq(States) /\ Frontier(r.open, r.aux, done)
      OBVIOUS
    <3>2. t \notin ToSet(r.open) /\ t \notin done
      BY <2>2, <3>1 DEF Frontier
    <3>3. u.open \in Seq(States) /\ ToSet(u.open) = {t} \cup ToSet(r.open) /\ Distinct(u.open)
      BY <3>1, <3>2, FrontOf DEF Frontier
    <3>4. Frontier(u.open, u.aux, done)
      BY <2>2, <3>1, <3>2, <3>3 DEF Frontier
    <3>5. Put(r, t) = u
      BY <2>2
    <3> QED BY <3>3, <3>4, <3>5
  <2> QED BY <2>1, <2>2
<1>6. F \in Steps(n, D)
  <2> HIDE DEF D, Put
  <2> QED BY <1>1, <1>5 DEF Steps
<1>7. PICK f \in [0..n -> D] : f[0] = z /\ \A i \in 1..n : f[i] = F[<<i, f[i - 1]>>]
  <2>1. n \in Nat
    BY <1>1
  <2> HIDE DEF D, F, z
  <2>2. \E f : f \in Traces(n, D, z, F)
    BY <2>1, <1>4, <1>6, RecursionExists
  <2> QED BY <2>2 DEF Traces
<1>8. ASSUME NEW i \in 1..n PROVE f[i - 1] \in D /\ f[i] = Put(f[i - 1], o[i].state)
  <2>1. f[i - 1] \in D
    <3> HIDE DEF D
    <3> QED BY <1>1, <1>7
  <2> HIDE DEF D, Put
  <2> QED BY <1>7, <2>1
<1>9. Put0(f)
  <2>1. ASSUME NEW i \in 0..n
        PROVE  f[i] = IF i = 0 THEN z
                      ELSE IF o[i].state \in solved \cup f[i - 1].aux THEN f[i - 1]
                      ELSE [open |-> <<o[i].state>> \o f[i - 1].open,
                            aux |-> f[i - 1].aux \cup {o[i].state}]
    <3>1. CASE i = 0
      BY <3>1, <1>7
    <3>2. CASE i # 0
      <4>1. i \in 1..n
        BY <1>1, <3>2
      <4>2. f[i] = Put(f[i - 1], o[i].state)
        BY <1>8, <4>1
      <4> QED BY <3>2, <4>2
    <3> QED BY <3>1, <3>2
  <2>2. f = [i \in 0..n |-> f[i]]
    BY <1>7
  <2> HIDE DEF z
  <2> QED BY <2>1, <2>2
<1>10. Put0(q)
  <2> HIDE DEF Put0
  <2> QED BY <1>9
<1> HIDE DEF q
<1>11. ASSUME NEW i \in 0..n
       PROVE  q[i] = IF i = 0 THEN z ELSE Put(q[i - 1], o[i].state)
  BY <1>10
<1> HIDE DEF z, Put, D, Put0, F
<1> DEFINE T == {i \in 0..n : /\ q[i] \in D
                             /\ \A j \in 1..i : o[j].state \in solved \cup q[i].aux}
<1>12. 0 \in T
  BY <1>1, <1>4, <1>11
<1>13. ASSUME NEW i \in 1..n, i - 1 \in T PROVE i \in T
  <2>1. q[i] = Put(q[i - 1], o[i].state) /\ q[i - 1] \in D /\ o[i].state \in States
    BY <1>1, <1>11, <1>13
  <2>2. q[i] \in D /\ o[i].state \in solved \cup q[i].aux /\ q[i - 1].aux \subseteq q[i].aux
    BY <1>5, <2>1
  <2>3. ASSUME NEW j \in 1..i PROVE o[j].state \in solved \cup q[i].aux
    <3>1. j = i \/ j \in 1..(i - 1)
      BY <1>1
    <3> QED BY <1>13, <2>2, <3>1
  <2> QED BY <1>1, <2>2, <2>3
<1>14. 0..n \subseteq T
  <2> HIDE DEF T
  <2> QED BY <1>1, <1>12, <1>13, UpTo
<1>15. q[n] \in D /\ \A j \in 1..n : o[j].state \in solved \cup q[n].aux
  BY <1>1, <1>14
<1> QED BY <1>2, <1>3, <1>15 DEF D

LEMMA StepRises ==
  ASSUME NEW b \in BOOLEAN, ClosedInv(b), [Next]_vars
  PROVE  /\ V' \in Values /\ Consistent' /\ \A s \in States : V[s] <= V'[s]
         /\ (b => KnowsDeadEnds)'
<1>1. BackedUp(V, V')
  BY StepBacksUp DEF ClosedInv
<1>2. V' \in Values /\ Consistent' /\ \A s \in States : V[s] <= V'[s]
  BY <1>1, BackedUpValues, BackedUpConsistent DEF ClosedInv, Consistent
<1>3. ASSUME b, NEW s \in States \ GoalStates, Enabled(s) = {} PROVE V'[s] = DeadEndValue
  <2>1. V[s] = DeadEndValue
    BY <1>3 DEF ClosedInv, KnowsDeadEnds
  <2> QED BY <1>2, <2>1, SspAssumption DEF Values
<1> QED BY <1>2, <1>3 DEF KnowsDeadEnds

\* Where the values a state looks at stay, its residual and its greedy action stay.
Rises == V \in Values /\ V' \in Values /\ \A s \in States : V[s] <= V'[s]

LEMMA GreedyKept ==
  ASSUME Rises, NEW s \in States, V'[s] = V[s],
         \A t \in Successors(s, BestAction(V, s)) : V[t] = V'[t]
  PROVE  Residual(s)' = Residual(s) /\ BestAction(V, s)' = BestAction(V, s)
<1>1. Best(V', s) = Best(V, s)
  BY GreedyPersists DEF Rises, BestAction
<1> QED BY <1>1 DEF Residual, BestAction, BestValue

LEMMA DeadEndKept ==
  ASSUME Rises, NEW s \in States, V[s] = DeadEndValue PROVE V'[s] = DeadEndValue
BY SspAssumption DEF Rises, Values

LEMMA SettledKept ==
  ASSUME NEW b \in BOOLEAN, Rises, solved \in SUBSET States, solved \subseteq solved',
         \A t \in solved : V'[t] = V[t],
         NEW s \in solved, SettledAs(b, s)
  PROVE  SettledAs(b, s)'
<1>1. CASE s \in GoalStates \/ V[s] = DeadEndValue \/ (~b /\ FoundDeadEnd(s))
  BY <1>1, DeadEndKept DEF SettledAs, FoundDeadEnd
<1>2. CASE /\ Residual(s) <= Epsilon /\ BestAction(V, s) # NoAction
           /\ Successors(s, BestAction(V, s)) \subseteq solved
  <2>1. Residual(s)' = Residual(s) /\ BestAction(V, s)' = BestAction(V, s)
    BY <1>2, GreedyKept
  <2>2. BestAction(V', s) = BestAction(V, s)
    BY <2>1
  <2> QED BY <1>2, <2>1, <2>2 DEF SettledAs
<1> QED BY <1>1, <1>2 DEF SettledAs

\* Labelled states stay settled if no step changes the value of one, and the states
\* that get their label are settled.
LEMMA LabelsKept ==
  ASSUME NEW b \in BOOLEAN, ClosedInv(b), Rises, solved \subseteq solved', \A t \in solved : V'[t] = V[t],
         \A s \in solved' \ solved : SettledAs(b, s)'
  PROVE  \A s \in solved' : SettledAs(b, s)'
BY SettledKept DEF ClosedInv

LEMMA InitClosed ==
  ASSUME NEW b \in BOOLEAN, Init, Consistent, b => KnowsDeadEnds PROVE ClosedInv(b)
<1>1. V \in Values
  BY SspAssumption DEF Init, Values
<1> QED BY <1>1, SspAssumption DEF Init, ClosedInv

LEMMA IdleClosed ==
  ASSUME NEW b \in BOOLEAN, ClosedInv(b), [Next]_vars, GiveUp \/ Solve \/ Answer
  PROVE  ClosedInv(b)'
<1>1. V' \in Values /\ Consistent' /\ Rises /\ (b => KnowsDeadEnds)'
  BY StepRises DEF Rises, ClosedInv
<1>2. UNCHANGED <<V, solved>>
  BY DEF GiveUp, Solve, Answer
<1>3. \A s \in solved' : SettledAs(b, s)'
  BY <1>1, <1>2, LabelsKept
<1>4. pc' \in {"idle", "trial"} /\ stack' \in Seq(States) /\ node' \in States
  <2>1. CASE GiveUp \/ Answer
    BY <2>1 DEF GiveUp, Answer, ClosedInv
  <2>2. CASE Solve
    BY <2>2, EmptySet DEF Solve, StartTrial, ClosedInv
  <2> QED BY <2>1, <2>2
<1>5. asked' \in States \ GoalStates
  <2>1. CASE GiveUp \/ Solve
    BY <2>1, SspAssumption DEF GiveUp, Solve, NewRound, ClosedInv
  <2>2. CASE Answer
    <3> DEFINE a == BestAction(V, asked)
    <3>1. \/ NewRound
          \/ a # NoAction /\ \E t \in Successors(asked, a) : t \notin GoalStates /\ asked' = t
      BY <2>2 DEF Answer
    <3>2. a # NoAction => Successors(asked, a) \in SUBSET States
      BY GreedyType, SuccessorsType DEF ClosedInv, Enabled
    <3> HIDE DEF a
    <3> QED BY <3>1, <3>2, SspAssumption DEF NewRound
  <2> QED BY <2>1, <2>2
<1> QED BY <1>1, <1>2, <1>3, <1>4, <1>5 DEF ClosedInv

LEMMA PushType ==
  ASSUME stack \in Seq(States), NEW s \in States PROVE Push(s) \in Seq(States)
<1> DEFINE before == {i \in 1..Len(stack) : stack[i] = s}
           i == CHOOSE i \in before : TRUE
           rest == IF before = {} THEN stack ELSE RemoveAt(stack, i)
<1>1. before # {} => i \in 1..Len(stack)
  OBVIOUS
<1> HIDE DEF i
<1>2. before # {} => RemoveAt(stack, i) \in Seq(States)
  <2>1. SUFFICES ASSUME i \in 1..Len(stack) PROVE RemoveAt(stack, i) \in Seq(States)
    BY <1>1
  <2>2. SubSeq(stack, 1, i - 1) \in Seq(States) /\ SubSeq(stack, i + 1, Len(stack)) \in Seq(States)
    BY <2>1
  <2> QED BY <2>2 DEF RemoveAt
<1>3. rest \in Seq(States)
  BY <1>2
<1>4. Push(s) = <<s>> \o rest
  BY DEF Push, i
<1> HIDE DEF rest
<1> QED BY <1>3, <1>4

LEMMA TrialClosed ==
  ASSUME NEW b \in BOOLEAN, ClosedInv(b), [Next]_vars,
         TrialStop \/ TrialDeadEnd \/ \E s, t \in States : TrialMove(s, t)
  PROVE  ClosedInv(b)'
<1>0. V \in Values /\ node \in States /\ solved \in SUBSET States
  BY DEF ClosedInv
<1>1. V' \in Values /\ Consistent' /\ Rises /\ (b => KnowsDeadEnds)'
  BY StepRises DEF Rises, ClosedInv
<1>2. ASSUME TrialStop PROVE ClosedInv(b)'
  <2>1. UNCHANGED <<V, asked, node, stack>> /\ pc' = "label" /\ solved' = solved \cup {node}
    BY <1>2 DEF TrialStop
  <2>2. node \in solved \/ V[node] = DeadEndValue \/ node \in GoalStates
    BY <1>2, SspAssumption DEF TrialStop, ClosedInv, Values
  <2>3. \A s \in solved' \ solved : SettledAs(b, s)'
    BY <2>1, <2>2 DEF SettledAs
  <2>4. \A s \in solved' : SettledAs(b, s)'
    BY <1>1, <2>1, <2>3, LabelsKept
  <2> QED BY <1>1, <2>1, <2>4 DEF ClosedInv
<1>3. ASSUME TrialDeadEnd PROVE ClosedInv(b)'
  <2>1. /\ UNCHANGED <<asked, node>> /\ pc' = "label" /\ solved' = solved \cup {node}
        /\ node \notin solved /\ V' = Update(V, node, DeadEndValue) /\ stack' = Push(node)
    BY <1>3 DEF TrialDeadEnd, Walking
  <2>2. V'[node] = DeadEndValue /\ \A t \in States \ {node} : V'[t] = V[t]
    <3>1. DeadEndValue \in Nat /\ Capped(DeadEndValue) = DeadEndValue
      BY SspAssumption DEF Capped
    <3> QED BY <1>0, <2>1, <3>1, UpdatedAt
  <2>3. \A s \in solved' \ solved : SettledAs(b, s)'
    BY <2>1, <2>2 DEF SettledAs
  <2>4. \A t \in solved : V'[t] = V[t]
    BY <2>1, <2>2 DEF ClosedInv
  <2>5. \A s \in solved' : SettledAs(b, s)'
    BY <1>1, <2>1, <2>3, <2>4, LabelsKept
  <2>6. stack' \in Seq(States)
    BY <2>1, PushType DEF ClosedInv
  <2> QED BY <1>1, <2>1, <2>5, <2>6 DEF ClosedInv
<1>4. ASSUME NEW s \in States, NEW t \in States, TrialMove(s, t) PROVE ClosedInv(b)'
  <2>1. /\ UNCHANGED <<asked, solved, pc>> /\ pc = "trial" /\ node' = t /\ node = s
        /\ s \notin solved /\ stack' = Push(s) /\ V' = Update(V, s, Best(V, s).value)
    BY <1>4 DEF TrialMove, Walking
  <2>2. Best(V, s).value \in Nat
    <3>1. \A u \in States : V[u] <= V[u]
      BY SspAssumption DEF ClosedInv, Values
    <3> QED BY <3>1, BestMonotone DEF ClosedInv
  <2>3. \A u \in solved : V'[u] = V[u]
    BY <1>0, <2>1, <2>2, UpdatedAt
  <2>4. \A u \in solved' : SettledAs(b, u)'
    BY <1>1, <2>1, <2>3, LabelsKept
  <2>5. stack' \in Seq(States)
    BY <2>1, PushType DEF ClosedInv
  <2> QED BY <1>1, <2>1, <2>4, <2>5 DEF ClosedInv
<1> QED BY <1>2, <1>3, <1>4

LEMMA LabelClosed ==
  ASSUME NEW b \in BOOLEAN, ClosedInv(b), [Next]_vars,
         Label \/ TrialEnd \/ CheckFails \/ BackupEnd
  PROVE  ClosedInv(b)'
<1>1. V' \in Values /\ Consistent' /\ Rises /\ (b => KnowsDeadEnds)'
  BY StepRises DEF Rises, ClosedInv
<1>2. UNCHANGED <<V, solved, asked>>
  BY DEF Label, TrialEnd, StartTrial, CheckFails, BackupEnd
<1>3. \A s \in solved' : SettledAs(b, s)'
  BY <1>1, <1>2, LabelsKept
<1>4. ASSUME Label PROVE ClosedInv(b)'
  <2>1. /\ stack # <<>> /\ stack' = Tail(stack) /\ UNCHANGED <<node, V, solved, asked>> /\ pc = "label"
    BY <1>4 DEF Label
  <2>2. Head(stack) \in States /\ stack' \in Seq(States)
    BY <2>1, HeadOf DEF ClosedInv
  <2>3. CASE Head(stack) \in solved
    <3>1. pc' = "label"
      BY <1>4, <2>3 DEF Label
    <3> QED BY <1>1, <1>3, <2>1, <2>2, <3>1 DEF ClosedInv
  <2>4. CASE Head(stack) \notin solved
    <3> DEFINE s == Head(stack)
    <3>1. pc' = "check" /\ open' = <<s>> /\ aux' = {s} /\ closed' = <<>> /\ rv' = TRUE
      BY <1>4, <2>4 DEF Label
    <3> HIDE DEF s
    <3>2. s \in States /\ s \notin solved
      BY <2>2, <2>4 DEF s
    <3>3. <<s>> \in Seq(States) /\ ToSet(<<s>>) = {s} /\ Distinct(<<s>>)
      BY <3>2, OneOf
    <3>4. closed' \in Seq(States) /\ ToSet(closed') = {}
      BY <3>1, EmptySet
    <3>5. Frontier(open, aux, ToSet(closed))'
      BY <2>1, <3>1, <3>2, <3>3, <3>4 DEF Frontier
    <3>6. DeadLabels' /\ \A x \in ToSet(closed') : Passed(b, x)'
      BY <3>4 DEF DeadLabels
    <3> QED BY <1>1, <1>3, <2>1, <2>2, <3>1, <3>4, <3>5, <3>6 DEF ClosedInv
  <2> QED BY <2>3, <2>4
<1>5. ASSUME TrialEnd PROVE ClosedInv(b)'
  <2>1. pc' \in {"idle", "trial"} /\ node' \in States /\ stack' \in Seq(States)
    BY <1>5, EmptySet DEF TrialEnd, StartTrial, ClosedInv
  <2> QED BY <1>1, <1>2, <1>3, <2>1 DEF ClosedInv
<1>6. ASSUME CheckFails PROVE ClosedInv(b)'
  <2>1. pc = "check" /\ pc' = "backup" /\ UNCHANGED <<node, stack, closed>>
    BY <1>6 DEF CheckFails, check
  <2>2. DeadLabels'
    BY <1>2, <2>1 DEF ClosedInv, DeadLabels
  <2> QED BY <1>1, <1>2, <1>3, <2>1, <2>2 DEF ClosedInv
<1>7. ASSUME BackupEnd PROVE ClosedInv(b)'
  <2>1. pc' = "label" /\ node' = node /\ stack' = <<>> /\ <<>> \in Seq(States)
    BY <1>7, EmptySet DEF BackupEnd
  <2> QED BY <1>1, <1>2, <1>3, <2>1 DEF ClosedInv
<1> QED BY <1>4, <1>5, <1>6, <1>7

\* When open is used up, what passed is labelled as a whole.
LEMMA SuccessClosed ==
  ASSUME NEW b \in BOOLEAN, ClosedInv(b), [Next]_vars, CheckSucceeds PROVE ClosedInv(b)'
<1>1. V' \in Values /\ Consistent' /\ Rises /\ (b => KnowsDeadEnds)'
  BY StepRises DEF Rises, ClosedInv
<1>2. /\ pc = "check" /\ open = <<>> /\ rv /\ solved' = solved \cup ToSet(closed) /\ pc' = "label"
      /\ UNCHANGED <<V, asked, node, stack>>
  BY DEF CheckSucceeds
<1>3. closed \in Seq(States) /\ aux = ToSet(closed) /\ \A s \in ToSet(closed) : Passed(b, s)
  BY <1>2, EmptySet DEF ClosedInv, Frontier
<1>4. solved' \in SUBSET States
  BY <1>2, <1>3, SetOf DEF ClosedInv
<1>5. ASSUME NEW s \in ToSet(closed) PROVE SettledAs(b, s)'
  <2>1. CASE s \in GoalStates \/ V[s] = DeadEndValue \/ (~b /\ FoundDeadEnd(s))
    BY <1>2, <2>1 DEF SettledAs, FoundDeadEnd
  <2>2. CASE /\ Residual(s) <= Epsilon /\ BestAction(V, s) # NoAction
             /\ Successors(s, BestAction(V, s)) \subseteq solved \cup aux
    <3>1. Residual(s)' <= Epsilon
      BY <1>2, <2>2 DEF Residual
    <3> QED BY <1>2, <1>3, <2>2, <3>1 DEF SettledAs
  <2> QED BY <1>3, <2>1, <2>2 DEF Passed
<1>6. \A s \in solved' : SettledAs(b, s)'
  BY <1>1, <1>2, <1>5, LabelsKept
<1> QED BY <1>1, <1>2, <1>4, <1>6 DEF ClosedInv

\* A backup changes no labelled entry: what is labelled and closed is a dead end, whose
\* value cannot rise.
LEMMA BackupClosed ==
  ASSUME NEW b \in BOOLEAN, ClosedInv(b), [Next]_vars, Backup PROVE ClosedInv(b)'
<1>1. V' \in Values /\ Consistent' /\ Rises /\ (b => KnowsDeadEnds)'
  BY StepRises DEF Rises, ClosedInv
<1> DEFINE s == Head(closed)
<1>2. /\ pc = "backup" /\ closed # <<>> /\ V' = Update(V, s, BestValue(V, s))
      /\ closed' = Tail(closed) /\ UNCHANGED <<solved, pc, asked, node, stack>>
  BY DEF Backup
<1> HIDE DEF s
<1>3. /\ s \in States /\ closed' \in Seq(States) /\ ToSet(closed) = {s} \cup ToSet(closed')
      /\ DeadLabels
  BY <1>2, HeadOf DEF ClosedInv, s
<1>4. V \in Values /\ solved \in SUBSET States
  BY DEF ClosedInv
<1>5. BestValue(V, s) \in Nat
  <2>1. \A u \in States : V[u] <= V[u]
    BY <1>4, SspAssumption DEF Values
  <2> QED BY <1>3, <1>4, <2>1, BestMonotone, SspAssumption
<1>6. \A t \in States \ {s} : V'[t] = V[t]
  BY <1>2, <1>3, <1>4, <1>5, UpdatedAt
<1>7. s \in solved => V[s] = DeadEndValue /\ V'[s] = DeadEndValue
  BY <1>1, <1>3, DeadEndKept DEF DeadLabels
<1>8. \A t \in solved : V'[t] = V[t]
  BY <1>4, <1>6, <1>7
<1>9. \A t \in solved' : SettledAs(b, t)'
  BY <1>1, <1>2, <1>8, LabelsKept
<1>10. DeadLabels'
  BY <1>2, <1>3, <1>8 DEF DeadLabels
<1> QED BY <1>1, <1>2, <1>3, <1>4, <1>9, <1>10 DEF ClosedInv

\* What passed so far still does when another state turns out to be a dead end: the
\* state is an outcome of the greedy action, or that action stays the greedy one.
LEMMA PassedKept ==
  ASSUME NEW b \in BOOLEAN, Rises,
         NEW d \in States, Enabled(d) = {}, b => V'[d] = V[d], \A t \in States \ {d} : V'[t] = V[t],
         solved \cup aux \subseteq solved' \cup aux',
         NEW x \in States, x # d, Passed(b, x)
  PROVE  Passed(b, x)'
<1>1. CASE x \in GoalStates \/ V[x] = DeadEndValue \/ (~b /\ FoundDeadEnd(x))
  BY <1>1 DEF Passed, FoundDeadEnd
<1>2. CASE /\ Residual(x) <= Epsilon /\ BestAction(V, x) # NoAction
           /\ Successors(x, BestAction(V, x)) \subseteq solved \cup aux
  <2> DEFINE a == BestAction(V, x)
  <2>1. a \in Enabled(x) /\ Successors(x, a) \in SUBSET States
    BY <1>2, GreedyType, SuccessorsType DEF Rises, Enabled
  <2>2. CASE ~b /\ d \in Successors(x, a)
    BY <2>1, <2>2 DEF Passed, FoundDeadEnd
  <2>3. CASE b \/ d \notin Successors(x, a)
    <3>1. Residual(x)' = Residual(x) /\ BestAction(V, x)' = BestAction(V, x)
      BY <2>1, <2>3, GreedyKept
    <3>2. BestAction(V', x) = BestAction(V, x)
      BY <3>1
    <3> QED BY <1>2, <3>1, <3>2 DEF Passed
  <2> QED BY <2>2, <2>3
<1> QED BY <1>1, <1>2 DEF Passed

LEMMA CheckClosed ==
  ASSUME NEW b \in BOOLEAN, ClosedInv(b), [Next]_vars, CheckNode PROVE ClosedInv(b)'
<1>1. V' \in Values /\ Consistent' /\ Rises /\ (b => KnowsDeadEnds)'
  BY StepRises DEF Rises, ClosedInv
<1>0. PICK s, done : s = Head(open) /\ done = {s} \cup ToSet(closed)
  OBVIOUS
<1>2. /\ pc = "check" /\ open # <<>> /\ closed' = <<s>> \o closed
      /\ UNCHANGED <<pc, asked, node, stack>>
  BY <1>0 DEF CheckNode
<1>3. /\ V \in Values /\ solved \in SUBSET States /\ Frontier(open, aux, ToSet(closed))
      /\ closed \in Seq(States) /\ DeadLabels /\ rv \in BOOLEAN
      /\ rv => \A x \in ToSet(closed) : Passed(b, x)
  BY <1>2 DEF ClosedInv
<1>4. /\ s \in States /\ s \notin solved \cup ToSet(closed)
      /\ ToSet(closed) \in SUBSET States
      /\ closed' \in Seq(States) /\ ToSet(closed') = done
  <2>1. s \in States /\ s \in ToSet(open)
    BY <1>0, <1>2, <1>3, HeadOf DEF Frontier
  <2>2. closed' \in Seq(States) /\ ToSet(closed') = {s} \cup ToSet(closed)
    BY <1>2, <1>3, <2>1, FrontOf
  <2> QED BY <1>0, <1>3, <2>1, <2>2, SetOf DEF Frontier
<1>5. Frontier(Tail(open), aux, done) /\ s \notin ToSet(Tail(open))
  <2>1. /\ Tail(open) \in Seq(States) /\ ToSet(open) = {s} \cup ToSet(Tail(open))
        /\ Distinct(Tail(open)) /\ s \notin ToSet(Tail(open))
    BY <1>0, <1>2, <1>3, HeadOf DEF Frontier
  <2> QED BY <1>0, <1>3, <2>1 DEF Frontier
<1>6. ASSUME Best(V, s).action = NoAction, V' = Update(V, s, DeadEndValue),
             solved' = solved \cup {s}, open' = Tail(open), aux' = aux, rv' = rv
      PROVE  ClosedInv(b)'
  <2>1. Enabled(s) = {}
    BY <1>3, <1>4, <1>6, NoActionMeansNone DEF BestAction
  <2>2. V'[s] = DeadEndValue /\ \A t \in States \ {s} : V'[t] = V[t]
    <3>1. DeadEndValue \in Nat /\ Capped(DeadEndValue) = DeadEndValue
      BY SspAssumption DEF Capped
    <3> QED BY <1>3, <1>4, <1>6, <3>1, UpdatedAt
  <2>3. \A t \in solved : V'[t] = V[t]
    BY <1>3, <1>4, <2>2
  <2>4. \A t \in solved' \ solved : SettledAs(b, t)'
    BY <1>6, <2>2 DEF SettledAs
  <2>5. \A t \in solved' : SettledAs(b, t)'
    BY <1>1, <1>6, <2>3, <2>4, LabelsKept
  <2>6. Frontier(open, aux, ToSet(closed))'
    BY <1>0, <1>4, <1>5, <1>6 DEF Frontier
  <2>7. DeadLabels'
    BY <1>0, <1>3, <1>4, <1>6, <2>2, <2>3 DEF DeadLabels
  <2>12. s \notin GoalStates
    BY <2>1, GoalAssumption
  <2>8. ASSUME rv, NEW x \in ToSet(closed) PROVE Passed(b, x)'
    <3>1. x \in States /\ x # s /\ Passed(b, x)
      BY <1>3, <1>4, <2>8
    <3>2. solved \cup aux \subseteq solved' \cup aux'
      BY <1>6
    <3>3. b => V'[s] = V[s]
      BY <1>1, <1>4, <2>1, <2>2, <2>12 DEF KnowsDeadEnds, ClosedInv
    <3> QED BY <1>1, <1>4, <2>1, <2>2, <3>1, <3>2, <3>3, PassedKept
  <2>9. Passed(b, s)'
    BY <2>2 DEF Passed
  <2>10. solved' \in SUBSET States /\ \A x \in ToSet(closed') : rv' => Passed(b, x)'
    BY <1>0, <1>3, <1>4, <1>6, <2>8, <2>9
  <2>11. node \in States /\ asked \in States \ GoalStates /\ stack \in Seq(States)
    BY DEF ClosedInv
  <2> QED BY <1>1, <1>2, <1>3, <1>4, <1>6, <2>5, <2>6, <2>7, <2>10, <2>11 DEF ClosedInv
<1>7. ASSUME UNCHANGED <<V, solved>>, rv' \in BOOLEAN, Frontier(open', aux', done),
             rv' => \A x \in done : Passed(b, x)'
      PROVE  ClosedInv(b)'
  <2>1. \A t \in solved' : SettledAs(b, t)'
    BY <1>1, <1>7, LabelsKept
  <2>2. DeadLabels'
    BY <1>0, <1>3, <1>4, <1>7 DEF DeadLabels
  <2>3. Frontier(open, aux, ToSet(closed))'
    BY <1>4, <1>7 DEF Frontier
  <2>4. node \in States /\ asked \in States \ GoalStates /\ stack \in Seq(States)
    BY DEF ClosedInv
  <2> QED BY <1>1, <1>2, <1>3, <1>4, <1>7, <2>1, <2>2, <2>3, <2>4 DEF ClosedInv
<1>8. ASSUME rv' = FALSE, open' = Tail(open), UNCHANGED <<V, solved, aux>>
      PROVE  ClosedInv(b)'
  <2>1. Frontier(open', aux', done)
    BY <1>5, <1>8
  <2> QED BY <1>7, <1>8, <2>1
<1>9. ASSUME Best(V, s).action # NoAction, Distance(Capped(Best(V, s).value), V[s]) <= Epsilon,
             open' = Expanded(s, Best(V, s).action).open,
             aux' = Expanded(s, Best(V, s).action).aux, UNCHANGED <<V, solved, rv>>
      PROVE  ClosedInv(b)'
  <2> DEFINE a == Best(V, s).action
  <2>1. a = BestAction(V, s) /\ Residual(s) <= Epsilon /\ a # NoAction
    BY <1>9 DEF BestAction, Residual, BestValue
  <2>2. a \in Enabled(s)
    BY <1>3, <1>4, <2>1, GreedyType
  <2> HIDE DEF a
  <2>3. /\ Frontier(open', aux', done) /\ aux \subseteq aux'
        /\ Successors(s, a) \subseteq solved \cup aux'
    <3>1. done \in SUBSET States
      BY <1>0, <1>4
    <3>2. /\ Frontier(Expanded(s, a).open, Expanded(s, a).aux, done)
          /\ aux \subseteq Expanded(s, a).aux
          /\ Successors(s, a) \subseteq solved \cup Expanded(s, a).aux
      BY <1>3, <1>4, <1>5, <2>2, <3>1, ExpandedCovers
    <3> QED BY <1>9, <3>2 DEF a
  <2>4. ASSUME rv, NEW x \in ToSet(closed) PROVE Passed(b, x)'
    <3>1. Passed(b, x)
      BY <1>3, <2>4
    <3> QED BY <1>9, <2>3, <3>1 DEF Passed, Residual, FoundDeadEnd
  <2>5. Passed(b, s)'
    BY <1>9, <2>1, <2>3 DEF Passed, Residual
  <2>6. rv' \in BOOLEAN /\ (rv' => \A x \in done : Passed(b, x)')
    BY <1>0, <1>3, <1>9, <2>4, <2>5
  <2> QED BY <1>7, <1>9, <2>3, <2>6
<1>10. \/ /\ Best(V, s).action = NoAction /\ V' = Update(V, s, DeadEndValue)
          /\ solved' = solved \cup {s} /\ open' = Tail(open) /\ aux' = aux /\ rv' = rv
       \/ rv' = FALSE /\ open' = Tail(open) /\ UNCHANGED <<V, solved, aux>>
       \/ /\ Best(V, s).action # NoAction /\ Distance(Capped(Best(V, s).value), V[s]) <= Epsilon
          /\ open' = Expanded(s, Best(V, s).action).open
          /\ aux' = Expanded(s, Best(V, s).action).aux /\ UNCHANGED <<V, solved, rv>>
  BY <1>0 DEF CheckNode
<1> QED BY <1>6, <1>8, <1>9, <1>10

LEMMA StepClosed == ASSUME NEW b \in BOOLEAN, ClosedInv(b), [Next]_vars PROVE ClosedInv(b)'
<1>1. CASE UNCHANGED vars
  <2>1. /\ UNCHANGED <<V, solved, node, asked, stack, pc>>
        /\ UNCHANGED <<open, closed, aux, rv>>
    BY <1>1 DEF vars, check
  <2>2. V' \in Values /\ Consistent' /\ Rises /\ (b => KnowsDeadEnds)'
    BY StepRises DEF Rises, ClosedInv
  <2>3. \A s \in solved' : SettledAs(b, s)'
    BY <2>1, <2>2, LabelsKept
  <2>4. Frontier(open, aux, ToSet(closed))' = Frontier(open, aux, ToSet(closed))
    BY <2>1 DEF Frontier
  <2>5. DeadLabels' = DeadLabels /\ \A s \in ToSet(closed) : Passed(b, s)' = Passed(b, s)
    BY <2>1 DEF DeadLabels, Passed, Residual, FoundDeadEnd
  <2> QED BY <2>1, <2>2, <2>3, <2>4, <2>5 DEF ClosedInv
<1> QED
  BY <1>1, IdleClosed, TrialClosed, LabelClosed, SuccessClosed, BackupClosed, CheckClosed
     DEF Next, Compute

\* From a consistent heuristic, at every moment of every round: a labelled state is a
\* goal, a dead end (or next to one no action leaves), or its residual is at most
\* epsilon and all that its greedy action leads to is labelled as well.
THEOREM LabelsAreClosed == Spec => SolvedIsClosed
<1>1. Init /\ Consistent => ClosedInv(FALSE)
  BY InitClosed
<1>2. ClosedInv(FALSE) /\ [Next]_vars => ClosedInv(FALSE)'
  BY StepClosed
<1>3. ClosedInv(FALSE) => \A s \in solved : Settled(s)
  BY DEF ClosedInv, SettledAs, Settled
<1> QED BY <1>1, <1>2, <1>3, PTL DEF Spec, SolvedIsClosed

-----------------------------------------------------------------------------
(* Answers.  With all dead ends known no exception is left, and what is     *)
(* labelled is fixed and closed under its greedy actions: the values there  *)
(* are both a lower bound of the optimal costs and reached by a policy.     *)

LEMMA SolvedOptimal ==
  ASSUME ClosedInv(TRUE), Below(V), Epsilon = 0, NEW s \in solved
  PROVE  V[s] = VStar[s]
<1>1. V \in Values /\ solved \in SUBSET States /\ \A t \in States : V[t] <= VStar[t]
  BY DEF ClosedInv, Below
<1>2. ASSUME NEW t \in solved, Residual(t) <= Epsilon PROVE V[t] = BestValue(V, t)
  <2>1. \A u \in States : V[u] <= V[u]
    BY <1>1, SspAssumption DEF Values
  <2>2. BestValue(V, t) \in 0..DeadEndValue /\ V[t] \in 0..DeadEndValue /\ DeadEndValue \in Nat
    BY <1>1, <2>1, BestMonotone, SspAssumption DEF Values
  <2> QED BY <1>2, <2>2 DEF Residual, Distance
<1>3. \A t \in solved : \/ t \in GoalStates \/ V[t] = DeadEndValue
                        \/ /\ V[t] = BestValue(V, t) /\ BestAction(V, t) # NoAction
                           /\ Successors(t, BestAction(V, t)) \subseteq solved
  BY <1>2 DEF ClosedInv, SettledAs
<1> QED BY <1>1, <1>3, OptimalWhenClosed

LEMMA AnswerOptimal ==
  ASSUME ClosedInv(TRUE), Below(V), Epsilon = 0
  PROVE  IF V[asked] = DeadEndValue THEN VStar[asked] = DeadEndValue
         ELSE asked \in solved => V[asked] = VStar[asked] /\ Optimal(asked, BestAction(V, asked))
<1>1. /\ asked \in States \ GoalStates /\ solved \in SUBSET States /\ V \in Values /\ VStar \in Values
      /\ V[asked] <= VStar[asked]
  BY OptimalCosts DEF ClosedInv, Below
<1>2. CASE V[asked] = DeadEndValue
  BY <1>1, <1>2, SspAssumption DEF Values
<1>3. CASE V[asked] # DeadEndValue /\ asked \in solved
  <2>1. PICK a : a = BestAction(V, asked)
    OBVIOUS
  <2>2. /\ Residual(asked) <= Epsilon /\ a # NoAction
        /\ Successors(asked, a) \subseteq solved
    BY <1>1, <1>3, <2>1 DEF ClosedInv, SettledAs
  <2>3. a \in Enabled(asked)
    BY <1>1, <2>1, <2>2, GreedyType
  <2>4. \A s \in solved : V[s] = VStar[s]
    BY SolvedOptimal
  <2>5. QValue(VStar, asked, a) = QValue(V, asked, a)
    BY <1>1, <2>2, <2>3, <2>4, QValueAlike
  <2>6. Best(V, asked).value = QValue(V, asked, a)
    BY <1>1, <2>1, <2>3, BestIsLeast DEF BestAction
  <2>7. BestValue(V, asked) = V[asked]
    <3>1. \A u \in States : V[u] <= V[u]
      BY <1>1, SspAssumption DEF Values
    <3>2. BestValue(V, asked) \in 0..DeadEndValue /\ V[asked] \in 0..DeadEndValue
      BY <1>1, <3>1, BestMonotone DEF Values
    <3> QED BY <2>2, <3>2, SspAssumption DEF Residual, Distance
  <2> QED BY <1>3, <2>1, <2>2, <2>4, <2>5, <2>6, <2>7 DEF Optimal, BestValue
<1> QED BY <1>2, <1>3

\* From a consistent heuristic that knows the dead ends, with epsilon 0, in every round
\* of a session: the action sent is an optimal one, chosen by the optimal costs, and the
\* planner gives up only where the optimal cost is the dead-end value.
THEOREM AnswersOptimal == Spec => AnswersAreOptimal
<1>1. Init /\ Consistent /\ KnowsDeadEnds => ClosedInv(TRUE)
  BY InitClosed
<1>2. ClosedInv(TRUE) /\ [Next]_vars => ClosedInv(TRUE)'
  BY StepClosed
<1> DEFINE Good == IF V[asked] = DeadEndValue THEN VStar[asked] = DeadEndValue
                   ELSE asked \in solved => V[asked] = VStar[asked] /\ Optimal(asked, BestAction(V, asked))
<1>3. ASSUME Epsilon = 0 PROVE ClosedInv(TRUE) /\ Below(V) => (pc = "idle" => Good)
  BY <1>3, AnswerOptimal
<1>4. CASE Epsilon = 0
  <2>1. ClosedInv(TRUE) /\ Below(V) => (pc = "idle" => Good)
    BY <1>3, <1>4
  <2> QED BY <1>1, <1>2, <2>1, BelowInvariant, PTL DEF Spec, AnswersAreOptimal
<1>5. CASE Epsilon # 0
  <2>1. ~(Consistent /\ KnowsDeadEnds /\ Epsilon = 0)
    BY <1>5
  <2> QED BY <2>1, PTL DEF AnswersAreOptimal
<1> QED BY <1>4, <1>5
=============================================================================

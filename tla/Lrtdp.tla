------------------------------- MODULE Lrtdp --------------------------------
(***************************************************************************)
(* The lrtdp planner of mini-gpt (lrtdp_t of algorithms.h and              *)
(* algorithms.cc, under planner_t::dead_end and XMLClient_t's loop): a     *)
(* state the simulator sends is answered with the greedy action once its   *)
(* hash entry is labelled SOLVED, and until then trials are run from it.   *)
(* A trial walks down sampled outcomes of greedy actions and backs values  *)
(* up; the entries on its way are then checked in reverse, and a check     *)
(* that meets no residual above epsilon labels all it visited.             *)
(*                                                                         *)
(* Every entry holds its heuristic value until it is first updated, so the *)
(* hash table is the function V and inserting an entry changes nothing.    *)
(***************************************************************************)
EXTENDS Ssp

VARIABLES
  V,        \* hashEntry_t::value_ of every state
  solved,   \* states whose entry has the bit SOLVED
  pc,       \* "idle", "trial", "label", "check" or "backup"
  asked,    \* the state the simulator has sent
  node,     \* the entry trial or checkSolved works on
  stack,    \* Stack of trial, the last entry first; of an entry that was pushed
            \* again only the last push is kept, since the earlier ones are popped
            \* after it was labelled, or not at all
  open, closed, aux, rv   \* locals of checkSolved

vars == <<V, solved, pc, asked, node, stack, open, closed, aux, rv>>
check == <<open, closed, aux, rv>>

-----------------------------------------------------------------------------
(* lrtdp_t::trial *)

StartTrial ==
  /\ pc' = "trial"
  /\ node' = asked
  /\ stack' = <<>>

\* A labelled entry, a dead end or a goal ends the walk and is labelled.
TrialStop ==
  /\ pc = "trial"
  /\ node \in solved \/ V[node] >= DeadEndValue \/ node \in GoalStates
  /\ solved' = solved \cup {node}
  /\ pc' = "label"
  /\ UNCHANGED <<V, asked, node, stack, check>>

Walking == pc = "trial" /\ node \notin solved \cup GoalStates /\ V[node] < DeadEndValue

Push(s) ==
  LET before == {i \in 1..Len(stack) : stack[i] = s}
  IN  <<s>> \o (IF before = {} THEN stack ELSE RemoveAt(stack, CHOOSE i \in before : TRUE))

\* No action is enabled: the entry gets the dead-end value.
TrialDeadEnd ==
  /\ Walking
  /\ BestAction(V, node) = NoAction
  /\ stack' = Push(node)
  /\ V' = Update(V, node, DeadEndValue)
  /\ solved' = solved \cup {node}
  /\ pc' = "label"
  /\ UNCHANGED <<asked, node, check>>

\* Mutant: the entry is replaced by its outcome's before it is updated.
TrialMoveUpdatesNext(s, t) ==
  /\ Walking
  /\ node = s
  /\ LET best == Best(V, s) IN
     /\ best.action # NoAction
     /\ t \in Successors(s, best.action)
     /\ V' = Update(V, t, best.value)
  /\ stack' = Push(s)
  /\ node' = t
  /\ UNCHANGED <<pc, asked, solved, check>>

\* The greedy action is applied and the walk goes on in an outcome of it.
TrialMove(s, t) ==
  /\ Walking
  /\ node = s
  /\ LET best == Best(V, s) IN
     /\ best.action # NoAction
     /\ t \in Successors(s, best.action)
     /\ V' = Update(V, s, best.value)
  /\ stack' = Push(s)
  /\ node' = t
  /\ UNCHANGED <<pc, asked, solved, check>>

\* The entry on top of the stack is checked unless it has its label by now.
Label ==
  /\ pc = "label"
  /\ stack # <<>>
  /\ stack' = Tail(stack)
  /\ IF Head(stack) \in solved
       THEN UNCHANGED <<pc, check>>
       ELSE /\ pc' = "check"
            /\ open' = <<Head(stack)>>
            /\ aux' = {Head(stack)}
            /\ closed' = <<>>
            /\ rv' = TRUE
  /\ UNCHANGED <<V, solved, asked, node>>

\* lrtdp_t::solve: trials are run until the entry asked for is labelled.
TrialEnd ==
  /\ pc = "label"
  /\ stack = <<>>
  /\ IF asked \in solved THEN pc' = "idle" /\ UNCHANGED <<node, stack>> ELSE StartTrial
  /\ UNCHANGED <<V, solved, asked, check>>

-----------------------------------------------------------------------------
(* lrtdp_t::checkSolved *)

\* Outcomes not yet labelled or met are put in front of open, one by one.
Expanded(s, a) ==
  LET o == Outcomes[<<s, a>>]
      q[i \in 0..Len(o)] ==
        IF i = 0 THEN [open |-> Tail(open), aux |-> aux]
        ELSE IF o[i].state \in solved \cup q[i - 1].aux THEN q[i - 1]
        ELSE [open |-> <<o[i].state>> \o q[i - 1].open, aux |-> q[i - 1].aux \cup {o[i].state}]
  IN  q[Len(o)]

Distance(x, y) == IF x < y THEN y - x ELSE x - y
Residual(s) == Distance(BestValue(V, s), V[s])

\* Mutant: a residual does not stop the labelling.
CheckNodeKeepsVerdict ==
  /\ pc = "check"
  /\ open # <<>>
  /\ LET s == Head(open)
         best == Best(V, s)
         q == Expanded(s, best.action)
     IN
     /\ closed' = <<s>> \o closed
     /\ \/ /\ best.action = NoAction
           /\ V' = Update(V, s, DeadEndValue)
           /\ solved' = solved \cup {s}
           /\ open' = Tail(open) /\ aux' = aux
        \/ /\ best.action # NoAction
           /\ IF Distance(Capped(best.value), V[s]) > Epsilon
                THEN open' = Tail(open) /\ aux' = aux
                ELSE open' = q.open /\ aux' = q.aux
           /\ UNCHANGED <<V, solved>>
  /\ UNCHANGED <<pc, asked, node, stack, rv>>

CheckNode ==
  /\ pc = "check"
  /\ open # <<>>
  /\ LET s == Head(open)
         best == Best(V, s)
     IN
     /\ closed' = <<s>> \o closed
     /\ \/ /\ best.action = NoAction
           /\ V' = Update(V, s, DeadEndValue)
           /\ solved' = solved \cup {s}
           /\ open' = Tail(open)
           /\ UNCHANGED <<aux, rv>>
        \/ /\ best.action # NoAction
           /\ Distance(Capped(best.value), V[s]) > Epsilon
           /\ rv' = FALSE
           /\ open' = Tail(open)
           /\ UNCHANGED <<V, solved, aux>>
        \/ /\ best.action # NoAction
           /\ Distance(Capped(best.value), V[s]) <= Epsilon
           /\ LET q == Expanded(s, best.action) IN open' = q.open /\ aux' = q.aux
           /\ UNCHANGED <<V, solved, rv>>
  /\ UNCHANGED <<pc, asked, node, stack>>

\* Mutant: the verdict is not looked at.
CheckSucceedsAlways ==
  /\ pc = "check"
  /\ open = <<>>
  /\ solved' = solved \cup ToSet(closed)
  /\ closed' = <<>>
  /\ pc' = "label"
  /\ UNCHANGED <<V, asked, node, stack, open, aux, rv>>

\* Mutant: the entries that passed the check are not labelled.
CheckSucceedsUnlabelled ==
  /\ pc = "check"
  /\ open = <<>> /\ rv
  /\ closed' = <<>>
  /\ pc' = "label"
  /\ UNCHANGED <<V, solved, asked, node, stack, open, aux, rv>>

\* All of closed is labelled, and the next entry of the stack is tried.
CheckSucceeds ==
  /\ pc = "check"
  /\ open = <<>> /\ rv
  /\ solved' = solved \cup ToSet(closed)
  /\ closed' = <<>>
  /\ pc' = "label"
  /\ UNCHANGED <<V, asked, node, stack, open, aux, rv>>

CheckFails ==
  /\ pc = "check"
  /\ open = <<>> /\ ~rv
  /\ pc' = "backup"
  /\ UNCHANGED <<V, solved, asked, node, stack, check>>

\* Mutant: the value written is not the one of the entry it is written to.
BackupStale ==
  /\ pc = "backup"
  /\ closed # <<>>
  /\ V' = Update(V, Head(closed), BestValue(V, node))
  /\ closed' = Tail(closed)
  /\ UNCHANGED <<solved, pc, asked, node, stack, open, aux, rv>>

\* The visited entries are backed up, the last first.
Backup ==
  /\ pc = "backup"
  /\ closed # <<>>
  /\ V' = Update(V, Head(closed), BestValue(V, Head(closed)))
  /\ closed' = Tail(closed)
  /\ UNCHANGED <<solved, pc, asked, node, stack, open, aux, rv>>

\* After a failed check the rest of the stack is given up.
BackupEnd ==
  /\ pc = "backup"
  /\ closed = <<>>
  /\ stack' = <<>>
  /\ pc' = "label"
  /\ UNCHANGED <<V, solved, asked, node, check>>

-----------------------------------------------------------------------------
(* The client's loop around the planner. *)

NewRound == asked' \in InitStates

\* planner_t::dead_end: the client sends <done/> and the round is over.
GiveUp ==
  /\ pc = "idle"
  /\ V[asked] = DeadEndValue
  /\ NewRound
  /\ UNCHANGED <<V, solved, pc, node, stack, check>>

\* lrtdp_t::next has to solve the state first.
Solve ==
  /\ pc = "idle"
  /\ V[asked] # DeadEndValue
  /\ asked \notin solved
  /\ StartTrial
  /\ UNCHANGED <<V, solved, asked, check>>

\* The greedy action is sent and the simulator draws an outcome; the hash table
\* stays for the rounds to come.
Answer ==
  /\ pc = "idle"
  /\ V[asked] # DeadEndValue
  /\ asked \in solved
  /\ LET a == BestAction(V, asked) IN
       IF a = NoAction THEN NewRound
       ELSE \E t \in Successors(asked, a) :
              IF t \in GoalStates THEN NewRound ELSE asked' = t
  /\ UNCHANGED <<V, solved, pc, node, stack, check>>

Init ==
  /\ V \in Heuristics
  /\ solved = {}
  /\ pc = "idle"
  /\ asked \in InitStates
  /\ node = asked
  /\ stack = <<>> /\ open = <<>> /\ closed = <<>> /\ aux = {} /\ rv = TRUE

Compute ==
  \/ TrialStop \/ TrialDeadEnd
  \/ \E s, t \in States : TrialMove(s, t)
  \/ Label \/ TrialEnd
  \/ CheckNode \/ CheckSucceeds \/ CheckFails \/ Backup \/ BackupEnd

Next == GiveUp \/ Solve \/ Answer \/ Compute

\* The planner computes on; an outcome that is drawn from again and again comes up
\* again and again (affect samples with lrand48).
Draws == {p \in States \X States :
            \E a \in Actions : p[2] \in Successors(p[1], a)
                               /\ Successors(p[1], a) # {p[2]}}
Fairness ==
  /\ WF_vars(Compute)
  /\ \A p \in Draws : SF_vars(TrialMove(p[1], p[2]))

Spec == Init /\ [][Next]_vars /\ Fairness
=============================================================================

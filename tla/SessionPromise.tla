--------------------------- MODULE SessionPromise ---------------------------
(***************************************************************************)
(* What a session promises to the planner that takes part in it, with the  *)
(* connection, the messages and the clock left out: the planner sees the   *)
(* rounds end one after another, never more than RoundLimit of them, and a *)
(* report arrives only after the last of them and counts exactly the       *)
(* rounds the planner saw end in a goal state.  The planner may be left    *)
(* without a report, and then sees nothing more.                           *)
(***************************************************************************)
EXTENDS Naturals

CONSTANT RoundLimit  \* rounds of a session (Problem_CFG::round_limit)

VARIABLES
  ended,     \* rounds the planner has seen end
  goals,     \* how many of them ended in a goal state
  report,    \* <<>>, or <<successes, failures>> as the report counts them
  deserted   \* the planner has left without a report

vars == <<ended, goals, report, deserted>>

Init ==
  /\ ended = 0
  /\ goals = 0
  /\ report = <<>>
  /\ deserted = FALSE

Open == report = <<>> /\ ~deserted

EndRound ==
  /\ Open
  /\ ended < RoundLimit
  /\ ended' = ended + 1
  /\ goals' \in {goals, goals + 1}
  /\ UNCHANGED <<report, deserted>>

Report ==
  /\ Open
  /\ ended = RoundLimit
  /\ report' = <<goals, RoundLimit - goals>>
  /\ UNCHANGED <<ended, goals, deserted>>

Desert ==
  /\ Open
  /\ deserted' = TRUE
  /\ UNCHANGED <<ended, goals, report>>

Next == EndRound \/ Report \/ Desert

Spec == Init /\ [][Next]_vars
=============================================================================

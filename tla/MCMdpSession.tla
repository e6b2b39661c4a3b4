---------------------------- MODULE MCMdpSession ----------------------------
(***************************************************************************)
(* A three-state problem for MdpSession: s0 -> s1 -> goal, where "step"    *)
(* may also stay where it is, and the goal may be reached from s1 only.    *)
(***************************************************************************)
EXTENDS MdpSession

MCStates  == {"s0", "s1", "g"}
MCInit    == {"s0", "g"}
MCGoal    == {"g"}
MCActions == {"step", "jump"}
MCEnabled == [a \in MCActions |-> IF a = "step" THEN {"s0", "s1"} ELSE {"s1"}]
MCSucc    == [p \in MCStates \X MCActions |->
                IF p[2] = "jump" THEN {"g"}
                ELSE IF p[1] = "s0" THEN {"s0", "s1"} ELSE {"s1"}]
\* A planner that may answer anything, an unknown action included.
MCAny     == [s \in MCStates |-> MCActions \cup {"done", "unknown"}]
MCGarbage == {0, 3}
=============================================================================

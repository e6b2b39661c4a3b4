----------------------------- MODULE MdpSession -----------------------------
(***************************************************************************)
(* One connection between the simulator's server thread (host_problem of   *)
(* mdpsim/mdpserver.cc) and an XML client (XMLClient_t of                  *)
(* mini-gpt/client.cc, XMLClient of mdpsim/client.cc).  The two exchange   *)
(* XML elements over TCP; an element is one tagged record here.  The       *)
(* server runs a session of RoundLimit rounds: in each it starts the       *)
(* simulation afresh and offers states until the goal, the turn limit, the *)
(* session's time limit, a refused action or <done/> ends the round.       *)
(*                                                                         *)
(* The connection is modelled as the code sees it: a read of an empty      *)
(* connection blocks until the peer closes; a write to a closed peer       *)
(* succeeds once and is answered by a reset; a write after the reset       *)
(* raises SIGPIPE, which no part of mdpsim handles, so it ends the process.*)
(***************************************************************************)
EXTENDS Integers, Sequences

CONSTANTS
  States,         \* states of the simulated problem
  InitStates,     \* states State(problem) may start in
  GoalStates,     \* states in which the goal formula holds
  Actions,        \* ground actions of the problem
  Enabled,        \* action |-> the states whose precondition holds
  Succ,           \* <<state, action>> |-> the states next() may sample
  Decisions,      \* state |-> what decideAction may answer
  Done,           \* the answer for which the client sends <done/>
  RoundLimit, TurnLimit, TimeLimit,   \* the Problem_CFG of the session
  NumProblems,    \* sessions the client's main runs over one connection
  MayCrash,       \* whether the client process may be killed
  MaxElapsed,     \* bound on the session clock
  Garbage         \* values an uninitialised int may hold

ASSUME ConstantsAssumption ==
  /\ InitStates \subseteq States /\ GoalStates \subseteq States
  /\ InitStates # {}
  /\ Enabled \in [Actions -> SUBSET States]
  /\ Succ \in [States \X Actions -> SUBSET States]
  /\ \A a \in Actions : \A s \in Enabled[a] : Succ[<<s, a>>] # {}
  /\ DOMAIN Decisions = States
  /\ \A s \in States : Decisions[s] # {}
  /\ RoundLimit \in Nat \ {0} /\ TurnLimit \in Nat /\ TimeLimit \in Nat
  /\ NumProblems \in Nat \ {0}
  /\ MayCrash \in BOOLEAN
  /\ MaxElapsed \in Nat
  /\ Garbage \subseteq Int /\ Garbage # {}

VARIABLES
  sPc,         \* where host_problem stands
  round, turn, running, simState,   \* its locals of the same names; s
  timeLeft,    \* time_left of the round
  roundStart,  \* session clock when round_timer was constructed
  success,     \* success_count
  totalTime,   \* total_time, over the rounds that reached the goal
  totalTurns,  \* total_turns, declared without an initial value
  elapsed,     \* session_timer
  cPc,         \* where the client stands
  roundsLeft,  \* rounds_left
  roundsSeen,  \* end-round elements read in this session
  goalsSeen,   \* how many of them held <goal-reached/>
  turnsSeen,   \* total_steps: turns of those rounds
  report,      \* the end-session element read, or NoReport
  problems,    \* sessions the client still has to run
  abandoned,   \* the client left the session before its end
  toServer, toClient,   \* elements written and not yet read
  closed,      \* the client's end of the connection is closed
  reset        \* the server's end has been told so by a reset

server == <<sPc, round, turn, running, simState, timeLeft, roundStart, success,
            totalTime, totalTurns>>
client == <<cPc, roundsLeft, roundsSeen, goalsSeen, turnsSeen, report, problems,
            abandoned>>
wire   == <<toServer, toClient, closed, reset>>
vars   == <<server, client, wire, elapsed>>

NoReport == [tag |-> "none"]

Goal(s) == s \in GoalStates
Smaller(a, b) == IF a < b THEN a ELSE b
Larger(a, b)  == IF a < b THEN b ELSE a

-----------------------------------------------------------------------------
(* The server's side of the connection. *)

Arrived(tag) == toServer # <<>> /\ Head(toServer).tag = tag
TakeRequest  == toServer' = Tail(toServer)

\* read_node returns 0: nothing is left and the client's end is closed, or the
\* reset made read() fail.
HangUp == closed /\ (toServer = <<>> \/ reset)

\* write(): the element is queued, or lost with the peer and answered by a reset;
\* once the reset is there the signal may end the whole process.
WriteThen(m, pc) ==
  \/ /\ sPc' = pc
     /\ toClient' = IF closed THEN toClient ELSE Append(toClient, m)
     /\ reset' = (reset \/ closed)
  \/ /\ reset
     /\ sPc' = "killed"
     /\ UNCHANGED <<toClient, reset>>

SessionInit == [tag |-> "session-init", rounds |-> RoundLimit]
RoundInit   == [tag |-> "round-init"]
StateOf(s)  == [tag |-> "state", state |-> s]
Error       == [tag |-> "error"]
EndRound    == [tag |-> "end-round", goal |-> Goal(simState), turns |-> turn - 1]
EndSession  == [tag |-> "end-session", successes |-> success,
                failed |-> RoundLimit - success, turns |-> totalTurns]

-----------------------------------------------------------------------------
(* host_problem *)

\* The session-request is read and its problem is known: session-init is sent
\* and session_timer starts.
ServerAccept ==
  /\ sPc = "session-request"
  /\ Arrived("session-request") /\ Head(toServer).known
  /\ TakeRequest
  /\ WriteThen(SessionInit, "round-request")
  /\ totalTurns' \in Garbage
  /\ UNCHANGED <<round, turn, running, simState, timeLeft, roundStart, success,
                 totalTime, client, closed, elapsed>>

\* Problem::find fails: the server answers with an error and leaves the session.
ServerRefuse ==
  /\ sPc = "session-request"
  /\ Arrived("session-request") /\ ~Head(toServer).known
  /\ TakeRequest
  /\ WriteThen(Error, "returned")
  /\ UNCHANGED <<round, turn, running, simState, timeLeft, roundStart, success,
                 totalTime, totalTurns, client, closed, elapsed>>

\* Mutant: the time left is not cut off at zero.
TimeLeftUncut == TimeLimit - elapsed
TimeLeft == Larger(0, TimeLimit - elapsed)

\* A round-request is answered with the time that is left of the session.
ServerRoundInit ==
  /\ sPc = "round-request"
  /\ Arrived("round-request")
  /\ TakeRequest
  /\ timeLeft' = TimeLeft
  /\ WriteThen(RoundInit, "start-round")
  /\ UNCHANGED <<round, turn, running, simState, roundStart, success, totalTime,
                 totalTurns, client, closed, elapsed>>

\* The initial state is drawn and round_timer starts.
ServerStartRound ==
  /\ sPc = "start-round"
  /\ simState' \in InitStates
  /\ running' = (timeLeft > 0)
  /\ turn' = 1
  /\ roundStart' = elapsed
  /\ sPc' = "turns"
  /\ UNCHANGED <<round, timeLeft, success, totalTime, totalTurns, client, wire,
                 elapsed>>

RoundGoesOn == running /\ turn <= TurnLimit /\ ~Goal(simState)

ServerSendState ==
  /\ sPc = "turns"
  /\ RoundGoesOn
  /\ WriteThen(StateOf(simState), "action")
  /\ UNCHANGED <<round, turn, running, simState, timeLeft, roundStart, success,
                 totalTime, totalTurns, client, toServer, closed, elapsed>>

ServerDone ==
  /\ sPc = "action"
  /\ Arrived("done")
  /\ TakeRequest
  /\ running' = FALSE
  /\ sPc' = "turns"
  /\ UNCHANGED <<round, turn, simState, timeLeft, roundStart, success, totalTime,
                 totalTurns, client, toClient, closed, reset, elapsed>>

Legal(a) == a \in Actions /\ simState \in Enabled[a]

\* An enabled action is applied unless the session's time is up.
ServerAct ==
  /\ sPc = "action"
  /\ Arrived("act")
  /\ Legal(Head(toServer).action)
  /\ TakeRequest
  /\ IF TimeLimit <= elapsed
       THEN /\ running' = FALSE
            /\ UNCHANGED <<simState, turn>>
       ELSE /\ simState' \in Succ[<<simState, Head(toServer).action>>]
            /\ turn' = turn + 1
            /\ UNCHANGED running
  /\ sPc' = "turns"
  /\ UNCHANGED <<round, timeLeft, roundStart, success, totalTime, totalTurns, client,
                 toClient, closed, reset, elapsed>>

\* "bad action" or "disabled action": an error is sent and the round is over.
ServerRejectAction ==
  /\ sPc = "action"
  /\ Arrived("act")
  /\ ~Legal(Head(toServer).action)
  /\ TakeRequest
  /\ WriteThen(Error, "turns")
  /\ running' = FALSE
  /\ UNCHANGED <<round, turn, simState, timeLeft, roundStart, success, totalTime,
                 totalTurns, client, closed, elapsed>>

\* Mutant: the time of a round is not cut off at what was left of the session.
TimeSpentUncut == elapsed - roundStart
TimeSpent == Larger(0, Smaller(timeLeft, elapsed - roundStart))

\* Mutant: a goal reached with the last allowed turn does not count.
SuccessfulInTime == Goal(simState) /\ turn <= TurnLimit
Successful == Goal(simState)

\* The round's result is counted and sent; the loop's condition is tested again.
ServerEndRound ==
  /\ sPc = "turns"
  /\ ~RoundGoesOn
  /\ IF Successful
       THEN /\ totalTime' = totalTime + TimeSpent
            /\ totalTurns' = totalTurns + (turn - 1)
            /\ success' = success + 1
       ELSE UNCHANGED <<totalTime, totalTurns, success>>
  /\ WriteThen(EndRound, IF round < RoundLimit THEN "round-request" ELSE "end-session")
  /\ round' = round + 1
  /\ UNCHANGED <<turn, running, simState, timeLeft, roundStart, client, toServer,
                 closed, elapsed>>

\* Mutant: the report is written again and again.
ServerEndSessionRepeats ==
  /\ sPc = "end-session"
  /\ WriteThen(EndSession, "end-session")
  /\ UNCHANGED <<round, turn, running, simState, timeLeft, roundStart, success,
                 totalTime, totalTurns, client, toServer, closed, elapsed>>

ServerEndSession ==
  /\ sPc = "end-session"
  /\ WriteThen(EndSession, "returned")
  /\ UNCHANGED <<round, turn, running, simState, timeLeft, roundStart, success,
                 totalTime, totalTurns, client, toServer, closed, elapsed>>

\* read_node fails, or an element comes that the server does not expect there: it
\* returns, and leaves its end of the connection open.
Expected == CASE sPc = "session-request" -> {"session-request"}
              [] sPc = "round-request"   -> {"round-request"}
              [] sPc = "action"          -> {"act", "done"}
              [] OTHER                   -> {}

ServerReturn ==
  /\ sPc \in {"session-request", "round-request", "action"}
  /\ \/ HangUp /\ UNCHANGED toServer
     \/ toServer # <<>> /\ Head(toServer).tag \notin Expected /\ TakeRequest
  /\ sPc' = "returned"
  /\ UNCHANGED <<round, turn, running, simState, timeLeft, roundStart, success,
                 totalTime, totalTurns, client, toClient, closed, reset, elapsed>>

ServerStep ==
  \/ ServerAccept \/ ServerRefuse \/ ServerRoundInit \/ ServerStartRound
  \/ ServerSendState \/ ServerDone \/ ServerAct \/ ServerRejectAction
  \/ ServerEndRound \/ ServerEndSession \/ ServerReturn

-----------------------------------------------------------------------------
(* XMLClient *)

Replied(tags) == toClient # <<>> /\ Head(toClient).tag \in tags
Reply         == Head(toClient)
TakeReply     == toClient' = Tail(toClient) /\ UNCHANGED <<closed, reset>>
SendServer(m) == toServer' = Append(toServer, m)

\* The constructor of the client begins: it asks for one of its problems, which
\* the server may or may not have been given.
ClientRequest ==
  /\ cPc = "start"
  /\ \E known \in BOOLEAN : SendServer([tag |-> "session-request", known |-> known])
  /\ cPc' = "await-init"
  /\ roundsSeen' = 0 /\ goalsSeen' = 0 /\ turnsSeen' = 0
  /\ report' = NoReport /\ abandoned' = FALSE
  /\ UNCHANGED <<roundsLeft, problems, server, toClient, closed, reset, elapsed>>

ClientInit ==
  /\ cPc = "await-init"
  /\ Replied({"session-init"})
  /\ roundsLeft' = Reply.rounds
  /\ cPc' = "next-round"
  /\ TakeReply
  /\ UNCHANGED <<roundsSeen, goalsSeen, turnsSeen, report, problems, abandoned,
                 server, toServer, elapsed>>

ClientRoundRequest ==
  /\ cPc = "next-round"
  /\ roundsLeft > 0
  /\ roundsLeft' = roundsLeft - 1
  /\ SendServer([tag |-> "round-request"])
  /\ cPc' = "await-round"
  /\ UNCHANGED <<roundsSeen, goalsSeen, turnsSeen, report, problems, abandoned,
                 server, toClient, closed, reset, elapsed>>

ClientRoundInit ==
  /\ cPc = "await-round"
  /\ Replied({"round-init"})
  /\ cPc' = "await-response"
  /\ TakeReply
  /\ UNCHANGED <<roundsLeft, roundsSeen, goalsSeen, turnsSeen, report, problems,
                 abandoned, server, toServer, elapsed>>

\* A state is answered with the planner's action, or with <done/> when the planner
\* has none or knows the state for a dead end.  The state the planner looked at
\* travels with the action.
Answer(s, d) == IF d = Done THEN [tag |-> "done"]
                            ELSE [tag |-> "act", action |-> d, seen |-> s]

\* Mutant: the state just answered is taken for the next one.
ClientDecideAgain ==
  /\ cPc = "await-response"
  /\ Replied({"state"})
  /\ \E d \in Decisions[Reply.state] : SendServer(Answer(Reply.state, d))
  /\ UNCHANGED <<client, server, toClient, closed, reset, elapsed>>

ClientDecide ==
  /\ cPc = "await-response"
  /\ Replied({"state"})
  /\ \E d \in Decisions[Reply.state] : SendServer(Answer(Reply.state, d))
  /\ TakeReply
  /\ UNCHANGED <<client, server, elapsed>>

\* end-round: turns are added up over the rounds that reached the goal.
ClientEndRound ==
  /\ cPc = "await-response"
  /\ Replied({"end-round"})
  /\ roundsSeen' = roundsSeen + 1
  /\ IF Reply.goal
       THEN goalsSeen' = goalsSeen + 1 /\ turnsSeen' = turnsSeen + Reply.turns
       ELSE UNCHANGED <<goalsSeen, turnsSeen>>
  /\ cPc' = IF roundsLeft > 0 THEN "next-round" ELSE "await-end"
  /\ TakeReply
  /\ UNCHANGED <<roundsLeft, report, problems, abandoned, server, toServer, elapsed>>

\* The constructor returns: the client's main goes on to its next problem over the
\* same connection, or exits, which closes the connection.  Closing with elements
\* still unread resets the connection at once.
Leave(unread) ==
  /\ problems' = problems - 1
  /\ IF problems > 1
       THEN cPc' = "start" /\ toClient' = unread /\ UNCHANGED <<closed, reset>>
       ELSE /\ cPc' = "exit"
            /\ closed' = TRUE
            /\ reset' = (reset \/ unread # <<>>)
            /\ toClient' = <<>>

ClientEndSession ==
  /\ cPc = "await-end"
  /\ Replied({"end-session"})
  /\ report' = Reply
  /\ Leave(Tail(toClient))
  /\ UNCHANGED <<roundsLeft, roundsSeen, goalsSeen, turnsSeen, abandoned, server,
                 toServer, elapsed>>

\* Any element the client does not expect where it stands ends the session for it.
Understood == CASE cPc = "await-init"     -> {"session-init"}
                [] cPc = "await-round"    -> {"round-init"}
                [] cPc = "await-response" -> {"state", "end-round"}
                [] OTHER                  -> {}

\* Mutant: an unexpected element is skipped.
ClientAbandonNot ==
  /\ cPc \in {"await-init", "await-round", "await-response"}
  /\ toClient # <<>> /\ Reply.tag \notin Understood
  /\ TakeReply
  /\ UNCHANGED <<client, server, toServer, elapsed>>

ClientAbandon ==
  /\ cPc \in {"await-init", "await-round", "await-response"}
  /\ toClient # <<>> /\ Reply.tag \notin Understood
  /\ abandoned' = TRUE
  /\ Leave(Tail(toClient))
  /\ UNCHANGED <<roundsLeft, roundsSeen, goalsSeen, turnsSeen, report, server,
                 toServer, elapsed>>

ClientStep ==
  \/ ClientRequest \/ ClientInit \/ ClientRoundRequest \/ ClientRoundInit
  \/ ClientDecide \/ ClientEndRound \/ ClientEndSession \/ ClientAbandon

\* The client process is killed and the kernel closes its end.
ClientCrash ==
  /\ MayCrash
  /\ cPc # "exit"
  /\ cPc' = "exit"
  /\ abandoned' = TRUE
  /\ problems' = 0
  /\ closed' = TRUE
  /\ reset' = (reset \/ toClient # <<>>)
  /\ toClient' = <<>>
  /\ UNCHANGED <<roundsLeft, roundsSeen, goalsSeen, turnsSeen, report, server,
                 toServer, elapsed>>

-----------------------------------------------------------------------------

Tick ==
  /\ sPc \notin {"session-request", "returned", "killed"}
  /\ elapsed < MaxElapsed
  /\ elapsed' = elapsed + 1
  /\ UNCHANGED <<server, client, wire>>

\* Both sides have left the session: nothing more happens on this connection.
Finished ==
  /\ cPc = "exit" /\ sPc \in {"returned", "killed"}
  /\ UNCHANGED vars

Init ==
  /\ sPc = "session-request"
  /\ round = 1 /\ turn = 1 /\ running = FALSE
  /\ simState \in InitStates
  /\ timeLeft = 0 /\ roundStart = 0
  /\ success = 0 /\ totalTime = 0 /\ totalTurns = 0
  /\ elapsed = 0
  /\ cPc = "start"
  /\ roundsLeft = 0 /\ roundsSeen = 0 /\ goalsSeen = 0 /\ turnsSeen = 0
  /\ report = NoReport
  /\ problems = NumProblems
  /\ abandoned = FALSE
  /\ toServer = <<>> /\ toClient = <<>>
  /\ closed = FALSE /\ reset = FALSE

Next == ServerStep \/ ClientStep \/ ClientCrash \/ Tick \/ Finished

\* Each process runs on whenever it can: the thread is scheduled, and decideAction
\* returns.  Nothing is assumed of the clock or of crashes.
Fairness == WF_vars(ServerStep) /\ WF_vars(ClientStep)

Spec == Init /\ [][Next]_vars /\ Fairness

-----------------------------------------------------------------------------
(* Properties *)

Requests ==
  [tag : {"session-request"}, known : BOOLEAN] \cup [tag : {"round-request", "done"}]
    \cup [tag : {"act"}, action : UNION {Decisions[s] : s \in States}, seen : States]
Replies ==
  [tag : {"session-init"}, rounds : {RoundLimit}] \cup [tag : {"round-init", "error"}]
    \cup [tag : {"state"}, state : States]
    \cup [tag : {"end-round"}, goal : BOOLEAN, turns : Nat]
Reports == [tag : {"end-session"}, successes : Nat, failed : Int, turns : Int]

ServerTypeOK ==
  /\ sPc \in {"session-request", "round-request", "start-round", "turns", "action",
              "end-session", "returned", "killed"}
  /\ round \in 1..(RoundLimit + 1) /\ turn \in 1..(TurnLimit + 1)
  /\ running \in BOOLEAN /\ simState \in States
  /\ timeLeft \in 0..TimeLimit /\ roundStart \in 0..MaxElapsed
  /\ elapsed \in 0..MaxElapsed
  /\ success \in Nat /\ totalTime \in Nat /\ totalTurns \in Int
ClientTypeOK ==
  /\ cPc \in {"start", "await-init", "next-round", "await-round", "await-response",
              "await-end", "exit"}
  /\ roundsLeft \in Nat /\ roundsSeen \in Nat /\ goalsSeen \in Nat
  /\ turnsSeen \in Int
  /\ report \in Reports \cup {NoReport}
  /\ problems \in 0..NumProblems
  /\ abandoned \in BOOLEAN
WireTypeOK ==
  /\ toServer \in Seq(Requests) /\ toClient \in Seq(Replies \cup Reports)
  /\ closed \in BOOLEAN /\ reset \in BOOLEAN
TypeOK == ServerTypeOK /\ ClientTypeOK /\ WireTypeOK

\* An action the server is about to apply was chosen for the state the simulation
\* is in: no answer is ever carried over to another turn, round or state.
ActOnCurrentState ==
  sPc = "action" /\ Arrived("act") => Head(toServer).seen = simState

\* The time reported for the successful rounds together never exceeds the time
\* limit of the session, although each round's time is measured by its own timer
\* and the session may run past its limit.
TotalTimeWithinLimit == totalTime <= TimeLimit

\* Only a client that deserts a session (it quits over an <error> or is killed) can
\* take the server process down; one that reads to the end-session never does.
KilledOnlyByDeserter == sPc = "killed" => closed /\ abandoned

\* Both processes come to the end of the session, whatever the planner answers and
\* whether or not the client survives: nobody is left waiting for the other.
SessionEnds == <>(cPc = "exit" /\ sPc \in {"returned", "killed"})

\* What the client observes is what a session promises: rounds end one after
\* another and the final report agrees with them.
Promise == INSTANCE SessionPromise WITH
  ended    <- roundsSeen,
  goals    <- goalsSeen,
  report   <- IF report = NoReport THEN <<>>
              ELSE <<report.successes, report.failed>>,
  deserted <- abandoned
KeepsPromise == Promise!Spec
=============================================================================

-------------------------- MODULE MdpSession_proof --------------------------
(***************************************************************************)
(* Proofs about MdpSession, for every problem, planner and set of limits.  *)
(***************************************************************************)
EXTENDS MdpSession, SequenceTheorems, TLAPS

Elements == Replies \cup Reports

\* Where the server stands bounds its counters: a round is open only while there are
\* rounds left, an action is awaited only while there are turns left.
Located ==
  /\ sPc \in {"session-request", "round-request", "start-round", "turns", "action"}
       => round <= RoundLimit
  /\ sPc = "action" => turn <= TurnLimit

\* A client that has not exited still has a problem to run.
Employed == cPc # "exit" => problems > 0

IInv == TypeOK /\ Located /\ Employed

\* Taking an element off a channel leaves a channel of such elements.
LEMMA HeadAndTail ==
  ASSUME NEW S, NEW q \in Seq(S), q # <<>>
  PROVE  Head(q) \in S /\ Tail(q) \in Seq(S)
  BY HeadTailProperties

LEMMA AppendType ==
  ASSUME NEW S, NEW q \in Seq(S), NEW e \in S
  PROVE  Append(q, e) \in Seq(S)
  BY AppendProperties

\* A write leaves the server where the write was to lead it, or dead.
LEMMA WriteKeepsChannels ==
  ASSUME TypeOK, NEW m \in Elements, NEW pc, WriteThen(m, pc)
  PROVE  /\ sPc' \in {pc, "killed"}
         /\ toClient' \in Seq(Elements)
         /\ reset' \in BOOLEAN
  BY AppendType DEF TypeOK, WireTypeOK, WriteThen, Elements

LEMMA InitIInv == ASSUME Init PROVE IInv
<1>a. RoundLimit \in Nat \ {0} /\ TurnLimit \in Nat /\ TimeLimit \in Nat
  BY ConstantsAssumption
<1>b. NumProblems \in Nat \ {0} /\ MaxElapsed \in Nat
  BY ConstantsAssumption
<1>c. InitStates \subseteq States
  BY ConstantsAssumption
<1>1. ServerTypeOK
  <2>1. round \in 1..(RoundLimit + 1) /\ turn \in 1..(TurnLimit + 1)
    BY <1>a DEF Init
  <2>2. timeLeft \in 0..TimeLimit /\ roundStart \in 0..MaxElapsed /\ elapsed \in 0..MaxElapsed
    BY <1>a, <1>b DEF Init
  <2>3. simState \in States /\ running \in BOOLEAN /\ sPc = "session-request"
    BY <1>c DEF Init
  <2>4. success \in Nat /\ totalTime \in Nat /\ totalTurns \in Int
    BY DEF Init
  <2> QED BY <2>1, <2>2, <2>3, <2>4 DEF ServerTypeOK
<1>2. ClientTypeOK
  <2>1. problems \in 0..NumProblems
    BY <1>b DEF Init
  <2>2. report \in Reports \cup {NoReport}
    BY DEF Init
  <2>3. cPc = "start" /\ abandoned \in BOOLEAN /\ roundsLeft = 0 /\ roundsSeen = 0 /\ goalsSeen = 0 /\ turnsSeen = 0
    BY DEF Init
  <2> QED BY <2>1, <2>2, <2>3 DEF ClientTypeOK
<1>3. WireTypeOK
  <2>1. \A S : <<>> \in Seq(S)
    OBVIOUS
  <2>. QED BY <2>1 DEF Init, WireTypeOK
<1>4. Located
  BY <1>a DEF Init, Located
<1>5. Employed
  BY <1>b DEF Init, Employed
<1> QED BY <1>1, <1>2, <1>3, <1>4, <1>5 DEF IInv, TypeOK

-----------------------------------------------------------------------------
(* What the elements are, and what a step leaves alone. *)

LEMMA ElementTypes ==
  ASSUME IInv
  PROVE  /\ SessionInit \in Elements /\ RoundInit \in Elements /\ Error \in Elements
         /\ StateOf(simState) \in Elements
         /\ EndRound \in Elements /\ EndSession \in Elements
<1>1. SessionInit \in Elements
  BY DEF SessionInit, Elements, Replies
<1>2. RoundInit \in Elements /\ Error \in Elements
  BY DEF RoundInit, Error, Elements, Replies
<1>3. StateOf(simState) \in Elements
  BY DEF IInv, TypeOK, ServerTypeOK, StateOf, Elements, Replies
<1>4. EndRound \in Elements
  <2>1. turn - 1 \in Nat /\ Goal(simState) \in BOOLEAN
    BY ConstantsAssumption DEF IInv, TypeOK, ServerTypeOK, Goal
  <2> QED BY <2>1 DEF EndRound, Elements, Replies
<1>5. EndSession \in Elements
  <2>1. success \in Nat /\ RoundLimit - success \in Int /\ totalTurns \in Int
    BY ConstantsAssumption DEF IInv, TypeOK, ServerTypeOK
  <2> QED BY <2>1 DEF EndSession, Elements, Reports
<1> QED BY <1>1, <1>2, <1>3, <1>4, <1>5

LEMMA ServerIdle ==
  ASSUME IInv, UNCHANGED <<server, elapsed>>
  PROVE  ServerTypeOK' /\ Located'
  BY DEF IInv, TypeOK, ServerTypeOK, Located, server

LEMMA ClientIdle ==
  ASSUME IInv, UNCHANGED client
  PROVE  ClientTypeOK' /\ Employed'
  BY DEF IInv, TypeOK, ClientTypeOK, Employed, client

\* Reading a request leaves a channel of requests.
LEMMA TakeRequestType ==
  ASSUME IInv, toServer # <<>>
  PROVE  Head(toServer) \in Requests /\ Tail(toServer) \in Seq(Requests)
  BY HeadAndTail DEF IInv, TypeOK, WireTypeOK

LEMMA TakeReplyType ==
  ASSUME IInv, toClient # <<>>
  PROVE  Head(toClient) \in Elements /\ Tail(toClient) \in Seq(Elements)
  BY HeadAndTail DEF IInv, TypeOK, WireTypeOK, Elements

-----------------------------------------------------------------------------
(* Every action keeps the invariant. *)

LEMMA ServerStepIInv ==
  ASSUME IInv, ServerStep
  PROVE  IInv'
<1>a. RoundLimit \in Nat \ {0} /\ TurnLimit \in Nat /\ TimeLimit \in Nat /\ MaxElapsed \in Nat
  BY ConstantsAssumption
<1>b. ServerTypeOK /\ Located /\ WireTypeOK
  BY DEF IInv, TypeOK
<1>c. UNCHANGED <<client, closed, elapsed>>
  BY DEF ServerStep, ServerAccept, ServerRefuse, ServerRoundInit, ServerStartRound,
         ServerSendState, ServerDone, ServerAct, ServerRejectAction, ServerEndRound,
         ServerEndSession, ServerReturn, wire
<1>d. ClientTypeOK' /\ Employed'
  BY <1>c, ClientIdle
<1> USE <1>a, <1>b, <1>c
<1> SUFFICES ServerTypeOK' /\ Located' /\ WireTypeOK'
  BY <1>d DEF IInv, TypeOK
<1>1. CASE ServerAccept
  <2>1. sPc' \in {"round-request", "killed"} /\ toClient' \in Seq(Elements) /\ reset' \in BOOLEAN
    BY <1>1, ElementTypes, WriteKeepsChannels DEF ServerAccept, IInv
  <2>2. toServer' \in Seq(Requests)
    BY <1>1, TakeRequestType DEF ServerAccept, Arrived, TakeRequest
  <2>3. totalTurns' \in Int
    BY <1>1, ConstantsAssumption DEF ServerAccept
  <2>4. ServerTypeOK' /\ Located'
    BY <1>1, <2>1, <2>3 DEF ServerAccept, ServerTypeOK, Located
  <2> QED BY <2>1, <2>2, <2>4 DEF WireTypeOK, Elements
<1>2. CASE ServerRefuse
  <2>1. sPc' \in {"returned", "killed"} /\ toClient' \in Seq(Elements) /\ reset' \in BOOLEAN
    BY <1>2, ElementTypes, WriteKeepsChannels DEF ServerRefuse, IInv
  <2>2. toServer' \in Seq(Requests)
    BY <1>2, TakeRequestType DEF ServerRefuse, Arrived, TakeRequest
  <2>3. ServerTypeOK' /\ Located'
    BY <1>2, <2>1 DEF ServerRefuse, ServerTypeOK, Located
  <2> QED BY <2>1, <2>2, <2>3 DEF WireTypeOK, Elements
<1>3. CASE ServerRoundInit
  <2>1. sPc' \in {"start-round", "killed"} /\ toClient' \in Seq(Elements) /\ reset' \in BOOLEAN
    BY <1>3, ElementTypes, WriteKeepsChannels DEF ServerRoundInit, IInv
  <2>2. toServer' \in Seq(Requests)
    BY <1>3, TakeRequestType DEF ServerRoundInit, Arrived, TakeRequest
  <2>3. timeLeft' \in 0..TimeLimit
    BY <1>3 DEF ServerRoundInit, TimeLeft, Larger, ServerTypeOK
  <2>4. ServerTypeOK' /\ Located'
    BY <1>3, <2>1, <2>3 DEF ServerRoundInit, ServerTypeOK, Located
  <2> QED BY <2>1, <2>2, <2>4 DEF WireTypeOK, Elements
<1>4. CASE ServerStartRound
  <2>1. simState' \in States
    BY <1>4, ConstantsAssumption DEF ServerStartRound
  <2>2. ServerTypeOK' /\ Located'
    BY <1>4, <2>1 DEF ServerStartRound, ServerTypeOK, Located
  <2> QED BY <1>4, <2>2 DEF ServerStartRound, WireTypeOK, wire
<1>5. CASE ServerSendState
  <2>1. sPc' \in {"action", "killed"} /\ toClient' \in Seq(Elements) /\ reset' \in BOOLEAN
    BY <1>5, ElementTypes, WriteKeepsChannels DEF ServerSendState, IInv
  <2>2. ServerTypeOK' /\ Located'
    BY <1>5, <2>1 DEF ServerSendState, RoundGoesOn, ServerTypeOK, Located
  <2> QED BY <1>5, <2>1, <2>2 DEF ServerSendState, WireTypeOK, Elements
<1>6. CASE ServerDone
  <2>1. toServer' \in Seq(Requests)
    BY <1>6, TakeRequestType DEF ServerDone, Arrived, TakeRequest
  <2>2. ServerTypeOK' /\ Located'
    BY <1>6 DEF ServerDone, ServerTypeOK, Located
  <2> QED BY <1>6, <2>1, <2>2 DEF ServerDone, WireTypeOK
<1>7. CASE ServerAct
  <2>1. toServer' \in Seq(Requests)
    BY <1>7, TakeRequestType DEF ServerAct, Arrived, TakeRequest
  <2>2. simState' \in States /\ turn' \in 1..(TurnLimit + 1) /\ running' \in BOOLEAN
    <3>1. CASE TimeLimit <= elapsed
      BY <1>7, <3>1 DEF ServerAct, ServerTypeOK
    <3>2. CASE ~(TimeLimit <= elapsed)
      <4>1. Head(toServer).action \in Actions
        BY <1>7 DEF ServerAct, Legal
      <4>2. Succ[<<simState, Head(toServer).action>>] \subseteq States
        BY <4>1, ConstantsAssumption DEF ServerTypeOK
      <4>3. turn <= TurnLimit
        BY <1>7 DEF ServerAct, Located
      <4> QED BY <1>7, <3>2, <4>2, <4>3 DEF ServerAct, ServerTypeOK
    <3> QED BY <3>1, <3>2
  <2>3. ServerTypeOK' /\ Located'
    BY <1>7, <2>2 DEF ServerAct, ServerTypeOK, Located
  <2> QED BY <1>7, <2>1, <2>3 DEF ServerAct, WireTypeOK
<1>8. CASE ServerRejectAction
  <2>1. sPc' \in {"turns", "killed"} /\ toClient' \in Seq(Elements) /\ reset' \in BOOLEAN
    BY <1>8, ElementTypes, WriteKeepsChannels DEF ServerRejectAction, IInv
  <2>2. toServer' \in Seq(Requests)
    BY <1>8, TakeRequestType DEF ServerRejectAction, Arrived, TakeRequest
  <2>3. ServerTypeOK' /\ Located'
    BY <1>8, <2>1 DEF ServerRejectAction, ServerTypeOK, Located
  <2> QED BY <2>1, <2>2, <2>3 DEF WireTypeOK, Elements
<1>9. CASE ServerEndRound
  <2>1. /\ sPc' \in {IF round < RoundLimit THEN "round-request" ELSE "end-session", "killed"}
        /\ toClient' \in Seq(Elements) /\ reset' \in BOOLEAN
    BY <1>9, ElementTypes, WriteKeepsChannels DEF ServerEndRound, IInv
  <2>2. totalTime' \in Nat /\ totalTurns' \in Int /\ success' \in Nat
    BY <1>9 DEF ServerEndRound, TimeSpent, Larger, Smaller, ServerTypeOK
  <2>3. round <= RoundLimit /\ round' = round + 1
    BY <1>9 DEF ServerEndRound, Located
  <2>4. ServerTypeOK' /\ Located'
    BY <1>9, <2>1, <2>2, <2>3 DEF ServerEndRound, ServerTypeOK, Located
  <2> QED BY <1>9, <2>1, <2>4 DEF ServerEndRound, WireTypeOK, Elements
<1>10. CASE ServerEndSession
  <2>1. sPc' \in {"returned", "killed"} /\ toClient' \in Seq(Elements) /\ reset' \in BOOLEAN
    BY <1>10, ElementTypes, WriteKeepsChannels DEF ServerEndSession, IInv
  <2>2. ServerTypeOK' /\ Located'
    BY <1>10, <2>1 DEF ServerEndSession, ServerTypeOK, Located
  <2> QED BY <1>10, <2>1, <2>2 DEF ServerEndSession, WireTypeOK, Elements
<1>11. CASE ServerReturn
  <2>1. toServer' \in Seq(Requests)
    BY <1>11, TakeRequestType DEF ServerReturn, TakeRequest, WireTypeOK
  <2>2. ServerTypeOK' /\ Located'
    BY <1>11 DEF ServerReturn, ServerTypeOK, Located
  <2> QED BY <1>11, <2>1, <2>2 DEF ServerReturn, WireTypeOK
<1> QED
  BY <1>1, <1>2, <1>3, <1>4, <1>5, <1>6, <1>7, <1>8, <1>9, <1>10, <1>11 DEF ServerStep

\* Leaving a session keeps what the client shares well typed.
LEMMA LeaveType ==
  ASSUME IInv, NEW unread \in Seq(Elements), cPc # "exit", Leave(unread)
  PROVE  /\ cPc' \in {"start", "exit"}
         /\ problems' \in 0..NumProblems /\ Employed'
         /\ toClient' \in Seq(Elements) /\ closed' \in BOOLEAN /\ reset' \in BOOLEAN
<1>a. NumProblems \in Nat \ {0}
  BY ConstantsAssumption
<1>b. ClientTypeOK /\ WireTypeOK /\ problems > 0
  BY DEF IInv, TypeOK, Employed
<1>1. CASE problems > 1
  BY <1>1, <1>a, <1>b DEF Leave, ClientTypeOK, WireTypeOK, Employed
<1>2. CASE ~(problems > 1)
  BY <1>2, <1>a, <1>b DEF Leave, ClientTypeOK, WireTypeOK, Employed
<1> QED BY <1>1, <1>2

LEMMA RequestTypes ==
  /\ \A known \in BOOLEAN : [tag |-> "session-request", known |-> known] \in Requests
  /\ [tag |-> "round-request"] \in Requests
  /\ \A s \in States : \A d \in Decisions[s] : Answer(s, d) \in Requests
<1>1. \A known \in BOOLEAN : [tag |-> "session-request", known |-> known] \in Requests
  BY DEF Requests
<1>2. [tag |-> "round-request"] \in Requests
  BY DEF Requests
<1>3. ASSUME NEW s \in States, NEW d \in Decisions[s]
      PROVE  Answer(s, d) \in Requests
  <2>1. d \in UNION {Decisions[t] : t \in States}
    OBVIOUS
  <2>2. [tag |-> "act", action |-> d, seen |-> s] \in Requests
    BY <2>1 DEF Requests
  <2>3. [tag |-> "done"] \in Requests
    BY DEF Requests
  <2> QED BY <2>2, <2>3 DEF Answer
<1> QED BY <1>1, <1>2, <1>3

\* What an element read by the client holds.
LEMMA ReplyContents ==
  ASSUME IInv, toClient # <<>>
  PROVE  /\ Reply.tag = "session-init" => Reply.rounds = RoundLimit
         /\ Reply.tag = "state" => Reply.state \in States
         /\ Reply.tag = "end-round" => Reply.turns \in Nat
         /\ Reply.tag = "end-session" => Reply \in Reports
  BY TakeReplyType DEF Elements, Replies, Reports, Reply

LEMMA ClientStepIInv ==
  ASSUME IInv, ClientStep
  PROVE  IInv'
<1>a. RoundLimit \in Nat \ {0} /\ NumProblems \in Nat \ {0}
  BY ConstantsAssumption
<1>b. ClientTypeOK /\ WireTypeOK /\ Employed
  BY DEF IInv, TypeOK
<1>c. UNCHANGED <<server, elapsed>>
  BY DEF ClientStep, ClientRequest, ClientInit, ClientRoundRequest, ClientRoundInit,
         ClientDecide, ClientEndRound, ClientEndSession, ClientAbandon
<1>d. ServerTypeOK' /\ Located'
  BY <1>c, ServerIdle
<1> USE <1>a, <1>b
<1> SUFFICES ClientTypeOK' /\ WireTypeOK' /\ Employed'
  BY <1>d DEF IInv, TypeOK
<1>1. CASE ClientRequest
  <2>1. toServer' \in Seq(Requests)
    BY <1>1, RequestTypes, AppendType DEF ClientRequest, SendServer, WireTypeOK
  <2>2. abandoned' \in BOOLEAN /\ report' \in Reports \cup {NoReport}
    BY <1>1 DEF ClientRequest
  <2>3. ClientTypeOK' /\ Employed'
    BY <1>1, <2>2 DEF ClientRequest, ClientTypeOK, Employed
  <2> QED BY <1>1, <2>1, <2>3 DEF ClientRequest, WireTypeOK
<1>2. CASE ClientInit
  <2>1. roundsLeft' \in Nat
    BY <1>2, ReplyContents DEF ClientInit, Replied, Reply
  <2>2. ClientTypeOK' /\ Employed'
    BY <1>2, <2>1 DEF ClientInit, ClientTypeOK, Employed
  <2> QED BY <1>2, <2>2, TakeReplyType DEF ClientInit, Replied, TakeReply, WireTypeOK, Elements
<1>3. CASE ClientRoundRequest
  <2>1. toServer' \in Seq(Requests)
    BY <1>3, RequestTypes, AppendType DEF ClientRoundRequest, SendServer, WireTypeOK
  <2>2. ClientTypeOK' /\ Employed'
    BY <1>3 DEF ClientRoundRequest, ClientTypeOK, Employed
  <2> QED BY <1>3, <2>1, <2>2 DEF ClientRoundRequest, WireTypeOK
<1>4. CASE ClientRoundInit
  <2>1. ClientTypeOK' /\ Employed'
    BY <1>4 DEF ClientRoundInit, ClientTypeOK, Employed
  <2> QED BY <1>4, <2>1, TakeReplyType
          DEF ClientRoundInit, Replied, TakeReply, WireTypeOK, Elements
<1>5. CASE ClientDecide
  <2>1. Reply.state \in States
    BY <1>5, ReplyContents DEF ClientDecide, Replied, Reply
  <2>2. toServer' \in Seq(Requests)
    BY <1>5, <2>1, RequestTypes, AppendType DEF ClientDecide, SendServer, WireTypeOK
  <2>3. ClientTypeOK' /\ Employed'
    BY <1>5, ClientIdle DEF ClientDecide
  <2> QED BY <1>5, <2>2, <2>3, TakeReplyType
          DEF ClientDecide, Replied, TakeReply, WireTypeOK, Elements
<1>6. CASE ClientEndRound
  <2>1. Reply.turns \in Nat
    BY <1>6, ReplyContents DEF ClientEndRound, Replied, Reply
  <2>2. ClientTypeOK' /\ Employed'
    BY <1>6, <2>1 DEF ClientEndRound, ClientTypeOK, Employed
  <2> QED BY <1>6, <2>2, TakeReplyType
          DEF ClientEndRound, Replied, TakeReply, WireTypeOK, Elements
<1>7. CASE ClientEndSession
  <2>1. report' \in Reports
    BY <1>7, ReplyContents DEF ClientEndSession, Replied, Reply
  <2>2. Tail(toClient) \in Seq(Elements) /\ Leave(Tail(toClient)) /\ cPc # "exit"
    BY <1>7, TakeReplyType DEF ClientEndSession, Replied
  <2> QED BY <1>7, <2>1, <2>2, LeaveType
          DEF ClientEndSession, ClientTypeOK, WireTypeOK, Elements
<1>8. CASE ClientAbandon
  <2>1. Tail(toClient) \in Seq(Elements) /\ Leave(Tail(toClient)) /\ cPc # "exit"
    BY <1>8, TakeReplyType DEF ClientAbandon
  <2> QED BY <1>8, <2>1, LeaveType
          DEF ClientAbandon, ClientTypeOK, WireTypeOK, Elements
<1> QED BY <1>1, <1>2, <1>3, <1>4, <1>5, <1>6, <1>7, <1>8 DEF ClientStep

LEMMA NextIInv == ASSUME IInv, [Next]_vars PROVE IInv'
<1>1. CASE ServerStep
  BY <1>1, ServerStepIInv
<1>2. CASE ClientStep
  BY <1>2, ClientStepIInv
<1>3. CASE ClientCrash
  <2>1. ServerTypeOK' /\ Located'
    BY <1>3, ServerIdle DEF ClientCrash
  <2>2. ClientTypeOK' /\ Employed'
    BY <1>3, ConstantsAssumption DEF ClientCrash, IInv, TypeOK, ClientTypeOK, Employed
  <2>3. WireTypeOK'
    <3>1. toClient' \in Seq(Elements)
      BY <1>3 DEF ClientCrash
    <3> QED BY <1>3, <3>1 DEF ClientCrash, IInv, TypeOK, WireTypeOK, Elements
  <2> QED BY <2>1, <2>2, <2>3 DEF IInv, TypeOK
<1>4. CASE Tick
  <2>1. ServerTypeOK' /\ Located'
    BY <1>4, ConstantsAssumption DEF Tick, IInv, TypeOK, ServerTypeOK, Located, server
  <2>2. ClientTypeOK' /\ Employed'
    BY <1>4, ClientIdle DEF Tick
  <2> QED BY <1>4, <2>1, <2>2 DEF Tick, IInv, TypeOK, WireTypeOK, wire
<1>5. CASE UNCHANGED vars
  <2>1. UNCHANGED <<server, elapsed>> /\ UNCHANGED client /\ UNCHANGED wire
    BY <1>5 DEF vars
  <2> QED BY <2>1, ServerIdle, ClientIdle DEF IInv, TypeOK, WireTypeOK, wire
<1> QED BY <1>1, <1>2, <1>3, <1>4, <1>5 DEF Next, Finished

\* Whatever the problem, the planner's answers and the moment a process dies, the
\* program stays within the states TypeOK names: no round after the last, no turn past
\* the limit, and only elements of the protocol on the connection.
THEOREM TypeCorrect == Spec => []TypeOK
<1>1. Init => IInv
  BY InitIInv
<1>2. IInv /\ [Next]_vars => IInv'
  BY NextIInv
<1>3. IInv => TypeOK
  BY DEF IInv
<1> QED BY <1>1, <1>2, <1>3, PTL DEF Spec

-----------------------------------------------------------------------------
(* The time of the rounds fits into the time of the session: what is left when a  *)
(* round starts is left besides what is already counted, and a round is counted   *)
(* from after all rounds that were counted before it.                             *)

TimeInv ==
  /\ totalTime <= elapsed /\ totalTime <= TimeLimit
  /\ sPc \in {"start-round", "turns", "action"} => totalTime + timeLeft <= TimeLimit
  /\ sPc \in {"turns", "action"} => totalTime <= roundStart /\ roundStart <= elapsed

LEMMA TimeInvKept ==
  ASSUME IInv, TimeInv, [Next]_vars
  PROVE  TimeInv'
<1>a. TimeLimit \in Nat /\ MaxElapsed \in Nat
  BY ConstantsAssumption
<1>b. elapsed \in Nat /\ totalTime \in Nat /\ timeLeft \in Nat /\ roundStart \in Nat
  BY <1>a DEF IInv, TypeOK, ServerTypeOK
<1> USE <1>a, <1>b
<1>1. CASE ServerRoundInit
  BY <1>1 DEF ServerRoundInit, WriteThen, TimeLeft, Larger, TimeInv
<1>2. CASE ServerStartRound
  BY <1>2 DEF ServerStartRound, TimeInv
<1>3. CASE ServerEndRound
  <2>1. sPc' \notin {"start-round", "turns", "action"}
    BY <1>3 DEF ServerEndRound, WriteThen
  <2>2. TimeSpent \in Nat /\ TimeSpent <= timeLeft /\ TimeSpent <= elapsed - roundStart
    BY <1>3 DEF ServerEndRound, TimeSpent, Larger, Smaller, TimeInv
  <2>3. totalTime' \in {totalTime, totalTime + TimeSpent} /\ elapsed' = elapsed
    BY <1>3 DEF ServerEndRound
  <2>4. totalTime + timeLeft <= TimeLimit /\ totalTime <= roundStart /\ roundStart <= elapsed
    BY <1>3 DEF ServerEndRound, TimeInv
  <2> QED BY <2>1, <2>2, <2>3, <2>4 DEF TimeInv
<1>4. CASE Tick
  BY <1>4 DEF Tick, TimeInv, server
<1>5. CASE UNCHANGED <<totalTime, timeLeft, roundStart, elapsed>>
           /\ (sPc' \in {"start-round"} => sPc = "start-round")
           /\ (sPc' \in {"turns", "action"} => sPc \in {"turns", "action"})
  BY <1>5 DEF TimeInv
<1>6. CASE ServerAccept \/ ServerRefuse \/ ServerSendState \/ ServerDone \/ ServerAct
           \/ ServerRejectAction \/ ServerEndSession \/ ServerReturn
  BY <1>5, <1>6 DEF ServerAccept, ServerRefuse, ServerSendState, ServerDone, ServerAct,
       ServerRejectAction, ServerEndSession, ServerReturn, WriteThen
<1>7. CASE ClientStep \/ ClientCrash \/ UNCHANGED vars
  <2>1. UNCHANGED <<server, elapsed>>
    BY <1>7 DEF ClientStep, ClientRequest, ClientInit, ClientRoundRequest,
         ClientRoundInit, ClientDecide, ClientEndRound, ClientEndSession, ClientAbandon,
         ClientCrash, vars
  <2> QED BY <2>1, <1>5 DEF server
<1> QED BY <1>1, <1>2, <1>3, <1>4, <1>6, <1>7 DEF Next, ServerStep, Finished

\* The time host_problem reports over all successful rounds never exceeds the limit of
\* the session, although rounds are timed by timers of their own and a session may
\* last longer than its limit.
THEOREM TotalTimeCorrect == Spec => []TotalTimeWithinLimit
<1>1. Init => IInv /\ TimeInv
  <2>1. TimeLimit \in Nat
    BY ConstantsAssumption
  <2>2. Init => TimeInv
    BY <2>1 DEF Init, TimeInv
  <2> QED BY <2>2, InitIInv
<1>2. IInv /\ TimeInv /\ [Next]_vars => (IInv /\ TimeInv)'
  BY NextIInv, TimeInvKept
<1>3. TimeInv => TotalTimeWithinLimit
  BY DEF TimeInv, TotalTimeWithinLimit
<1> QED BY <1>1, <1>2, <1>3, PTL DEF Spec

-----------------------------------------------------------------------------
(* A state the server offers and the answer to it are one token that travels from *)
(* one channel to the other: there is at most one, it exists only while the server *)
(* awaits the answer, and it always belongs to the state the simulation is in.     *)

Tagged(q, tags) == {i \in 1..Len(q) : q[i].tag \in tags}
Answers == Tagged(toServer, {"act", "done"})
Offers  == Tagged(toClient, {"state"})
Sole(set) == \A i, j \in set : i = j

TokenInv ==
  /\ sPc = "action" =>
       /\ Sole(Answers) /\ Sole(Offers) /\ (Answers = {} \/ Offers = {})
       /\ \A i \in Answers : toServer[i].tag = "act" => toServer[i].seen = simState
       /\ \A i \in Offers : toClient[i].state = simState
  /\ sPc \notin {"action", "returned", "killed"} => Answers = {} /\ Offers = {}

LEMMA TaggedTail ==
  ASSUME NEW S, NEW q \in Seq(S), q # <<>>, NEW tags
  PROVE  /\ \A i \in Tagged(Tail(q), tags) : i + 1 \in Tagged(q, tags) /\ Tail(q)[i] = q[i + 1]
         /\ Sole(Tagged(q, tags)) => Sole(Tagged(Tail(q), tags))
         /\ Tagged(q, tags) = {} => Tagged(Tail(q), tags) = {}
         /\ Sole(Tagged(q, tags)) /\ Head(q).tag \in tags => Tagged(Tail(q), tags) = {}
         /\ Head(q).tag \in tags => 1 \in Tagged(q, tags) /\ Head(q) = q[1]
<1>1. /\ Len(q) \in Nat \ {0} /\ Len(Tail(q)) = Len(q) - 1
      /\ \A i \in 1..Len(Tail(q)) : Tail(q)[i] = q[i + 1]
      /\ Head(q) = q[1]
  BY HeadTailProperties
<1>2. \A i \in Tagged(Tail(q), tags) :
         i \in Nat \ {0} /\ i + 1 \in Tagged(q, tags) /\ Tail(q)[i] = q[i + 1]
  BY <1>1 DEF Tagged
<1>3. Sole(Tagged(q, tags)) => Sole(Tagged(Tail(q), tags))
  BY <1>2 DEF Sole
<1>4. Head(q).tag \in tags => 1 \in Tagged(q, tags)
  BY <1>1 DEF Tagged
<1>5. Sole(Tagged(q, tags)) /\ Head(q).tag \in tags => Tagged(Tail(q), tags) = {}
  BY <1>2, <1>4 DEF Sole
<1> QED BY <1>1, <1>2, <1>3, <1>4, <1>5

LEMMA TaggedAppend ==
  ASSUME NEW S, NEW q \in Seq(S), NEW e, NEW tags
  PROVE  /\ \A i \in Tagged(Append(q, e), tags) :
              \/ i \in Tagged(q, tags) /\ Append(q, e)[i] = q[i]
              \/ e.tag \in tags /\ Append(q, e)[i] = e
         /\ e.tag \notin tags => Tagged(Append(q, e), tags) = Tagged(q, tags)
         /\ Tagged(q, tags) = {} => Sole(Tagged(Append(q, e), tags))
<1>1. /\ Len(q) \in Nat /\ Len(Append(q, e)) = Len(q) + 1
      /\ \A i \in 1..Len(q) : Append(q, e)[i] = q[i]
      /\ Append(q, e)[Len(q) + 1] = e
  OBVIOUS
<1>2. \A i \in Tagged(Append(q, e), tags) :
         \/ i \in Tagged(q, tags) /\ Append(q, e)[i] = q[i]
         \/ e.tag \in tags /\ Append(q, e)[i] = e /\ i = Len(q) + 1
  BY <1>1 DEF Tagged
<1>3. e.tag \notin tags => Tagged(Append(q, e), tags) = Tagged(q, tags)
  BY <1>1 DEF Tagged
<1>4. Tagged(q, tags) = {} => Sole(Tagged(Append(q, e), tags))
  BY <1>2 DEF Sole
<1> QED BY <1>2, <1>3, <1>4

LEMMA TaggedFirst ==
  ASSUME NEW S, NEW q \in Seq(S), NEW e, NEW tags, Tagged(q, tags) = {}
  PROVE  /\ Sole(Tagged(Append(q, e), tags))
         /\ \A i \in Tagged(Append(q, e), tags) : Append(q, e)[i] = e
<1>1. /\ Len(q) \in Nat /\ Len(Append(q, e)) = Len(q) + 1
      /\ \A i \in 1..Len(q) : Append(q, e)[i] = q[i]
      /\ Append(q, e)[Len(q) + 1] = e
  OBVIOUS
<1>2. \A i \in Tagged(Append(q, e), tags) : i = Len(q) + 1
  BY <1>1 DEF Tagged
<1> QED BY <1>1, <1>2 DEF Sole

LEMMA Channels == ASSUME IInv PROVE toServer \in Seq(Requests) /\ toClient \in Seq(Elements)
  BY DEF IInv, TypeOK, WireTypeOK, Elements

\* What the server writes besides states offers nothing.
LEMMA WriteNoOffer ==
  ASSUME IInv, NEW m, m.tag # "state", NEW pc, WriteThen(m, pc), Offers = {}
  PROVE  Offers' = {} /\ sPc' \in {pc, "killed"}
<1>1. toClient' = toClient \/ toClient' = Append(toClient, m)
  BY DEF WriteThen
<1>2. Tagged(Append(toClient, m), {"state"}) = Tagged(toClient, {"state"})
  BY Channels, TaggedAppend
<1>3. Offers' = Offers
  BY <1>1, <1>2 DEF Offers
<1> QED BY <1>3 DEF WriteThen

LEMMA ServerKeepsToken ==
  ASSUME IInv, TokenInv, ServerStep
  PROVE  TokenInv'
<1> USE Channels
<1>1. CASE ServerAccept
  <2>1. Answers = {} /\ Offers = {}
    BY <1>1 DEF ServerAccept, TokenInv
  <2>2. Answers' = {}
    BY <1>1, <2>1, TaggedTail DEF ServerAccept, Arrived, TakeRequest, Answers
  <2>3. Offers' = {} /\ sPc' \in {"round-request", "killed"}
    BY <1>1, <2>1, WriteNoOffer DEF ServerAccept, SessionInit
  <2> QED BY <2>2, <2>3 DEF TokenInv
<1>2. CASE ServerRefuse \/ ServerReturn \/ ServerEndSession
  <2>1. sPc' \in {"returned", "killed"}
    BY <1>2 DEF ServerRefuse, ServerReturn, ServerEndSession, WriteThen
  <2> QED BY <2>1 DEF TokenInv
<1>3. CASE ServerRoundInit
  <2>1. Answers = {} /\ Offers = {}
    BY <1>3 DEF ServerRoundInit, TokenInv
  <2>2. Answers' = {}
    BY <1>3, <2>1, TaggedTail DEF ServerRoundInit, Arrived, TakeRequest, Answers
  <2>3. Offers' = {} /\ sPc' \in {"start-round", "killed"}
    BY <1>3, <2>1, WriteNoOffer DEF ServerRoundInit, RoundInit
  <2> QED BY <2>2, <2>3 DEF TokenInv
<1>4. CASE ServerStartRound
  <2>1. Answers = {} /\ Offers = {}
    BY <1>4 DEF ServerStartRound, TokenInv
  <2>2. Answers' = {} /\ Offers' = {} /\ sPc' = "turns"
    BY <1>4, <2>1 DEF ServerStartRound, Answers, Offers, wire
  <2> QED BY <2>2 DEF TokenInv
<1>5. CASE ServerSendState
  <2>1. Answers = {} /\ Offers = {} /\ Answers' = Answers /\ simState' = simState
    BY <1>5 DEF ServerSendState, TokenInv, Answers
  <2>2. sPc' \in {"action", "killed"}
    BY <1>5 DEF ServerSendState, WriteThen
  <2>3. toClient' = toClient \/ toClient' = Append(toClient, StateOf(simState))
    BY <1>5 DEF ServerSendState, WriteThen
  <2>4. Sole(Offers') /\ \A i \in Offers' : toClient'[i].state = simState
    <3>1. CASE toClient' = toClient
      BY <3>1, <2>1 DEF Offers, Sole
    <3>2. CASE toClient' = Append(toClient, StateOf(simState))
      <4> DEFINE T == Tagged(Append(toClient, StateOf(simState)), {"state"})
      <4>1. Tagged(toClient, {"state"}) = {}
        BY <2>1 DEF Offers
      <4>2. Sole(T) /\ \A i \in T : Append(toClient, StateOf(simState))[i] = StateOf(simState)
        BY <4>1, TaggedFirst
      <4>3. Offers' = T
        BY <3>2 DEF Offers
      <4>4. StateOf(simState).state = simState
        BY DEF StateOf
      <4> HIDE DEF T
      <4> QED BY <3>2, <4>2, <4>3, <4>4
    <3> QED BY <2>3, <3>1, <3>2
  <2> QED BY <2>1, <2>2, <2>4 DEF TokenInv, Sole
<1>6. CASE ServerDone \/ ServerAct \/ ServerRejectAction
  <2>1. sPc = "action" /\ toServer # <<>> /\ Head(toServer).tag \in {"act", "done"}
    BY <1>6 DEF ServerDone, ServerAct, ServerRejectAction, Arrived
  <2>2. Sole(Answers) /\ (Answers = {} \/ Offers = {})
    BY <2>1 DEF TokenInv
  <2>3. 1 \in Answers /\ Tagged(Tail(toServer), {"act", "done"}) = {}
    BY <2>1, <2>2, TaggedTail DEF Answers
  <2>4. Answers' = {} /\ Offers = {}
    BY <1>6, <2>2, <2>3 DEF ServerDone, ServerAct, ServerRejectAction, TakeRequest, Answers
  <2>5. Offers' = {} /\ sPc' \in {"turns", "killed"}
    <3>1. CASE ServerRejectAction
      BY <3>1, <2>4, WriteNoOffer DEF ServerRejectAction, Error
    <3>2. CASE ServerDone \/ ServerAct
      BY <3>2, <2>4 DEF ServerDone, ServerAct, Offers
    <3> QED BY <1>6, <3>1, <3>2
  <2> QED BY <2>4, <2>5 DEF TokenInv
<1>7. CASE ServerEndRound
  <2>1. Answers = {} /\ Offers = {} /\ Answers' = Answers
    BY <1>7 DEF ServerEndRound, TokenInv, Answers
  <2>2. Offers' = {} /\ sPc' \in {"round-request", "end-session", "killed"}
    BY <1>7, <2>1, WriteNoOffer DEF ServerEndRound, EndRound
  <2> QED BY <2>1, <2>2 DEF TokenInv
<1> QED BY <1>1, <1>2, <1>3, <1>4, <1>5, <1>6, <1>7 DEF ServerStep

\* A client that adds no answer and at most takes elements away keeps the token.
LEMMA PassiveClient ==
  ASSUME IInv, TokenInv, UNCHANGED <<sPc, simState>>,
         \/ toServer' = toServer
         \/ \E m : toServer' = Append(toServer, m) /\ m.tag \notin {"act", "done"},
         toClient' \in {toClient, <<>>} \/ (toClient # <<>> /\ toClient' = Tail(toClient))
  PROVE  TokenInv'
<1> USE Channels
<1>1. Answers' = Answers /\ \A i \in Answers' : toServer'[i] = toServer[i]
  <2>1. CASE toServer' = toServer
    BY <2>1 DEF Answers
  <2>2. ASSUME NEW m, toServer' = Append(toServer, m), m.tag \notin {"act", "done"}
        PROVE  Answers' = Answers /\ \A i \in Answers' : toServer'[i] = toServer[i]
    <3>1. /\ Tagged(Append(toServer, m), {"act", "done"}) = Answers
          /\ \A i \in Tagged(Append(toServer, m), {"act", "done"}) :
               Append(toServer, m)[i] = toServer[i]
      BY <2>2, TaggedAppend DEF Answers
    <3> QED BY <2>2, <3>1 DEF Answers
  <2> QED BY <2>1, <2>2
<1>2. /\ Sole(Offers) => Sole(Offers')
      /\ Offers = {} => Offers' = {}
      /\ \A i \in Offers' : \E j \in Offers : toClient'[i] = toClient[j]
  <2>1. CASE toClient' = toClient
    BY <2>1 DEF Offers
  <2>2. CASE toClient' = <<>>
    <3>1. Offers' = {}
      BY <2>2 DEF Offers, Tagged
    <3> QED BY <3>1 DEF Sole
  <2>3. CASE toClient # <<>> /\ toClient' = Tail(toClient)
    <3> DEFINE T == Tagged(Tail(toClient), {"state"})
    <3>1. /\ Sole(Offers) => Sole(T)
          /\ Offers = {} => T = {}
          /\ \A i \in T : i + 1 \in Offers /\ Tail(toClient)[i] = toClient[i + 1]
      BY <2>3, TaggedTail DEF Offers
    <3>2. Offers' = T
      BY <2>3 DEF Offers
    <3> QED BY <2>3, <3>1, <3>2
  <2> QED BY <2>1, <2>2, <2>3
<1> QED BY <1>1, <1>2 DEF TokenInv

LEMMA DecideKeepsToken ==
  ASSUME IInv, TokenInv, ClientDecide
  PROVE  TokenInv'
<1> USE Channels
<1>1. UNCHANGED <<sPc, simState>>
  BY DEF ClientDecide, server
<1>2. toClient # <<>> /\ Head(toClient).tag \in {"state"} /\ toClient' = Tail(toClient)
  BY DEF ClientDecide, Replied, TakeReply
<1>3. 1 \in Offers /\ Head(toClient) = toClient[1]
  BY <1>2, TaggedTail DEF Offers
<1>4. CASE sPc = "action"
  <2>1. Sole(Offers) /\ Answers = {} /\ Reply.state = simState
    BY <1>3, <1>4 DEF TokenInv, Reply
  <2>2. Offers' = {}
    BY <1>2, <2>1, TaggedTail DEF Offers
  <2>3. PICK d : toServer' = Append(toServer, Answer(simState, d))
    BY <2>1 DEF ClientDecide, SendServer
  <2>4. Answer(simState, d).tag = "act" => Answer(simState, d).seen = simState
    BY DEF Answer
  <2>5. Sole(Answers') /\ \A i \in Answers' : toServer'[i] = Answer(simState, d)
    <3> DEFINE T == Tagged(Append(toServer, Answer(simState, d)), {"act", "done"})
    <3>1. Tagged(toServer, {"act", "done"}) = {}
      BY <2>1 DEF Answers
    <3>2. /\ Sole(T)
          /\ \A i \in T : Append(toServer, Answer(simState, d))[i] = Answer(simState, d)
      BY <3>1, TaggedFirst
    <3>3. Answers' = T
      BY <2>3 DEF Answers
    <3> HIDE DEF T
    <3> QED BY <2>3, <3>2, <3>3
  <2> QED BY <1>1, <1>4, <2>2, <2>4, <2>5 DEF TokenInv, Sole
<1>5. CASE sPc # "action"
  BY <1>1, <1>3, <1>5 DEF TokenInv
<1> QED BY <1>4, <1>5

LEMMA TokenInvKept ==
  ASSUME IInv, TokenInv, [Next]_vars
  PROVE  TokenInv'
<1>1. CASE ServerStep
  BY <1>1, ServerKeepsToken
<1>2. CASE ClientDecide
  BY <1>2, DecideKeepsToken
<1>3. CASE ClientRequest
  <2>1. \E m : toServer' = Append(toServer, m) /\ m.tag \notin {"act", "done"}
    BY <1>3 DEF ClientRequest, SendServer
  <2> QED BY <1>3, <2>1, PassiveClient DEF ClientRequest, server
<1>4. CASE ClientRoundRequest
  <2>1. \E m : toServer' = Append(toServer, m) /\ m.tag \notin {"act", "done"}
    BY <1>4 DEF ClientRoundRequest, SendServer
  <2> QED BY <1>4, <2>1, PassiveClient DEF ClientRoundRequest, server
<1>5. CASE ClientInit \/ ClientRoundInit \/ ClientEndRound
  BY <1>5, PassiveClient
     DEF ClientInit, ClientRoundInit, ClientEndRound, Replied, TakeReply, server
<1>6. CASE ClientEndSession \/ ClientAbandon
  BY <1>6, PassiveClient DEF ClientEndSession, ClientAbandon, Replied, Leave, server
<1>7. CASE ClientCrash
  BY <1>7, PassiveClient DEF ClientCrash, server
<1>8. CASE Tick \/ UNCHANGED vars
  BY <1>8, PassiveClient DEF Tick, vars, server, wire
<1> QED
  BY <1>1, <1>2, <1>3, <1>4, <1>5, <1>6, <1>7, <1>8 DEF Next, ClientStep, Finished

\* An action the server takes off the connection was chosen by the planner for the
\* state the simulation is in, whatever turns, rounds, errors and crashes came before.
THEOREM ActionsAreTimely == Spec => []ActOnCurrentState
<1>1. Init => IInv /\ TokenInv
  <2>1. Init => TokenInv
    BY DEF Init, TokenInv, Answers, Offers, Tagged
  <2> QED BY <2>1, InitIInv
<1>2. IInv /\ TokenInv /\ [Next]_vars => (IInv /\ TokenInv)'
  BY NextIInv, TokenInvKept
<1>3. IInv /\ TokenInv => ActOnCurrentState
  <2> SUFFICES ASSUME IInv, TokenInv, sPc = "action", Arrived("act")
               PROVE  Head(toServer).seen = simState
    BY DEF ActOnCurrentState
  <2>1. 1 \in Answers /\ Head(toServer) = toServer[1]
    BY Channels, TaggedTail DEF Answers, Arrived
  <2> QED BY <2>1 DEF TokenInv, Arrived
<1> QED BY <1>1, <1>2, <1>3, PTL DEF Spec

-----------------------------------------------------------------------------
\* A session keeps its promise, and only a client that deserts it can take the server down.

Finals == Tagged(toClient, {"end-session"})

\* Who closed the connection has read the report, for which the server returned before,
\* or has deserted.
DeserterInv ==
  /\ closed <=> cPc = "exit"
  /\ reset => closed
  /\ closed => abandoned \/ sPc = "returned"
  /\ Finals # {} => sPc = "returned"
  /\ sPc = "killed" => closed /\ abandoned

\* A server that is not through writes something: what else it writes is no report.
LEMMA WriteKeepsDeserter ==
  ASSUME IInv, DeserterInv, sPc # "returned", UNCHANGED <<client, closed>>,
         NEW m, NEW pc, WriteThen(m, pc), pc # "killed",
         m.tag # "end-session" \/ pc = "returned"
  PROVE  DeserterInv'
<1>1. UNCHANGED <<cPc, abandoned, closed>>
  BY DEF client
<1>2. Finals = {} /\ (closed => abandoned) /\ (reset => closed)
  BY DEF DeserterInv
<1>3. CASE sPc' = pc /\ closed /\ toClient' = toClient /\ reset' = (reset \/ closed)
  BY <1>1, <1>2, <1>3 DEF DeserterInv, Finals
<1>4. CASE sPc' = pc /\ ~closed /\ toClient' = Append(toClient, m) /\ reset' = (reset \/ closed)
  <2>1. m.tag # "end-session" => Finals' = {}
    BY <1>2, <1>4, Channels, TaggedAppend DEF Finals
  <2>2. ~closed' /\ ~reset' /\ cPc' # "exit"
    <3>1. reset' <=> reset \/ closed
      BY <1>4, Zenon
    <3>2. closed' = closed
      BY <1>1
    <3>3. cPc' # "exit"
      BY <1>1, <1>4 DEF DeserterInv
    <3>4. ~reset'
      BY <1>2, <1>4, <3>1
    <3>5. ~closed'
      BY <1>4, <3>2
    <3> QED BY <3>3, <3>4, <3>5
  <2>3. sPc' # "killed" /\ (Finals' # {} => sPc' = "returned")
    BY <1>4, <2>1
  <2> QED BY <2>2, <2>3 DEF DeserterInv
<1>5. CASE reset /\ sPc' = "killed" /\ UNCHANGED <<toClient, reset>>
  BY <1>1, <1>2, <1>5 DEF DeserterInv, Finals
<1> QED BY <1>3, <1>4, <1>5 DEF WriteThen

LEMMA ServerKeepsDeserter == ASSUME IInv, DeserterInv, ServerStep PROVE DeserterInv'
<1>1. sPc \notin {"returned", "killed"} /\ UNCHANGED <<client, closed>>
  BY DEF ServerStep, ServerAccept, ServerRefuse, ServerRoundInit, ServerStartRound,
         ServerSendState, ServerDone, ServerAct, ServerRejectAction, ServerEndRound,
         ServerEndSession, ServerReturn, wire
<1>2. CASE ServerAccept \/ ServerRefuse \/ ServerRoundInit
  BY <1>1, <1>2, WriteKeepsDeserter
     DEF ServerAccept, ServerRefuse, ServerRoundInit, SessionInit, Error, RoundInit
<1>3. CASE ServerSendState \/ ServerRejectAction
  BY <1>1, <1>3, WriteKeepsDeserter DEF ServerSendState, ServerRejectAction, StateOf, Error
<1>4. CASE ServerEndRound \/ ServerEndSession
  BY <1>1, <1>4, WriteKeepsDeserter DEF ServerEndRound, ServerEndSession, EndRound, EndSession
<1>5. CASE ServerStartRound \/ ServerDone \/ ServerAct \/ ServerReturn
  <2>1. UNCHANGED <<cPc, abandoned, closed, toClient, reset>> /\ sPc' # "killed"
    BY <1>5 DEF ServerStartRound, ServerDone, ServerAct, ServerReturn, client, wire
  <2> QED BY <1>1, <2>1 DEF DeserterInv, Finals
<1> QED BY <1>2, <1>3, <1>4, <1>5 DEF ServerStep

\* Reading takes reports away.
LEMMA ReadKeepsFinals ==
  ASSUME IInv, toClient' \in {toClient, <<>>} \/ (toClient # <<>> /\ toClient' = Tail(toClient)),
         Finals = {}
  PROVE  Finals' = {}
<1>1. CASE toClient' = toClient
  BY <1>1 DEF Finals
<1>2. CASE toClient' = <<>>
  BY <1>2 DEF Finals, Tagged
<1>3. CASE toClient # <<>> /\ toClient' = Tail(toClient)
  BY <1>3, Channels, TaggedTail DEF Finals
<1> QED BY <1>1, <1>2, <1>3

LEMMA ClientKeepsDeserter == ASSUME IInv, DeserterInv, ClientStep \/ ClientCrash PROVE DeserterInv'
<1>1. /\ sPc' = sPc /\ cPc # "exit" /\ ~closed
      /\ toClient' \in {toClient, <<>>} \/ (toClient # <<>> /\ toClient' = Tail(toClient))
  BY DEF ClientStep, ClientRequest, ClientInit, ClientRoundRequest, ClientRoundInit,
         ClientDecide, ClientEndRound, ClientEndSession, ClientAbandon, ClientCrash,
         Replied, TakeReply, Leave, server, DeserterInv
<1>2. Finals' # {} => sPc' = "returned"
  BY <1>1, ReadKeepsFinals DEF DeserterInv
<1>3. sPc # "killed" /\ ~reset
  BY <1>1 DEF DeserterInv
<1>4. CASE ClientRequest \/ ClientInit \/ ClientRoundRequest \/ ClientRoundInit \/ ClientDecide
           \/ ClientEndRound
  <2>1. UNCHANGED <<closed, reset>> /\ cPc' # "exit"
    BY <1>1, <1>4 DEF ClientRequest, ClientInit, ClientRoundRequest, ClientRoundInit,
                      ClientDecide, ClientEndRound, TakeReply, client
  <2> QED BY <1>1, <1>2, <1>3, <2>1 DEF DeserterInv
<1>5. CASE ClientEndSession
  <2>1. sPc = "returned"
    BY <1>5, Channels, TaggedTail DEF ClientEndSession, Replied, Finals, DeserterInv
  <2>2. closed' <=> cPc' = "exit"
    BY <1>1, <1>5 DEF ClientEndSession, Leave
  <2>3. reset' => closed'
    BY <1>1, <1>3, <1>5 DEF ClientEndSession, Leave
  <2> QED BY <1>1, <2>1, <2>2, <2>3 DEF DeserterInv
<1>6. CASE ClientAbandon
  <2>1. abandoned'
    BY <1>6 DEF ClientAbandon
  <2>2. closed' <=> cPc' = "exit"
    BY <1>1, <1>6 DEF ClientAbandon, Leave
  <2>3. reset' => closed'
    BY <1>1, <1>3, <1>6 DEF ClientAbandon, Leave
  <2> QED BY <1>1, <1>2, <1>3, <2>1, <2>2, <2>3 DEF DeserterInv
<1>7. CASE ClientCrash
  BY <1>1, <1>2, <1>3, <1>7 DEF ClientCrash, DeserterInv
<1> QED BY <1>4, <1>5, <1>6, <1>7 DEF ClientStep

LEMMA DeserterInvariant == Spec => [](IInv /\ DeserterInv)
<1>1. Init => IInv /\ DeserterInv
  <2>1. Init => Finals = {}
    BY DEF Init, Finals, Tagged
  <2>2. Init => DeserterInv
    BY <2>1 DEF Init, DeserterInv
  <2> QED BY <2>2, InitIInv
<1>2. IInv /\ DeserterInv /\ [Next]_vars => (IInv /\ DeserterInv)'
  <2> SUFFICES ASSUME IInv, DeserterInv, [Next]_vars PROVE IInv' /\ DeserterInv'
    OBVIOUS
  <2>1. CASE Tick \/ UNCHANGED vars
    <3>1. UNCHANGED <<sPc, cPc, abandoned, closed, reset, toClient>>
      BY <2>1 DEF Tick, vars, server, client, wire
    <3> QED BY <3>1, NextIInv DEF DeserterInv, Finals
  <2> QED BY <2>1, NextIInv, ServerKeepsDeserter, ClientKeepsDeserter DEF Next, Finished
<1> QED BY <1>1, <1>2, PTL DEF Spec

\* The signal that ends the server's process is raised only by a client that quit over
\* an error or was killed, wherever it stood and whatever was under way.
THEOREM OnlyDesertersKill == Spec => []KilledOnlyByDeserter
<1>1. IInv /\ DeserterInv => KilledOnlyByDeserter
  BY DEF DeserterInv, KilledOnlyByDeserter
<1> QED BY <1>1, DeserterInvariant, PTL
-----------------------------------------------------------------------------
(* The refinement.  A client that runs one session and the server take     *)
(* turns: the request of a round, its end, the next request.               *)

RoundRequests == Tagged(toServer, {"round-request"})
Ends(q)       == Tagged(q, {"end-round"})
EndsInGoal(q) == \E i \in Ends(q) : q[i].goal

Midround == {"start-round", "turns", "action"}
Waiting  == {"await-round", "await-response"}

\* Where the client stands bounds where the server can be.
Turns ==
  /\ sPc \in Midround => cPc \in Waiting \cup {"exit"} /\ RoundRequests = {} /\ Ends(toClient) = {}
  /\ Sole(RoundRequests) /\ (RoundRequests # {} => cPc \in Waiting \cup {"exit"})
  /\ Sole(Ends(toClient)) /\ (Ends(toClient) # {} => cPc \in Waiting /\ RoundRequests = {})

\* The client knows how many rounds there were and are to come.
Rounds ==
  /\ cPc # "exit" => problems = 1 /\ report = NoReport /\ ~abandoned
  /\ cPc \in {"start", "await-init"} => roundsSeen = 0 /\ goalsSeen = 0
  /\ cPc = "next-round" => roundsLeft + roundsSeen = RoundLimit
  /\ cPc \in Waiting => roundsLeft + roundsSeen + 1 = RoundLimit
  /\ cPc = "await-end" => roundsSeen = RoundLimit

\* What the server has counted is what the client has seen and the end of the round
\* that is on its way; its report says the same.
Goals ==
  /\ cPc # "exit" => success = goalsSeen + (IF EndsInGoal(toClient) THEN 1 ELSE 0)
  /\ \A i \in Finals : toClient[i].successes = success /\ toClient[i].failed = RoundLimit - success

PromiseInv == Turns /\ Rounds /\ Goals

\* r holds the ends of rounds of q, and no other reports than q.
EndsAlike(q, r) ==
  /\ Ends(q) = {} => Ends(r) = {}
  /\ Sole(Ends(q)) => Sole(Ends(r))
  /\ EndsInGoal(r) <=> EndsInGoal(q)
Alike(q, r) ==
  /\ EndsAlike(q, r)
  /\ \A i \in Tagged(r, {"end-session"}) : \E j \in Tagged(q, {"end-session"}) : r[i] = q[j]

LEMMA TypeCounts == ASSUME IInv
                    PROVE  /\ success \in Nat /\ roundsLeft \in Nat /\ roundsSeen \in Nat
                           /\ goalsSeen \in Nat /\ abandoned \in BOOLEAN
  BY DEF IInv, TypeOK, ServerTypeOK, ClientTypeOK

LEMMA AlikeSelf == ASSUME NEW q PROVE Alike(q, q)
  BY DEF Alike, EndsAlike

LEMMA AlikeAppend ==
  ASSUME NEW S, NEW q \in Seq(S), NEW m, m.tag # "end-round"
  PROVE  EndsAlike(q, Append(q, m)) /\ (m.tag # "end-session" => Alike(q, Append(q, m)))
<1>1. /\ Len(q) \in Nat /\ Len(Append(q, m)) = Len(q) + 1
      /\ \A i \in 1..Len(q) : Append(q, m)[i] = q[i]
      /\ Append(q, m)[Len(q) + 1] = m
  OBVIOUS
<1>2. Ends(Append(q, m)) = Ends(q) /\ \A i \in Ends(q) : Append(q, m)[i] = q[i]
  BY <1>1 DEF Ends, Tagged
<1>3. m.tag # "end-session" =>
        \A i \in Tagged(Append(q, m), {"end-session"}) :
          i \in Tagged(q, {"end-session"}) /\ Append(q, m)[i] = q[i]
  BY <1>1 DEF Tagged
<1>4. EndsInGoal(Append(q, m)) <=> EndsInGoal(q)
  BY <1>2 DEF EndsInGoal
<1> QED BY <1>2, <1>3, <1>4 DEF Alike, EndsAlike

LEMMA AlikeTail ==
  ASSUME NEW S, NEW q \in Seq(S), q # <<>>, Head(q).tag # "end-round"
  PROVE  Alike(q, Tail(q))
<1>1. /\ Len(q) \in Nat \ {0} /\ Len(Tail(q)) = Len(q) - 1
      /\ \A i \in 1..Len(Tail(q)) : Tail(q)[i] = q[i + 1]
      /\ Head(q) = q[1]
  BY HeadTailProperties
<1>2. \A i \in Ends(Tail(q)) : i + 1 \in Ends(q) /\ Tail(q)[i] = q[i + 1]
  BY <1>1 DEF Ends, Tagged
<1>3. \A j \in Ends(q) : j - 1 \in Ends(Tail(q)) /\ Tail(q)[j - 1] = q[j]
  <2> SUFFICES ASSUME NEW j \in Ends(q) PROVE j - 1 \in Ends(Tail(q)) /\ Tail(q)[j - 1] = q[j]
    OBVIOUS
  <2>1. j \in 1..Len(q) /\ j # 1 /\ q[j].tag = "end-round"
    BY <1>1 DEF Ends, Tagged
  <2>2. j - 1 \in 1..Len(Tail(q)) /\ (j - 1) + 1 = j
    BY <1>1, <2>1
  <2>3. Tail(q)[j - 1] = q[j]
    BY <1>1, <2>2
  <2> QED BY <2>1, <2>2, <2>3 DEF Ends, Tagged
<1>4. EndsInGoal(Tail(q)) <=> EndsInGoal(q)
  BY <1>2, <1>3 DEF EndsInGoal
<1>5. Sole(Ends(q)) => Sole(Ends(Tail(q)))
  BY TaggedTail DEF Ends
<1>6. \A i \in Tagged(Tail(q), {"end-session"}) :
         \E j \in Tagged(q, {"end-session"}) : Tail(q)[i] = q[j]
  <2>1. \A i \in Tagged(Tail(q), {"end-session"}) :
           i + 1 \in Tagged(q, {"end-session"}) /\ Tail(q)[i] = q[i + 1]
    BY <1>1 DEF Tagged
  <2> QED BY <2>1
<1> QED BY <1>2, <1>4, <1>5, <1>6 DEF Alike, EndsAlike

\* What the server writes besides ends of rounds and reports changes nothing of them.
LEMMA WriteAlike ==
  ASSUME IInv, NEW m, m.tag \notin {"end-round", "end-session"}, NEW pc, WriteThen(m, pc)
  PROVE  Alike(toClient, toClient') /\ sPc' \in {pc, "killed"}
<1>1. toClient' = toClient \/ toClient' = Append(toClient, m)
  BY DEF WriteThen
<1> QED BY <1>1, Channels, AlikeSelf, AlikeAppend DEF WriteThen

\* Requests taken away.
LEMMA RequestsTail ==
  ASSUME IInv, toServer' = toServer \/ (toServer # <<>> /\ toServer' = Tail(toServer))
  PROVE  /\ RoundRequests = {} => RoundRequests' = {}
         /\ Sole(RoundRequests) => Sole(RoundRequests')
<1>1. CASE toServer' = toServer
  BY <1>1 DEF RoundRequests
<1>2. CASE toServer # <<>> /\ toServer' = Tail(toServer)
  BY <1>2, Channels, TaggedTail DEF RoundRequests
<1> QED BY <1>1, <1>2

\* A step of the server that ends no round and writes no report.
LEMMA ServerAlike ==
  ASSUME IInv, PromiseInv, UNCHANGED <<client, success>>, Alike(toClient, toClient'),
         toServer' = toServer \/ (toServer # <<>> /\ toServer' = Tail(toServer)),
         sPc' \in Midround => /\ cPc \in Waiting \cup {"exit"}
                              /\ RoundRequests' = {} /\ Ends(toClient) = {}
  PROVE  PromiseInv'
<1>1. UNCHANGED <<cPc, roundsLeft, roundsSeen, goalsSeen, report, problems, abandoned, success>>
  BY DEF client
<1>2. Ends(toClient') # {} => Ends(toClient) # {}
  BY DEF Alike, EndsAlike
<1>3. Turns'
  BY <1>1, <1>2, RequestsTail DEF PromiseInv, Turns, Alike, EndsAlike
<1>4. Rounds'
  BY <1>1 DEF PromiseInv, Rounds
<1>5. Goals'
  <2>1. EndsInGoal(toClient') <=> EndsInGoal(toClient)
    BY DEF Alike, EndsAlike
  <2>2. \A i \in Finals' : \E j \in Finals : toClient'[i] = toClient[j]
    BY DEF Alike, Finals
  <2> QED BY <1>1, <2>1, <2>2 DEF PromiseInv, Goals
<1> QED BY <1>3, <1>4, <1>5 DEF PromiseInv

\* The end of a round is the only one on its way.
LEMMA EndsFirst ==
  ASSUME NEW S, NEW q \in Seq(S), Ends(q) = {}, NEW m, m.tag = "end-round"
  PROVE  Sole(Ends(Append(q, m))) /\ (EndsInGoal(Append(q, m)) <=> m.goal)
<1>1. /\ Len(q) \in Nat /\ Len(Append(q, m)) = Len(q) + 1
      /\ \A i \in 1..Len(q) : Append(q, m)[i] = q[i]
      /\ Append(q, m)[Len(q) + 1] = m
  OBVIOUS
<1>2. Ends(Append(q, m)) = {Len(q) + 1}
  BY <1>1 DEF Ends, Tagged
<1> QED BY <1>1, <1>2 DEF Sole, EndsInGoal

LEMMA EndRoundKeepsPromise == ASSUME IInv, DeserterInv, PromiseInv, ServerEndRound PROVE PromiseInv'
<1>1. /\ UNCHANGED <<cPc, roundsLeft, roundsSeen, goalsSeen, report, problems, abandoned>>
      /\ RoundRequests' = RoundRequests
  BY DEF ServerEndRound, client, RoundRequests
<1>2. /\ cPc \in Waiting \cup {"exit"} /\ RoundRequests = {} /\ Ends(toClient) = {}
      /\ Finals = {}
  BY DEF ServerEndRound, PromiseInv, Turns, Midround, DeserterInv
<1>3. sPc' \notin Midround
  BY DEF ServerEndRound, WriteThen, Midround
<1>4. EndRound.tag = "end-round" /\ (EndRound.goal <=> Goal(simState))
  BY DEF EndRound
<1>5. Finals' = {}
  <2>1. toClient' = toClient \/ toClient' = Append(toClient, EndRound)
    BY DEF ServerEndRound, WriteThen
  <2>2. Tagged(Append(toClient, EndRound), {"end-session"}) = Tagged(toClient, {"end-session"})
    BY <1>4, Channels, TaggedAppend
  <2> QED BY <1>2, <2>1, <2>2 DEF Finals
<1>6. Rounds'
  BY <1>1 DEF PromiseInv, Rounds
<1>7. CASE cPc = "exit"
  <2>1. Ends(toClient') = {}
    <3>1. toClient' = toClient
      BY <1>7 DEF ServerEndRound, WriteThen, DeserterInv
    <3> QED BY <1>2, <3>1
  <2>2. Turns'
    BY <1>1, <1>2, <1>3, <2>1, <1>7 DEF Turns, Sole
  <2>3. Goals'
    BY <1>1, <1>5, <1>7 DEF Goals
  <2> QED BY <1>6, <2>2, <2>3 DEF PromiseInv
<1>8. CASE cPc # "exit"
  <2>1. toClient' = Append(toClient, EndRound)
    BY <1>8 DEF ServerEndRound, WriteThen, DeserterInv
  <2>2. Sole(Ends(toClient')) /\ (EndsInGoal(toClient') <=> Goal(simState))
    BY <1>2, <1>4, <2>1, Channels, EndsFirst
  <2>3. success = goalsSeen
    BY <1>2, <1>8, TypeCounts DEF PromiseInv, Goals, EndsInGoal
  <2>4. success' = IF Goal(simState) THEN success + 1 ELSE success
    BY DEF ServerEndRound, Successful
  <2>5. Turns'
    BY <1>1, <1>2, <1>3, <1>8, <2>2 DEF Turns, Sole
  <2>6. Goals'
    BY <1>1, <1>5, <2>2, <2>3, <2>4, TypeCounts DEF Goals
  <2> QED BY <1>6, <2>5, <2>6 DEF PromiseInv
<1> QED BY <1>7, <1>8

LEMMA EndSessionKeepsPromise == ASSUME IInv, DeserterInv, PromiseInv, ServerEndSession PROVE PromiseInv'
<1>1. /\ UNCHANGED <<cPc, roundsLeft, roundsSeen, goalsSeen, report, problems, abandoned, success>>
      /\ RoundRequests' = RoundRequests
  BY DEF ServerEndSession, client, RoundRequests
<1>2. Finals = {}
  BY DEF ServerEndSession, DeserterInv
<1>3. sPc' \notin Midround
  BY DEF ServerEndSession, WriteThen, Midround
<1>4. /\ EndSession.tag = "end-session"
      /\ EndSession.successes = success /\ EndSession.failed = RoundLimit - success
  BY DEF EndSession
<1>5. toClient' = toClient \/ toClient' = Append(toClient, EndSession)
  BY DEF ServerEndSession, WriteThen
<1>6. EndsAlike(toClient, toClient')
  BY <1>4, <1>5, Channels, AlikeAppend, AlikeSelf DEF Alike
<1>7. \A i \in Finals' : toClient'[i] = EndSession
  BY <1>2, <1>5, Channels, TaggedFirst DEF Finals
<1>8. Turns'
  BY <1>1, <1>3, <1>6 DEF PromiseInv, Turns, EndsAlike
<1>9. Goals'
  BY <1>1, <1>4, <1>6, <1>7 DEF PromiseInv, Goals, EndsAlike
<1> QED BY <1>1, <1>8, <1>9 DEF PromiseInv, Rounds

LEMMA ServerKeepsPromise == ASSUME IInv, DeserterInv, PromiseInv, ServerStep PROVE PromiseInv'
<1> USE Channels
<1>1. CASE ServerAccept \/ ServerRefuse \/ ServerSendState \/ ServerRejectAction
  <2>1. /\ Alike(toClient, toClient')
        /\ sPc' \in Midround => sPc \in Midround
    BY <1>1, WriteAlike
       DEF ServerAccept, ServerRefuse, ServerSendState, ServerRejectAction, SessionInit, Error,
           StateOf, Midround
  <2>2. /\ UNCHANGED <<client, success>>
        /\ toServer' = toServer \/ (toServer # <<>> /\ toServer' = Tail(toServer))
    BY <1>1 DEF ServerAccept, ServerRefuse, ServerSendState, ServerRejectAction, Arrived, TakeRequest
  <2> QED BY <2>1, <2>2, RequestsTail, ServerAlike DEF PromiseInv, Turns
<1>2. CASE ServerStartRound \/ ServerDone \/ ServerAct \/ ServerReturn
  <2>1. toClient' = toClient /\ (sPc' \in Midround => sPc \in Midround)
    BY <1>2 DEF ServerStartRound, ServerDone, ServerAct, ServerReturn, Midround, wire
  <2>2. /\ UNCHANGED <<client, success>>
        /\ toServer' = toServer \/ (toServer # <<>> /\ toServer' = Tail(toServer))
    BY <1>2 DEF ServerStartRound, ServerDone, ServerAct, ServerReturn, Arrived, TakeRequest, wire
  <2> QED BY <2>1, <2>2, RequestsTail, AlikeSelf, ServerAlike DEF PromiseInv, Turns
<1>3. CASE ServerRoundInit
  <2>1. Alike(toClient, toClient')
    BY <1>3, WriteAlike DEF ServerRoundInit, RoundInit
  <2>2. /\ UNCHANGED <<client, success>>
        /\ toServer # <<>> /\ Head(toServer).tag = "round-request" /\ toServer' = Tail(toServer)
    BY <1>3 DEF ServerRoundInit, Arrived, TakeRequest
  <2>3. RoundRequests # {} /\ RoundRequests' = {}
    BY <2>2, TaggedTail DEF RoundRequests, PromiseInv, Turns
  <2>4. cPc \in Waiting \cup {"exit"} /\ Ends(toClient) = {}
    BY <2>3 DEF PromiseInv, Turns
  <2> QED BY <2>1, <2>2, <2>3, <2>4, ServerAlike
<1> QED BY <1>1, <1>2, <1>3, EndRoundKeepsPromise, EndSessionKeepsPromise DEF ServerStep

\* A step of the client that reads no end of a round and does not leave.
LEMMA ClientAlike ==
  ASSUME IInv, PromiseInv, UNCHANGED <<sPc, success, goalsSeen>>, cPc # "exit",
         Alike(toClient, toClient'), RoundRequests' = RoundRequests,
         cPc \in Waiting => cPc' \in Waiting, Rounds'
  PROVE  PromiseInv'
<1>1. Turns'
  BY DEF PromiseInv, Turns, Alike, EndsAlike
<1>2. \A i \in Finals' : \E j \in Finals : toClient'[i] = toClient[j]
  BY DEF Alike, Finals
<1>3. Goals'
  BY <1>2 DEF PromiseInv, Goals, Alike, EndsAlike
<1> QED BY <1>1, <1>3 DEF PromiseInv

\* Leaving takes all that was not read with it.
LEMMA LeaveKeepsPromise ==
  ASSUME PromiseInv, cPc' = "exit", toClient' = <<>>, UNCHANGED <<sPc, toServer>>
  PROVE  PromiseInv'
<1>1. Ends(toClient') = {} /\ Finals' = {} /\ RoundRequests' = RoundRequests
  BY DEF Ends, Finals, Tagged, RoundRequests
<1> QED BY <1>1 DEF PromiseInv, Turns, Rounds, Goals, Waiting, Sole

LEMMA RequestsAppend ==
  ASSUME IInv, NEW m, m.tag # "round-request", toServer' = Append(toServer, m)
  PROVE  RoundRequests' = RoundRequests
<1>1. Tagged(Append(toServer, m), {"round-request"}) = Tagged(toServer, {"round-request"})
  BY Channels, TaggedAppend
<1> QED BY <1>1 DEF RoundRequests

\* An element read that is not the end of a round.
LEMMA ReadAlike ==
  ASSUME IInv, NEW tags, "end-round" \notin tags, Replied(tags), TakeReply
  PROVE  Alike(toClient, toClient')
BY Channels, AlikeTail DEF Replied, TakeReply

LEMMA ClientEndRoundKeepsPromise == ASSUME IInv, PromiseInv, ClientEndRound PROVE PromiseInv'
<1>1. /\ toClient # <<>> /\ Head(toClient).tag = "end-round" /\ toClient' = Tail(toClient)
      /\ UNCHANGED <<sPc, success, toServer, report, problems, abandoned, roundsLeft>>
      /\ cPc = "await-response" /\ roundsSeen' = roundsSeen + 1
      /\ cPc' = IF roundsLeft > 0 THEN "next-round" ELSE "await-end"
  BY DEF ClientEndRound, Replied, TakeReply, server
<1>2. 1 \in Ends(toClient) /\ Head(toClient) = toClient[1] /\ Sole(Ends(toClient))
  BY <1>1, Channels, TaggedTail DEF Ends, PromiseInv, Turns
<1>3. RoundRequests' = {} /\ sPc \notin Midround
  BY <1>1, <1>2 DEF PromiseInv, Turns, RoundRequests
<1>4. Ends(toClient') = {}
  BY <1>1, <1>2, Channels, TaggedTail DEF Ends
<1>5. EndsInGoal(toClient) <=> Reply.goal
  BY <1>2 DEF EndsInGoal, Sole, Reply
<1>6. ~EndsInGoal(toClient')
  BY <1>4 DEF EndsInGoal
<1>7. goalsSeen' = IF Reply.goal THEN goalsSeen + 1 ELSE goalsSeen
  BY DEF ClientEndRound
<1>8. \A i \in Finals' : \E j \in Finals : toClient'[i] = toClient[j]
  <2>1. \A i \in Finals' : i + 1 \in Finals /\ toClient'[i] = toClient[i + 1]
    BY <1>1, Channels, TaggedTail DEF Finals
  <2> QED BY <2>1
<1>9. Turns'
  BY <1>1, <1>3, <1>4 DEF Turns, Sole
<1>10. Rounds'
  BY <1>1, TypeCounts DEF PromiseInv, Rounds, Waiting
<1>11. Goals'
  <2>1. success = goalsSeen + (IF EndsInGoal(toClient) THEN 1 ELSE 0)
    BY <1>1 DEF PromiseInv, Goals
  <2>2. success' = goalsSeen'
    <3>1. CASE EndsInGoal(toClient)
      BY <1>1, <1>5, <1>7, <2>1, <3>1
    <3>2. CASE ~EndsInGoal(toClient)
      BY <1>1, <1>5, <1>7, <2>1, <3>2, TypeCounts
    <3> QED BY <3>1, <3>2
  <2>3. goalsSeen' \in Nat
    BY <1>7, TypeCounts
  <2>4. \A i \in Finals' : toClient'[i].successes = success' /\ toClient'[i].failed = RoundLimit - success'
    BY <1>1, <1>8 DEF PromiseInv, Goals
  <2>5. success' = goalsSeen' + (IF EndsInGoal(toClient') THEN 1 ELSE 0)
    <3>1. (IF EndsInGoal(toClient') THEN 1 ELSE 0) = 0
      BY <1>6, Zenon
    <3>2. \A n \in Nat : n + 0 = n
      OBVIOUS
    <3>3. goalsSeen' + 0 = goalsSeen'
      BY <2>3, <3>2, Zenon
    <3> QED BY <2>2, <3>1, <3>3, Zenon
  <2> QED BY <2>4, <2>5 DEF Goals
<1> QED BY <1>9, <1>10, <1>11 DEF PromiseInv

LEMMA ClientKeepsPromise ==
  ASSUME IInv, DeserterInv, PromiseInv, ClientStep \/ ClientCrash
  PROVE  PromiseInv'
<1> USE TypeCounts
<1>1. CASE ClientRequest
  <2>1. \E m : m.tag # "round-request" /\ toServer' = Append(toServer, m)
    BY <1>1 DEF ClientRequest, SendServer
  <2>2. /\ UNCHANGED <<sPc, success, toClient, problems>> /\ cPc = "start" /\ cPc' = "await-init"
        /\ roundsSeen' = 0 /\ goalsSeen' = 0 /\ report' = NoReport /\ ~abandoned'
    BY <1>1 DEF ClientRequest, server
  <2>3. goalsSeen' = goalsSeen
    BY <2>2 DEF PromiseInv, Rounds
  <2>4. Rounds'
    BY <2>2 DEF PromiseInv, Rounds, Waiting
  <2> QED BY <2>1, <2>2, <2>3, <2>4, RequestsAppend, AlikeSelf, ClientAlike DEF Waiting
<1>2. CASE ClientInit
  <2>1. Alike(toClient, toClient')
    BY <1>2, ReadAlike DEF ClientInit
  <2>2. /\ UNCHANGED <<sPc, success, goalsSeen, roundsSeen, report, problems, abandoned, toServer>>
        /\ cPc = "await-init" /\ cPc' = "next-round" /\ roundsLeft' = RoundLimit
    BY <1>2, ReplyContents DEF ClientInit, server, Replied, Reply
  <2>3. Rounds'
    BY <2>2, ConstantsAssumption DEF PromiseInv, Rounds, Waiting
  <2> QED BY <2>1, <2>2, <2>3, ClientAlike DEF Waiting, RoundRequests
<1>3. CASE ClientRoundRequest
  <2>1. /\ UNCHANGED <<sPc, success, goalsSeen, roundsSeen, report, problems, abandoned, toClient>>
        /\ cPc = "next-round" /\ cPc' = "await-round" /\ roundsLeft' = roundsLeft - 1
        /\ toServer' = Append(toServer, [tag |-> "round-request"])
    BY <1>3 DEF ClientRoundRequest, SendServer, server
  <2>2. RoundRequests = {} /\ Ends(toClient) = {} /\ sPc \notin Midround
    BY <2>1 DEF PromiseInv, Turns, Waiting
  <2>3. Sole(RoundRequests')
    <3>1. Sole(Tagged(Append(toServer, [tag |-> "round-request"]), {"round-request"}))
      BY <2>2, Channels, TaggedFirst DEF RoundRequests
    <3> QED BY <2>1, <3>1 DEF RoundRequests
  <2>4. Turns'
    BY <2>1, <2>2, <2>3 DEF Turns, Waiting, Sole
  <2>5. Rounds'
    BY <2>1, ConstantsAssumption DEF PromiseInv, Rounds, Waiting
  <2>6. Goals'
    BY <2>1 DEF PromiseInv, Goals, Finals
  <2> QED BY <2>4, <2>5, <2>6 DEF PromiseInv
<1>4. CASE ClientRoundInit
  <2>1. Alike(toClient, toClient')
    BY <1>4, ReadAlike DEF ClientRoundInit
  <2>2. /\ UNCHANGED <<sPc, success, goalsSeen, roundsSeen, roundsLeft, report, problems, abandoned, toServer>>
        /\ cPc = "await-round" /\ cPc' = "await-response"
    BY <1>4 DEF ClientRoundInit, server
  <2>3. Rounds'
    BY <2>2 DEF PromiseInv, Rounds, Waiting
  <2> QED BY <2>1, <2>2, <2>3, ClientAlike DEF Waiting, RoundRequests
<1>5. CASE ClientDecide
  <2>1. Alike(toClient, toClient')
    BY <1>5, ReadAlike DEF ClientDecide
  <2>2. UNCHANGED <<sPc, success, goalsSeen, roundsSeen, roundsLeft, report, problems, abandoned, cPc>>
    BY <1>5 DEF ClientDecide, server, client
  <2>3. cPc = "await-response"
    BY <1>5 DEF ClientDecide
  <2>4. \E m : m.tag # "round-request" /\ toServer' = Append(toServer, m)
    BY <1>5 DEF ClientDecide, SendServer, Answer
  <2>5. Rounds'
    BY <2>2 DEF PromiseInv, Rounds
  <2> QED BY <2>1, <2>2, <2>3, <2>4, <2>5, RequestsAppend, ClientAlike
<1>6. CASE ClientEndSession \/ ClientAbandon \/ ClientCrash
  <2>1. cPc # "exit"
    BY <1>6 DEF ClientEndSession, ClientAbandon, ClientCrash
  <2>2. cPc' = "exit" /\ toClient' = <<>> /\ UNCHANGED <<sPc, toServer>>
    BY <1>6, <2>1 DEF ClientEndSession, ClientAbandon, ClientCrash, Leave, server, PromiseInv, Rounds
  <2> QED BY <2>2, LeaveKeepsPromise
<1> QED BY <1>1, <1>2, <1>3, <1>4, <1>5, <1>6, ClientEndRoundKeepsPromise DEF ClientStep

LEMMA PromiseInvariant == ASSUME NumProblems = 1 PROVE Spec => [](IInv /\ DeserterInv /\ PromiseInv)
<1>1. Init => PromiseInv
  <2> SUFFICES ASSUME Init PROVE PromiseInv
    OBVIOUS
  <2>1. RoundRequests = {} /\ Ends(toClient) = {} /\ Finals = {}
    BY DEF Init, RoundRequests, Ends, Finals, Tagged
  <2> QED BY <2>1 DEF Init, PromiseInv, Turns, Rounds, Goals, EndsInGoal, Sole, Midround, Waiting
<1>2. IInv /\ DeserterInv /\ PromiseInv /\ [Next]_vars => PromiseInv'
  <2> SUFFICES ASSUME IInv, DeserterInv, PromiseInv, [Next]_vars PROVE PromiseInv'
    OBVIOUS
  <2>1. CASE Tick \/ UNCHANGED vars
    <3>1. /\ UNCHANGED <<client, success, toClient, toServer>> /\ sPc' = sPc
      BY <2>1 DEF Tick, vars, server, wire
    <3> QED BY <3>1, AlikeSelf, ServerAlike DEF PromiseInv, Turns, RoundRequests
  <2> QED BY <2>1, ServerKeepsPromise, ClientKeepsPromise DEF Next, Finished
<1> QED BY <1>1, <1>2, DeserterInvariant, PTL DEF Spec

\* A step of the session is a step of the promise, or leaves what it is about alone.
LEMMA StepMeetsPromise ==
  ASSUME IInv, PromiseInv, [Next]_vars
  PROVE  [Promise!Next]_(Promise!vars)
<1> DEFINE shown == IF report = NoReport THEN <<>> ELSE <<report.successes, report.failed>>
<1> USE TypeCounts
<1>1. CASE UNCHANGED <<roundsSeen, goalsSeen, report, abandoned>>
  BY <1>1 DEF Promise!vars
<1>2. CASE ClientRequest
  <2>1. UNCHANGED <<roundsSeen, goalsSeen, report>> /\ abandoned = FALSE /\ abandoned' = FALSE
    BY <1>2 DEF ClientRequest, PromiseInv, Rounds
  <2> QED BY <1>1, <2>1
<1>3. CASE ClientEndRound
  <2>1. report = NoReport /\ ~abandoned /\ UNCHANGED <<report, abandoned>>
    BY <1>3 DEF ClientEndRound, PromiseInv, Rounds
  <2>2. roundsSeen < RoundLimit
    BY <1>3 DEF ClientEndRound, PromiseInv, Rounds, Waiting
  <2>3. roundsSeen' = roundsSeen + 1 /\ goalsSeen' \in {goalsSeen, goalsSeen + 1}
    BY <1>3 DEF ClientEndRound
  <2>4. Promise!EndRound
    BY <2>1, <2>2, <2>3 DEF Promise!EndRound, Promise!Open
  <2> QED BY <2>4 DEF Promise!Next
<1>4. CASE ClientEndSession
  <2>1. /\ cPc = "await-end" /\ toClient # <<>> /\ Head(toClient).tag = "end-session"
        /\ report' = Head(toClient) /\ UNCHANGED <<roundsSeen, goalsSeen, abandoned>>
    BY <1>4 DEF ClientEndSession, Replied, Reply
  <2>2. report = NoReport /\ ~abandoned /\ roundsSeen = RoundLimit
    BY <2>1 DEF PromiseInv, Rounds
  <2>3. 1 \in Finals /\ Head(toClient) = toClient[1]
    BY <2>1, Channels, TaggedTail DEF Finals
  <2>4. ~EndsInGoal(toClient)
    BY <2>1 DEF PromiseInv, Turns, Waiting, EndsInGoal
  <2>5. success = goalsSeen
    BY <2>1, <2>4 DEF PromiseInv, Goals
  <2>6. report'.successes = goalsSeen /\ report'.failed = RoundLimit - goalsSeen
    BY <2>1, <2>3, <2>5 DEF PromiseInv, Goals
  <2>7. report' # NoReport
    BY <2>1 DEF NoReport
  <2>8. Promise!Report
    BY <2>1, <2>2, <2>6, <2>7 DEF Promise!Report, Promise!Open
  <2> QED BY <2>8 DEF Promise!Next
<1>5. CASE ClientAbandon \/ ClientCrash
  <2>1. report = NoReport /\ ~abandoned
    BY <1>5 DEF ClientAbandon, ClientCrash, PromiseInv, Rounds
  <2>2. abandoned' = TRUE /\ UNCHANGED <<roundsSeen, goalsSeen, report>>
    BY <1>5 DEF ClientAbandon, ClientCrash
  <2>3. Promise!Desert
    BY <2>1, <2>2 DEF Promise!Desert, Promise!Open
  <2> QED BY <2>3 DEF Promise!Next
<1>6. CASE ServerStep
  <2>1. UNCHANGED client
    BY <1>6 DEF ServerStep, ServerAccept, ServerRefuse, ServerRoundInit, ServerStartRound,
                ServerSendState, ServerDone, ServerAct, ServerRejectAction, ServerEndRound,
                ServerEndSession, ServerReturn
  <2> QED BY <1>1, <2>1 DEF client
<1>7. CASE ClientInit \/ ClientRoundRequest \/ ClientRoundInit \/ ClientDecide
  BY <1>1, <1>7 DEF ClientInit, ClientRoundRequest, ClientRoundInit, ClientDecide, client
<1>8. CASE Tick \/ Finished \/ UNCHANGED vars
  BY <1>1, <1>8 DEF Tick, Finished, vars, client
<1> QED BY <1>2, <1>3, <1>4, <1>5, <1>6, <1>7, <1>8 DEF Next, ClientStep

\* What the client of one session observes is what a session promises, whatever the
\* planner answers, however long it takes and wherever the client is killed.
THEOREM PromiseIsKept == ASSUME NumProblems = 1 PROVE Spec => KeepsPromise
<1>1. Init => Promise!Init
  BY DEF Init, Promise!Init
<1>2. IInv /\ PromiseInv /\ [Next]_vars => [Promise!Next]_(Promise!vars)
  BY StepMeetsPromise
<1> QED BY <1>1, <1>2, PromiseInvariant, PTL DEF Spec, KeepsPromise, Promise!Spec
=============================================================================

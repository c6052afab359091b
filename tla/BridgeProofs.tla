--------------------------- MODULE BridgeProofs ---------------------------
(***************************************************************************)
(* Output and exit status are complete when the server closes a client's   *)
(* channel, for any number of requests and any amount of output.           *)
(*                                                                         *)
(* While the client is connected, only A closes its channel, and what A    *)
(* has learned by then must still be true: that the agent is over (Ended), *)
(* so no output and no exit status can follow, and that P1 has copied all  *)
(* there was (Copied).  The server itself closes the agent's channel only  *)
(* on its way out (Leaving), so an agent that is over really has exited.   *)
(***************************************************************************)
EXTENDS Bridge, TLAPS

ClientHere == ~ clientClosed /\ ~ ctxDone

\* The client's requests end only with its channel or its connection.
Leaving == cpc = "over" => ~ ClientHere

\* Nothing but A, or the return of the handler, closes the client's channel.
ClosedByA == closed /\ ClientHere => apc = "over"

\* An agent's channel that is closed under a client that is there has exited.
Ended == agentClosed /\ ClientHere => process = "exited"

\* Only a client that is gone costs the exit status its delivery.
NotLost == exit = "lost" => ~ ClientHere

\* Past its loop, A knows that nothing more will come from the agent.
APast == apc # "select" /\ ClientHere => AgentOver /\ exit \in {"none", "forwarded"}

\* Past its copy, P1 has written all there was and ever will be.
Copied == p1 \in {"send", "over"} /\ ClientHere => AgentOver /\ got = out

BridgeInv ==
  BridgeTypeOK /\ Leaving /\ ClosedByA /\ Ended /\ NotLost /\ APast /\ Copied

\* Both channels have just been opened.
LEMMA BridgeInit == Init => BridgeInv
<1> SUFFICES ASSUME Init PROVE BridgeInv
  OBVIOUS
<1>1. requests \in Seq(ReqType) /\ Len(requests) = 0
  BY DEF Init
<1>2. /\ {agentClosed, agentDead, clientClosed, ctxDone, stalled} \subseteq BOOLEAN
      /\ {closed, finished, returned} \subseteq BOOLEAN
  BY Zenon DEF Init
<1>3. BridgeTypeOK
  BY <1>1, <1>2, BridgeAssumption DEF Init, BridgeTypeOK
<1>4. Leaving /\ ClosedByA /\ Ended /\ NotLost /\ APast /\ Copied
  BY DEF Init, Leaving, ClosedByA, Ended, NotLost, APast, Copied, ClientHere
<1> QED BY <1>3, <1>4 DEF BridgeInv

\* Every step of a goroutine, the client or the agent preserves the invariant.
LEMMA BridgeStep == BridgeInv /\ [Next]_vars => BridgeInv'
<1> SUFFICES ASSUME BridgeInv, [Next]_vars PROVE BridgeInv'
  OBVIOUS
<1> USE BridgeAssumption DEF BridgeInv, Leaving, ClosedByA, Ended, NotLost, APast, Copied,
        ClientHere, AgentOver, ClientOpen, Stuck, BridgeTypeOK, pcVars, reqVars, agentVars,
        clientVars, serverVars
<1>1. ASSUME NEW r \in ReqType, ClientRequests(r) PROVE BridgeInv'
  BY <1>1 DEF ClientRequests
<1>2. CASE ClientEnds
  <2>1. /\ clientClosed' \in BOOLEAN /\ ctxDone' \in BOOLEAN /\ stalled' \in BOOLEAN
        /\ ClientHere' => ClientHere
    BY <1>2 DEF ClientEnds
  <2> QED BY <1>2, <2>1 DEF ClientEnds
<1>3. CASE AgentAnswers
  BY <1>3 DEF AgentAnswers
<1>4. CASE AgentWrites
  BY <1>4 DEF AgentWrites
<1>5. CASE AgentExits
  BY <1>5 DEF AgentExits
<1>6. CASE AgentDies
  BY <1>6 DEF AgentDies
<1>7. CASE G
  BY <1>7 DEF G, GTakes, GEnds
<1>8. CASE AForwards
  BY <1>8 DEF AForwards
<1>9. CASE AEnds
  BY <1>9 DEF AEnds
<1>10. CASE DoneIsPassed
  BY <1>10 DEF DoneIsPassed
<1>11. CASE ACloses
  BY <1>11 DEF ACloses
<1>12. CASE CTakes
  BY <1>12 DEF CTakes
<1>13. CASE CGivesUp
  BY <1>13 DEF CGivesUp
<1>14. CASE CReplies
  BY <1>14 DEF CReplies
<1>15. CASE CEnds
  BY <1>15 DEF CEnds
<1>16. CASE P1Copies
  BY <1>16 DEF P1Copies
<1>17. CASE P1Ends
  BY <1>17 DEF P1Ends
<1>18. CASE P2Ends
  BY <1>18 DEF P2Ends
<1>19. CASE Return
  BY <1>19 DEF Return
<1>20. CASE Finish
  BY <1>20 DEF Finish
<1>21. CASE AgentKeepsAlive
  BY <1>21 DEF AgentKeepsAlive
<1>22. CASE ClientStalls
  BY <1>22 DEF ClientStalls
<1>23. CASE UNCHANGED vars
  BY <1>23 DEF vars
<1> QED
  BY <1>1, <1>2, <1>3, <1>4, <1>5, <1>6, <1>7, <1>8, <1>9, <1>10, <1>11, <1>12, <1>13,
     <1>14, <1>15, <1>16, <1>17, <1>18, <1>19, <1>20, <1>21, <1>22, <1>23
  DEF Next, A, C, P1

\* The invariant holds in every reachable state.
THEOREM BridgeInvariant == Spec => []BridgeInv
  BY BridgeInit, BridgeStep, PTL DEF Spec

\* The goroutines of the bridge keep to their protocol on done
\* (ssh/server/channels/session.go:146-360, utils.go:43-117).
THEOREM BridgeTypeCorrect == Spec => []BridgeTypeOK
  BY BridgeInvariant, PTL DEF BridgeInv

\* The client's channel is not closed before all output was written to it.
THEOREM OutputIsComplete == Spec => []NoTruncation
<1>1. BridgeInv => NoTruncation
  BY DEF BridgeInv, NoTruncation, ClosedByA, Copied, BridgeTypeOK, ClientHere
<1> QED BY <1>1, BridgeInvariant, PTL

\* ... nor before the exit status was passed on.
THEOREM ExitStatusIsPassedOn == Spec => []ExitStatusDelivered
<1>1. BridgeInv => ExitStatusDelivered
  BY DEF BridgeInv, ExitStatusDelivered, ClosedByA, APast, ClientHere
<1> QED BY <1>1, BridgeInvariant, PTL

-----------------------------------------------------------------------------
\* A command's output reaches the client as a stream (Stream), for any amount of
\* it and whatever the goroutines of the bridge are doing meanwhile.
THEOREM BridgeDeliversStream == Spec => OutputIsStream
<1>1. Init => Output!Init
  BY DEF Init, Output!Init
<1>2. BridgeInv /\ BridgeInv' /\ [Next]_vars
        => [Output!Next]_<<out, got, closed, clientClosed \/ ctxDone>>
  <2> SUFFICES ASSUME BridgeInv, BridgeInv', [Next]_vars
               PROVE  [Output!Next]_<<out, got, closed, clientClosed \/ ctxDone>>
    OBVIOUS
  <2>1. CASE AgentWrites
    <3>1. out' \in Nat /\ out' > out /\ UNCHANGED <<got, closed, clientClosed, ctxDone>>
      BY <2>1, BridgeAssumption
      DEF AgentWrites, BridgeInv, BridgeTypeOK, clientVars, serverVars
    <3>2. ~ closed \/ clientClosed \/ ctxDone
      BY <2>1 DEF AgentWrites, BridgeInv, ClosedByA, APast, Ended, AgentOver, ClientHere
    <3> QED BY <3>1, <3>2 DEF Output!Next, Output!Put
  <2>2. CASE P1Copies
    <3>1. got' \in Nat /\ got' > got /\ got' <= out
          /\ UNCHANGED <<out, closed, clientClosed, ctxDone>>
      BY <2>2, BridgeAssumption
      DEF P1Copies, BridgeInv, BridgeTypeOK, agentVars, clientVars
    <3> QED BY <3>1 DEF Output!Next, Output!Get
  <2>3. CASE ACloses \/ Return
    <3>1. closed' = TRUE /\ UNCHANGED <<out, got, clientClosed, ctxDone>>
      BY <2>3 DEF ACloses, Return, agentVars, clientVars
    <3>2. got = out \/ clientClosed \/ ctxDone
      BY <2>3 DEF ACloses, Return, BridgeInv, BridgeTypeOK, Copied, ClientHere
    <3> QED BY <3>1, <3>2 DEF Output!Next, Output!Tell
  <2>4. CASE ClientEnds
    <3>1. (clientClosed \/ ctxDone)' = TRUE /\ UNCHANGED <<out, got, closed>>
      BY <2>4 DEF ClientEnds, agentVars, serverVars
    <3> QED BY <3>1 DEF Output!Next, Output!Leave
  <2>5. CASE UNCHANGED <<out, got, closed, clientClosed, ctxDone>>
    BY <2>5
  <2>6. AgentWrites \/ P1Copies \/ ACloses \/ Return \/ ClientEnds
        \/ UNCHANGED <<out, got, closed, clientClosed, ctxDone>>
    BY DEF Next, vars, ClientRequests, ClientStalls, AgentAnswers, AgentExits,
           AgentKeepsAlive, AgentDies,
           G, GTakes, GEnds, A, AForwards, AEnds, DoneIsPassed, C, CTakes, CGivesUp,
           CReplies, CEnds, P1, P1Ends, P2Ends, Finish, agentVars, clientVars, serverVars
  <2> QED BY <2>1, <2>2, <2>3, <2>4, <2>5, <2>6
<1> QED BY <1>1, <1>2, BridgeInvariant, PTL DEF Spec, OutputIsStream, Output!Spec

-----------------------------------------------------------------------------
(***************************************************************************)
(* Why A and P1 cannot wait for each other for ever on done, as far as     *)
(* that is safety.  The guards of their steps, under names:                *)
(***************************************************************************)
\* One of AForwards, AEnds, DoneIsPassed and ACloses can be taken.
ACanMove ==
  \/ apc = "select" /\ (exit = "queued" \/ ctxDone \/ AgentOver)
  \/ apc = "wait" /\ p1 = "send"
  \/ apc = "close"

\* One of P1Copies and P1Ends can be taken.
P1CanMove ==
  p1 = "copy" /\ (IF got = out THEN AgentOver ELSE got < out /\ (ClientOpen => ~ stalled))

\* P1 is in its write to a client that is there and has stopped reading.
P1Blocked == p1 = "copy" /\ got < out /\ ClientOpen /\ stalled

\* When a command with a pipe is over, its client's channel is closed, or A or P1
\* has a step to take, or the client holds P1 up: done never has a sender or a
\* receiver without a partner.
DoneFindsPartner ==
  AgentOver /\ granted \cap {"pty-req", "exec"} # {}
    => closed \/ ACanMove \/ P1CanMove \/ P1Blocked

\* Whoever was granted a command has a pipe, and A is over only when it has closed.
Piped ==
  /\ granted \cap {"pty-req", "exec"} # {} => p1 # "off"
  /\ apc = "over" => closed

\* Every step preserves it.
LEMMA PipedStep == Piped /\ [Next]_vars => Piped'
<1> SUFFICES ASSUME Piped, [Next]_vars PROVE Piped'
  OBVIOUS
<1> USE DEF Piped, pcVars, reqVars, agentVars, clientVars, serverVars
<1>1. CASE C
  <2>1. CASE CReplies
    <3>1. cur \notin PipeRequests => granted' \cap {"pty-req", "exec"}
                                       = granted \cap {"pty-req", "exec"}
      BY <2>1 DEF CReplies, PipeRequests
    <3>2. p1' \in {p1, "copy"} /\ (cur \in PipeRequests => p1' # "off")
          /\ UNCHANGED <<apc, closed>>
      BY <2>1 DEF CReplies
    <3> QED BY <3>1, <3>2
  <2>2. CASE CTakes \/ CGivesUp \/ CEnds
    BY <2>2 DEF CTakes, CGivesUp, CEnds
  <2> QED BY <1>1, <2>1, <2>2 DEF C
<1>2. CASE A
  BY <1>2 DEF A, AForwards, AEnds, DoneIsPassed, ACloses
<1>3. CASE P1 \/ P2Ends \/ G
  BY <1>3 DEF P1, P1Copies, P1Ends, P2Ends, G, GTakes, GEnds
<1>4. CASE \/ AgentAnswers \/ AgentWrites \/ AgentExits \/ AgentKeepsAlive \/ AgentDies
          \/ ClientEnds \/ ClientStalls \/ \E r \in ReqType : ClientRequests(r)
  BY <1>4
  DEF AgentAnswers, AgentWrites, AgentExits, AgentKeepsAlive, AgentDies, ClientEnds,
      ClientStalls, ClientRequests
<1>5. CASE Return \/ Finish
  BY <1>5 DEF Return, Finish
<1>6. CASE UNCHANGED vars
  BY <1>6 DEF vars
<1> QED BY <1>1, <1>2, <1>3, <1>4, <1>5, <1>6 DEF Next

\* The safety part of CommandEnds, for any number of requests, amount of output and
\* room for keepalives (ssh/server/channels/session.go:203-240, utils.go:43-117).
THEOREM DoneNeverDeadlocks == Spec => []DoneFindsPartner
<1>1. Init => Piped
  BY DEF Init, Piped
<1>2. BridgeInv /\ Piped => DoneFindsPartner
  <2> SUFFICES ASSUME BridgeInv, Piped, AgentOver, granted \cap {"pty-req", "exec"} # {}
               PROVE  closed \/ ACanMove \/ P1CanMove \/ P1Blocked
    BY DEF DoneFindsPartner
  <2>1. p1 \in {"copy", "send", "over"} /\ (apc = "over" => closed)
    BY DEF BridgeInv, BridgeTypeOK, Piped
  <2>2. CASE apc = "wait" /\ p1 = "copy"
    BY <2>2 DEF BridgeInv, BridgeTypeOK, P1CanMove, P1Blocked
  <2>3. CASE apc # "wait" \/ p1 # "copy"
    BY <2>1, <2>3 DEF BridgeInv, BridgeTypeOK, ACanMove
  <2> QED BY <2>2, <2>3
<1> QED BY <1>1, <1>2, PipedStep, BridgeInvariant, PTL DEF Spec

=============================================================================

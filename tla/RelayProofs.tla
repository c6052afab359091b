---------------------------- MODULE RelayProofs ----------------------------
(***************************************************************************)
(* For any amount of data and any number of forwarded channels, no relay   *)
(* loses data of an end whose peer is still there, but for what a proxy's  *)
(* Hijack leaves behind.  That is inductive with the types once it is      *)
(* known that only a proxy closes an end while it relays or drops data,    *)
(* and that there are copies only between two opened ends and no data of   *)
(* another (ClosePolicy).  From the same invariant, each direction of a    *)
(* forwarded TCP connection is a Stream: what is closed has got            *)
(* everything.                                                             *)
(***************************************************************************)
EXTENDS Relay, TLAPS

ClosePolicy ==
  /\ h = "relay" /\ kind # "proxy" => closed = {}
  /\ kind # "proxy" => dropped = 0 /\ \A x \in Side : copier[x] # "done"
  /\ \A x \in Side : IF copier[x] = "off" THEN passed[x] = 0 /\ dropped = 0
                                         ELSE opened = Side
  /\ kind # "proxy" => \A x \in Side : x \notin opened => sent[x] = 0

RelayInv == RelayTypeOK /\ ClosePolicy /\ NothingLost

\* Nothing was opened.
LEMMA RelayInit == Init => RelayInv
<1> SUFFICES ASSUME Init PROVE RelayInv
  OBVIOUS
<1>1. {conn, jammed, finished} \subseteq BOOLEAN
  BY Zenon DEF Init
<1> QED
  BY <1>1, RelayAssumption
  DEF Init, RelayInv, RelayTypeOK, ClosePolicy, NothingLost, Zero, Off, AllOpen, Side

\* Every step of the handler, its copies, the ends or the connections preserves it.
LEMMA RelayStep == RelayInv /\ [Next]_vars => RelayInv'
<1> SUFFICES ASSUME RelayInv, [Next]_vars PROVE RelayInv'
  OBVIOUS
<1> USE RelayAssumption
    DEF RelayInv, RelayTypeOK, ClosePolicy, NothingLost, AllPassed, Left, endVars, dataVars,
        connVars, Other, Side
<1>1. CASE HandleChannelOpen
  BY <1>1 DEF HandleChannelOpen
<1>2. CASE OpenAgent
  BY <1>2 DEF OpenAgent, Off
<1>3. CASE OpenClient \/ Hijack
  <2>1. CASE OpenClient
    BY <2>1 DEF OpenClient, Off
  <2>2. CASE Hijack
    BY <2>2 DEF Hijack, Off
  <2> QED BY <1>3, <2>1, <2>2
<1>4. CASE DialFails \/ OpenFails \/ ChannelsEnd
  <2>1. CASE DialFails
    BY <2>1 DEF DialFails, ForwardRefused, ProxyDialFails, Off
  <2>2. CASE OpenFails
    <3>1. /\ h = "dialed" /\ h' = "returned" /\ closed' = {"agent"} /\ kept' \in Nat
          /\ UNCHANGED <<kind, opened, end, stalled, dataVars, connVars>>
      BY <2>2 DEF OpenFails, AcceptFails, ClientRefuses, HijackFails
    <3>2. \A x \in Side : copier[x] = "off"
      BY <3>1 DEF Off
    <3> QED BY <3>1, <3>2
  <2>3. CASE ChannelsEnd
    BY <2>3 DEF ChannelsEnd, Off
  <2> QED BY <1>4, <2>1, <2>2, <2>3
<1>5. ASSUME NEW x \in Side, Copies(x) PROVE RelayInv'
  BY <1>5 DEF Copies, Off
<1>6. ASSUME NEW x \in Side, CopyEnds(x) PROVE RelayInv'
  <2>1. /\ wclosed' \subseteq opened /\ copier' \in [Side -> {"off", "copy", "over", "done"}]
        /\ h = "relay" /\ copier'[x] = "over"
        /\ \A y \in Side : y # x => copier'[y] = copier[y]
    BY <1>6 DEF CopyEnds
  <2>2. UNCHANGED <<kind, h, opened, closed, kept, end, stalled, sent, passed, dropped, connVars>>
    BY <1>6 DEF CopyEnds
  <2>3. RelayTypeOK'
    BY <2>1, <2>2
  <2>4. ClosePolicy'
    BY <2>1, <2>2
  <2>5. /\ ~ Left(Other(x)) /\ (kind = "proxy" => closed = {} /\ end[x] # "gone")
        => AllPassed(x) /\ end[x] # "open"
    BY <1>6, <2>1 DEF CopyEnds, CopyOver
  <2>6. NothingLost'
    BY <2>1, <2>2, <2>5
  <2> QED BY <2>3, <2>4, <2>6
<1>7. ASSUME NEW x \in Side, Done(x) PROVE RelayInv'
  BY <1>7 DEF Done, Off
<1>8. CASE ForwardReturns \/ ProxyReturns
  BY <1>8 DEF ForwardReturns, ProxyReturns, BothOver
<1>9. CASE NextChannel
  BY <1>9 DEF NextChannel, BothOver, Off, Zero, AllOpen
<1>10. ASSUME NEW x \in Side, Sends(x) PROVE RelayInv'
  BY <1>10 DEF Sends, Seen, Present, Off
<1>11. ASSUME NEW x \in Side, Ends(x) PROVE RelayInv'
  BY <1>11 DEF Ends, Seen
<1>12. ASSUME NEW x \in Side, Stalls(x) PROVE RelayInv'
  BY <1>12 DEF Stalls
<1>13. CASE ClientConnEnds
  BY <1>13 DEF ClientConnEnds, EndGone
<1>14. CASE AgentDrops \/ AgentConnEnds
  BY <1>14 DEF AgentDrops, AgentConnEnds, EndGone
<1>15. CASE Finish \/ ReaderJams \/ ReaderResumes
  <2>1. {conn', jammed', finished'} \subseteq BOOLEAN
    BY <1>15, Zenon DEF Finish, ReaderJams, ReaderResumes
  <2>2. UNCHANGED <<kind, h, endVars, stalled, dataVars, agent>>
    BY <1>15 DEF Finish, ReaderJams, ReaderResumes
  <2> QED BY <2>1, <2>2
<1>16. CASE UNCHANGED vars
  BY <1>16 DEF vars
<1> QED
  BY <1>1, <1>2, <1>3, <1>4, <1>5, <1>6, <1>7, <1>8, <1>9, <1>10, <1>11, <1>12, <1>13,
     <1>14, <1>15, <1>16
  DEF Next, Handler, Copy

\* The invariant holds in every reachable state.
THEOREM RelayInvariant == Spec => []RelayInv
  BY RelayInit, RelayStep, PTL DEF Spec

\* Copies run only between two ends that are open (ssh/server/channels/tcpip.go,
\* ssh/server/channels/utils.go:120, agent/pkg/agent/agent.go:482).
THEOREM RelayTypeCorrect == Spec => []RelayTypeOK
  BY RelayInvariant, PTL DEF RelayInv

\* Forwarded connections and forwarded agents lose nothing, and a proxy, of the
\* direction that ends first, nothing but what was in Hijack's reader (agent.go:504).
THEOREM RelayLosesNothing == Spec => []NothingLost
  BY RelayInvariant, PTL DEF RelayInv

-----------------------------------------------------------------------------
\* A handler does not change into one of another kind.
LEMMA KindStays == [Next]_vars => kind' = kind
  BY DEF Next, Handler, HandleChannelOpen, ForwardReturns, ProxyReturns, NextChannel,
         OpenAgent, OpenClient, Hijack, DialFails, OpenFails, ForwardRefused, ProxyDialFails,
         AcceptFails, ClientRefuses, HijackFails, ChannelsEnd, Copy, Copies, CopyEnds, Done,
         Sends, Ends, Stalls, ClientConnEnds, AgentDrops, AgentConnEnds, ReaderJams,
         ReaderResumes, Finish, vars

\* What one step does to the data from end x of a forwarded TCP connection and to
\* the end it goes to: a chunk comes in, a chunk is passed on, the end is closed
\* with all of it, the end leaves, or nothing of that.
LEMMA ForwardStep ==
  ASSUME RelayInv, [Next]_vars, kind = "tcpip", NEW x \in Side
  PROVE  /\ kind' = kind
         /\ \/ /\ Other(x) \notin closed /\ sent'[x] = sent[x] + 1
               /\ passed'[x] = passed[x] /\ closed' = closed
               /\ Left(Other(x))' <=> Left(Other(x))
            \/ /\ passed'[x] = passed[x] + 1 /\ passed[x] < sent[x]
               /\ sent' = sent /\ closed' = closed
               /\ Left(Other(x))' <=> Left(Other(x))
            \/ /\ passed[x] = sent[x] \/ Left(Other(x))
               /\ Other(x) \in closed' /\ sent' = sent /\ passed' = passed
               /\ Left(Other(x))' <=> Left(Other(x))
            \/ /\ Left(Other(x))'
               /\ sent' = sent /\ passed' = passed /\ closed' = closed
            \/ /\ sent'[x] = sent[x] /\ passed'[x] = passed[x]
               /\ Other(x) \in closed' <=> Other(x) \in closed
               /\ Left(Other(x))' <=> Left(Other(x))
<1> USE RelayAssumption
    DEF RelayInv, RelayTypeOK, ClosePolicy, Left, endVars, dataVars, connVars, Other, Side
<1>1. CASE \/ HandleChannelOpen \/ OpenAgent \/ OpenClient \/ Hijack \/ NextChannel
          \/ Finish \/ ReaderJams \/ ReaderResumes \/ UNCHANGED vars
          \/ \E y \in Side : CopyEnds(y) \/ Done(y) \/ Stalls(y)
  BY <1>1
  DEF HandleChannelOpen, OpenAgent, OpenClient, Hijack, NextChannel, Finish, ReaderJams,
      ReaderResumes, vars, CopyEnds, Done, Stalls
<1>2. CASE DialFails \/ OpenFails \/ ChannelsEnd
  BY <1>2 DEF DialFails, OpenFails, ForwardRefused, ProxyDialFails, AcceptFails, ClientRefuses,
              HijackFails, ChannelsEnd
<1>3. CASE ForwardReturns \/ ProxyReturns
  BY <1>3 DEF ForwardReturns, ProxyReturns, BothOver, NothingLost, AllPassed
<1>4. ASSUME NEW y \in Side, Copies(y)
      PROVE  /\ kind' = kind /\ sent' = sent /\ closed' = closed
             /\ end' = end /\ agent' = agent
             /\ IF y = x THEN passed'[x] = passed[x] + 1 /\ passed[x] < sent[x]
                         ELSE passed'[x] = passed[x]
  BY <1>4 DEF Copies, AllPassed
<1>5. ASSUME NEW y \in Side, Sends(y)
      PROVE  /\ kind' = kind /\ passed' = passed /\ closed' = closed /\ closed = {}
             /\ end' = end /\ agent' = agent
             /\ IF y = x THEN sent'[x] = sent[x] + 1 ELSE sent'[x] = sent[x]
  BY <1>5 DEF Sends, Seen, Present
<1>6. ASSUME NEW y \in Side, Ends(y)
      PROVE  /\ kind' = kind /\ sent' = sent /\ passed' = passed /\ closed' = closed
             /\ \/ Left(Other(x))'
                \/ Left(Other(x))' <=> Left(Other(x))
  BY <1>6 DEF Ends
<1>7. CASE ClientConnEnds \/ AgentDrops \/ AgentConnEnds
  BY <1>7 DEF ClientConnEnds, AgentDrops, AgentConnEnds, EndGone
<1> QED
  BY <1>1, <1>2, <1>3, <1>4, <1>5, <1>6, <1>7 DEF Next, Handler, Copy

\* What an end of a forwarded TCP connection gets is what the other one sent, and
\* it is closed only on all of it, for any amount of data and whenever the
\* copies, the ends and the two connections end (ssh/server/channels/tcpip.go).
THEOREM ForwardDeliversStreams == Spec => ForwardIsStream
<1> USE DEF Side, Other
<1>1. Init => FromClient!Init /\ FromAgent!Init
  BY DEF Init, FromClient!Init, FromAgent!Init, Zero, AllOpen, Left
<1>2. ASSUME RelayInv, [Next]_vars
      PROVE  [FromClient!Next]_<<IF kind = "tcpip" THEN sent["client"] ELSE 0,
                 IF kind = "tcpip" THEN passed["client"] ELSE 0,
                 kind = "tcpip" /\ "agent" \in closed,
                 kind = "tcpip" /\ Left("agent")>>
  <2>1. CASE kind # "tcpip"
    BY <1>2, <2>1, KindStays
  <2>2. CASE kind = "tcpip"
    <3>1. sent["client"] \in Nat /\ passed["client"] \in Nat /\ kind' = "tcpip"
      BY <1>2, <2>2, KindStays, RelayAssumption DEF RelayInv, RelayTypeOK
    <3>2. CASE /\ "agent" \notin closed /\ sent'["client"] = sent["client"] + 1
               /\ passed'["client"] = passed["client"] /\ closed' = closed
               /\ Left("agent")' <=> Left("agent")
      BY <2>2, <3>1, <3>2 DEF FromClient!Next, FromClient!Put
    <3>3. CASE /\ passed'["client"] = passed["client"] + 1 /\ passed["client"] < sent["client"]
               /\ sent' = sent /\ closed' = closed
               /\ Left("agent")' <=> Left("agent")
      BY <2>2, <3>1, <3>3 DEF FromClient!Next, FromClient!Get
    <3>4. CASE /\ passed["client"] = sent["client"] \/ Left("agent")
               /\ "agent" \in closed' /\ sent' = sent /\ passed' = passed
               /\ Left("agent")' <=> Left("agent")
      BY <2>2, <3>1, <3>4 DEF FromClient!Next, FromClient!Tell
    <3>5. CASE /\ Left("agent")'
               /\ sent' = sent /\ passed' = passed /\ closed' = closed
      BY <2>2, <3>1, <3>5 DEF FromClient!Next, FromClient!Leave
    <3>6. CASE /\ sent'["client"] = sent["client"] /\ passed'["client"] = passed["client"]
               /\ "agent" \in closed' <=> "agent" \in closed
               /\ Left("agent")' <=> Left("agent")
      BY <2>2, <3>1, <3>6
    <3> QED BY <1>2, <2>2, <3>2, <3>3, <3>4, <3>5, <3>6, ForwardStep
  <2> QED BY <2>1, <2>2
<1>3. ASSUME RelayInv, [Next]_vars
      PROVE  [FromAgent!Next]_<<IF kind = "tcpip" THEN sent["agent"] ELSE 0,
                 IF kind = "tcpip" THEN passed["agent"] ELSE 0,
                 kind = "tcpip" /\ "client" \in closed,
                 kind = "tcpip" /\ Left("client")>>
  <2>1. CASE kind # "tcpip"
    BY <1>3, <2>1, KindStays
  <2>2. CASE kind = "tcpip"
    <3>1. sent["agent"] \in Nat /\ passed["agent"] \in Nat /\ kind' = "tcpip"
      BY <1>3, <2>2, KindStays, RelayAssumption DEF RelayInv, RelayTypeOK
    <3>2. CASE /\ "client" \notin closed /\ sent'["agent"] = sent["agent"] + 1
               /\ passed'["agent"] = passed["agent"] /\ closed' = closed
               /\ Left("client")' <=> Left("client")
      BY <2>2, <3>1, <3>2 DEF FromAgent!Next, FromAgent!Put
    <3>3. CASE /\ passed'["agent"] = passed["agent"] + 1 /\ passed["agent"] < sent["agent"]
               /\ sent' = sent /\ closed' = closed
               /\ Left("client")' <=> Left("client")
      BY <2>2, <3>1, <3>3 DEF FromAgent!Next, FromAgent!Get
    <3>4. CASE /\ passed["agent"] = sent["agent"] \/ Left("client")
               /\ "client" \in closed' /\ sent' = sent /\ passed' = passed
               /\ Left("client")' <=> Left("client")
      BY <2>2, <3>1, <3>4 DEF FromAgent!Next, FromAgent!Tell
    <3>5. CASE /\ Left("client")'
               /\ sent' = sent /\ passed' = passed /\ closed' = closed
      BY <2>2, <3>1, <3>5 DEF FromAgent!Next, FromAgent!Leave
    <3>6. CASE /\ sent'["agent"] = sent["agent"] /\ passed'["agent"] = passed["agent"]
               /\ "client" \in closed' <=> "client" \in closed
               /\ Left("client")' <=> Left("client")
      BY <2>2, <3>1, <3>6
    <3> QED BY <1>3, <2>2, <3>2, <3>3, <3>4, <3>5, <3>6, ForwardStep
  <2> QED BY <2>1, <2>2
<1> QED
  BY <1>1, <1>2, <1>3, RelayInvariant, PTL
  DEF Spec, ForwardIsStream, FromClient!Spec, FromAgent!Spec

=============================================================================

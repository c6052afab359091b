------------------------------- MODULE Relay -------------------------------
(***************************************************************************)
(* The relays of raw data besides the session channel's: a handler opens   *)
(* two ends, copies in both directions, and closes what it opened.         *)
(*   tcpip  DefaultDirectTCPIPHandler (ssh/server/channels/tcpip.go): dials *)
(*          through the agent, accepts the client's channel, waits for both *)
(*          copies, closes both ends;                                      *)
(*   hose   the agent-forwarding goroutine of DefaultSessionHandler with   *)
(*          hose (session.go, utils.go): for each channel the agent opens, *)
(*          one after the other, it opens one to the client; each copy     *)
(*          passes its end on (CloseWrite); the channels stay open until   *)
(*          the goroutine ends, with the agent connection;                 *)
(*   proxy  httpProxyHandler (agent/pkg/agent/agent.go): dials an address  *)
(*          on the device, takes over the tunnel's connection, and the     *)
(*          first copy that ends closes both.                              *)
(* The ends are called "client" and "agent"; a proxy's are the tunnel's    *)
(* connection and the device's service.  An SSH channel that was closed    *)
(* can still be read to the end of its data, a TCP connection that was     *)
(* reset cannot.  Data is counted in chunks that have reached the program. *)
(*                                                                         *)
(* The agent connection of the first two is the session channels' too, and *)
(* they may have jammed its reader (Bridge): then nothing of it is seen,   *)
(* its end included.                                                       *)
(***************************************************************************)
EXTENDS Naturals, FiniteSets

CONSTANTS MaxData,   \* bound on the chunks an end sends
          MaxChans   \* bound on the channels that agent forwarding relays

ASSUME RelayAssumption == MaxData \in Nat /\ MaxChans \in Nat

Side == {"client", "agent"}
Other(x) == IF x = "client" THEN "agent" ELSE "client"

VARIABLES
  kind,      \* which of the handlers it is
  h,         \* where the handler is
  opened,    \* the ends it has opened
  closed,    \* the ends it has closed
  kept,      \* ends of earlier channels that a hose holds open
  end,       \* what each end was seen to do: open, eof (sends no more), gone
  stalled,   \* the ends that read no more though they are there
  sent,      \* chunks that have come from each end
  passed,    \* ... and have been written to the other one
  dropped,   \* chunks from a proxy's client thrown away with Hijack's reader
  copier,    \* the goroutine that copies from each end
  wclosed,   \* the ends that were told by CloseWrite that this is all
  conn,      \* the client's SSH connection is up
  agent,     \* the connection to the agent: up, cut (its end is not seen), down
  jammed,    \* the reader of that connection is blocked
  finished   \* Finish was called

endVars == <<opened, closed, kept, end>>
dataVars == <<sent, passed, dropped, copier, wclosed>>
connVars == <<conn, agent, jammed, finished>>
vars == <<kind, h, endVars, stalled, dataVars, connVars>>

Zero == [x \in Side |-> 0]
Off == [x \in Side |-> "off"]
AllOpen == [x \in Side |-> "open"]

\* The ends that can act: a proxy's client talks to the HTTP server before it is
\* taken over.
Present(x) ==
  x \in opened \/ (kind = "proxy" /\ x = "client" /\ h \in {"start", "dialed"})

\* Writes to the end may fail.
Left(x) == end[x] = "gone" \/ (x = "agent" /\ agent # "up")

\* What there is to copy from x was copied.
AllPassed(x) == sent[x] = passed[x] + (IF x = "client" THEN dropped ELSE 0)

\* Every value has its type; copies run between two opened ends and a handler
\* that relays has both; no end is closed or told the end that was not opened.
RelayTypeOK ==
  /\ kind \in {"tcpip", "hose", "proxy"}
  /\ h \in {"start", "receive", "never", "dialed", "relay", "returned"}
  /\ opened \subseteq Side /\ closed \subseteq opened /\ wclosed \subseteq opened
  /\ kept \in Nat /\ stalled \subseteq Side
  /\ end \in [Side -> {"open", "eof", "gone"}]
  /\ sent \in [Side -> 0..MaxData] /\ passed \in [Side -> 0..MaxData]
  /\ dropped \in 0..MaxData /\ agent \in {"up", "cut", "down"}
  /\ copier \in [Side -> {"off", "copy", "over", "done"}]
  /\ {conn, jammed, finished} \subseteq BOOLEAN
  /\ h = "relay" => opened = Side /\ \A x \in Side : copier[x] # "off"
  /\ h \in {"start", "receive", "never"} => opened = {} /\ copier = Off
  /\ h = "dialed" => opened = {"agent"} /\ copier = Off /\ closed = {}
  /\ passed["client"] + dropped <= sent["client"] /\ passed["agent"] <= sent["agent"]
  /\ \A x \in Side : copier[x] = "copy" => h = "relay"

Init ==
  /\ kind \in {"tcpip", "hose", "proxy"} /\ h = "start"
  /\ opened = {} /\ closed = {} /\ kept = 0 /\ end = AllOpen /\ stalled = {}
  /\ sent = Zero /\ passed = Zero /\ dropped = 0 /\ copier = Off /\ wclosed = {}
  /\ conn = TRUE /\ agent = "up" /\ jammed = FALSE /\ finished = FALSE

-----------------------------------------------------------------------------
(* Setting up.                                                             *)

\* HandleChannelOpen: a second request for agent forwarding on the connection
\* gets nil, and receives from it for ever.
HandleChannelOpen ==
  /\ kind = "hose" /\ h = "start"
  /\ h' \in {"receive", "never"}
  /\ UNCHANGED <<kind, endVars, stalled, dataVars, connVars>>

\* Dial succeeds, or a channel of the agent is accepted.
OpenAgent ==
  /\ h = IF kind = "hose" THEN "receive" ELSE "start"
  /\ kind # "proxy" => agent # "down" /\ ~ jammed
  /\ kept < 2 * MaxChans
  /\ h' = "dialed" /\ opened' = {"agent"}
  /\ UNCHANGED <<kind, closed, kept, end, stalled, dataVars, connVars>>

\* The client's channel is accepted or opened; the copies start.
OpenClient ==
  /\ h = "dialed" /\ kind # "proxy" /\ conn
  /\ h' = "relay" /\ opened' = Side /\ copier' = [x \in Side |-> "copy"]
  /\ UNCHANGED <<kind, closed, kept, end, stalled, sent, passed, dropped, wclosed, connVars>>

\* The tunnel's connection is hijacked after the answer.  What the HTTP server has
\* read of it by then is in the reader that Hijack returns and nobody looks at.
Hijack ==
  /\ h = "dialed" /\ kind = "proxy"
  /\ dropped' \in 0..sent["client"]
  /\ h' = "relay" /\ opened' = Side /\ copier' = [x \in Side |-> "copy"]
  /\ UNCHANGED <<kind, closed, kept, end, stalled, sent, passed, wclosed, connVars>>

(* Setting up fails, on each path with the closes that are deferred by then. *)

\* tcpip: no data to parse, forwarding not allowed, or Dial fails.
ForwardRefused ==
  /\ kind = "tcpip" /\ h = "start"
  /\ h' = "returned"
  /\ UNCHANGED <<kind, endVars, stalled, dataVars, connVars>>

AcceptFailsLeaking ==
  /\ kind = "tcpip" /\ h = "dialed" /\ ~ conn
  /\ h' = "returned"
  /\ UNCHANGED <<kind, endVars, stalled, dataVars, connVars>>

\* tcpip: the client left before its channel was accepted; agent.Close was deferred.
AcceptFails ==
  /\ kind = "tcpip" /\ h = "dialed" /\ ~ conn
  /\ h' = "returned" /\ closed' = {"agent"}
  /\ UNCHANGED <<kind, opened, kept, end, stalled, dataVars, connVars>>

\* hose: the agent's channels end with its connection, or one cannot be accepted;
\* the closes of all the channels before were put off to here.
ChannelsEnd ==
  /\ h = "receive" /\ agent # "up" /\ ~ jammed
  /\ h' = "returned" /\ kept' = 0
  /\ UNCHANGED <<kind, opened, closed, end, stalled, dataVars, connVars>>

\* hose: OpenChannel fails; agentChannel.Close was deferred too.
ClientRefuses ==
  /\ kind = "hose" /\ h = "dialed"
  /\ h' = "returned" /\ closed' = {"agent"} /\ kept' = 0
  /\ UNCHANGED <<kind, opened, end, stalled, dataVars, connVars>>

\* proxy: no such address, or Dial fails.
ProxyDialFails ==
  /\ kind = "proxy" /\ h = "start"
  /\ h' = "returned"
  /\ UNCHANGED <<kind, endVars, stalled, dataVars, connVars>>

\* proxy: the answer or Hijack fails; in.Close was deferred.
HijackFails ==
  /\ kind = "proxy" /\ h = "dialed"
  /\ h' = "returned" /\ closed' = {"agent"}
  /\ UNCHANGED <<kind, opened, kept, end, stalled, dataVars, connVars>>

-----------------------------------------------------------------------------
(* Relaying.  A copy blocks in a write to an end that does not read.       *)

Copies(x) ==
  /\ copier[x] = "copy" /\ ~ AllPassed(x)
  /\ end[Other(x)] # "gone" /\ Other(x) \notin stalled /\ closed = {}
  /\ passed' = [passed EXCEPT ![x] = @ + 1]
  /\ UNCHANGED <<kind, h, endVars, stalled, sent, dropped, copier, wclosed, connVars>>

\* io.Copy returns: all was passed on, or the destination cannot be written to,
\* or an end was closed by the other copy, or was reset.
CopyOver(x) ==
  \/ AllPassed(x) /\ end[x] # "open"
  \/ ~ AllPassed(x) /\ Left(Other(x))
  \/ closed # {}
  \/ kind = "proxy" /\ end[x] = "gone" /\ (AllPassed(x) \/ Other(x) \notin stalled)

CopyEndsSilently(x) ==
  /\ copier[x] = "copy" /\ CopyOver(x)
  /\ copier' = [copier EXCEPT ![x] = "over"]
  /\ UNCHANGED <<kind, h, endVars, stalled, sent, passed, dropped, wclosed, connVars>>

\* A hose then tells the destination that this is all.
CopyEnds(x) ==
  /\ copier[x] = "copy" /\ CopyOver(x)
  /\ copier' = [copier EXCEPT ![x] = "over"]
  /\ wclosed' = IF kind = "hose" THEN wclosed \cup {Other(x)} ELSE wclosed
  /\ UNCHANGED <<kind, h, endVars, stalled, sent, passed, dropped, connVars>>

DoneOfAnyKind(x) ==
  /\ copier[x] = "over" /\ h = "relay"
  /\ copier' = [copier EXCEPT ![x] = "done"] /\ closed' = Side
  /\ UNCHANGED <<kind, h, opened, kept, end, stalled, sent, passed, dropped, wclosed, connVars>>

DoneClosingNothing(x) ==
  /\ kind = "proxy" /\ copier[x] = "over"
  /\ copier' = [copier EXCEPT ![x] = "done"]
  /\ UNCHANGED <<kind, h, endVars, stalled, sent, passed, dropped, wclosed, connVars>>

\* The proxy's copies call done when they are over: the first call closes both.
Done(x) ==
  /\ kind = "proxy" /\ copier[x] = "over"
  /\ copier' = [copier EXCEPT ![x] = "done"] /\ closed' = Side
  /\ UNCHANGED <<kind, h, opened, kept, end, stalled, sent, passed, dropped, wclosed, connVars>>

BothOver == h = "relay" /\ \A x \in Side : copier[x] \in {"over", "done"}

\* tcpip: wg.Wait returns; client.Close and agent.Close were deferred.
ForwardReturns ==
  /\ BothOver /\ kind = "tcpip"
  /\ h' = "returned" /\ closed' = Side
  /\ UNCHANGED <<kind, opened, kept, end, stalled, dataVars, connVars>>

\* proxy: wg.Wait returns; out.Close and in.Close were deferred.
ProxyReturns ==
  /\ BothOver /\ kind = "proxy"
  /\ h' = "returned" /\ closed' = Side
  /\ UNCHANGED <<kind, opened, kept, end, stalled, dataVars, connVars>>

NextChannelKeepingCopies ==
  /\ BothOver /\ kind = "hose"
  /\ h' = "receive" /\ kept' = kept + 2
  /\ opened' = {} /\ closed' = {} /\ end' = AllOpen /\ stalled' = {}
  /\ sent' = Zero /\ passed' = Zero /\ wclosed' = {}
  /\ UNCHANGED <<kind, dropped, copier, connVars>>

\* hose returns and the next channel of the agent is waited for; closing the two
\* of this one is put off to the end of the goroutine.
NextChannel ==
  /\ BothOver /\ kind = "hose"
  /\ h' = "receive" /\ kept' = kept + 2
  /\ opened' = {} /\ closed' = {} /\ end' = AllOpen /\ stalled' = {}
  /\ sent' = Zero /\ passed' = Zero /\ copier' = Off /\ wclosed' = {}
  /\ UNCHANGED <<kind, dropped, connVars>>

-----------------------------------------------------------------------------
(* The two ends, and the SSH connections that carry them.                  *)

\* What an end does is seen, unless it comes over a jammed connection.
Seen(x) == Present(x) /\ h # "returned" /\ (x = "agent" => ~ jammed)

Sends(x) ==
  /\ Seen(x) /\ end[x] = "open" /\ sent[x] < MaxData
  /\ sent' = [sent EXCEPT ![x] = @ + 1]
  /\ UNCHANGED <<kind, h, endVars, stalled, passed, dropped, copier, wclosed, connVars>>

Ends(x) ==
  /\ Seen(x)
  /\ \/ end[x] = "open" /\ end' = [end EXCEPT ![x] = "eof"]
     \/ end[x] # "gone" /\ end' = [end EXCEPT ![x] = "gone"]
  /\ UNCHANGED <<kind, h, opened, closed, kept, stalled, dataVars, connVars>>

Stalls(x) ==
  /\ Present(x) /\ x \notin stalled /\ h # "returned"
  /\ stalled' = stalled \cup {x}
  /\ UNCHANGED <<kind, h, endVars, dataVars, connVars>>

\* A connection that ends takes its channel with it.
EndGone(x) == IF x \in opened THEN [end EXCEPT ![x] = "gone"] ELSE end

ClientConnEnds ==
  /\ kind # "proxy" /\ conn
  /\ conn' = FALSE /\ end' = EndGone("client")
  /\ UNCHANGED <<kind, h, opened, closed, kept, stalled, dataVars, agent, jammed, finished>>

\* The agent, or the tunnel under it, ends the connection.
AgentDrops ==
  /\ kind # "proxy" /\ agent = "up"
  /\ agent' = "cut"
  /\ UNCHANGED <<kind, h, endVars, stalled, dataVars, conn, jammed, finished>>

\* The reader of the connection comes to its end.
AgentConnEnds ==
  /\ agent = "cut" /\ ~ jammed
  /\ agent' = "down" /\ end' = EndGone("agent")
  /\ UNCHANGED <<kind, h, opened, closed, kept, stalled, dataVars, conn, jammed, finished>>

\* The agent's keepalives fill their queue once the goroutines of the session
\* channels, which take them, have returned: the reader blocks.
ReaderJams ==
  /\ kind # "proxy" /\ agent # "down" /\ ~ jammed
  /\ jammed' = TRUE
  /\ UNCHANGED <<kind, h, endVars, stalled, dataVars, conn, agent, finished>>

\* A session channel that the client opens later takes them again.
ReaderResumes ==
  /\ jammed /\ conn
  /\ jammed' = FALSE
  /\ UNCHANGED <<kind, h, endVars, stalled, dataVars, conn, agent, finished>>

FinishForgotten ==
  /\ ~ conn /\ ~ finished
  /\ UNCHANGED vars

\* conn.Wait returned: what Finish writes makes the agent drop the connection.
Finish ==
  /\ ~ conn /\ ~ finished
  /\ finished' = TRUE
  /\ UNCHANGED <<kind, h, endVars, stalled, dataVars, conn, agent, jammed>>

Copy(x) == Copies(x) \/ CopyEnds(x) \/ Done(x)
Handler == HandleChannelOpen \/ ForwardReturns \/ ProxyReturns \/ NextChannel
DialFails == ForwardRefused \/ ProxyDialFails
OpenFails == AcceptFails \/ ClientRefuses \/ HijackFails

Next ==
  \/ Handler \/ OpenAgent \/ OpenClient \/ Hijack
  \/ DialFails \/ OpenFails \/ ChannelsEnd
  \/ \E x \in Side : Copy(x) \/ Sends(x) \/ Ends(x) \/ Stalls(x)
  \/ ClientConnEnds \/ AgentDrops \/ AgentConnEnds \/ ReaderJams \/ ReaderResumes
  \/ Finish

Spec == Init /\ [][Next]_vars

(***************************************************************************)
(* Fairness: the goroutines run; a dial comes to its end unless the answer *)
(* cannot be read, opening an end does (a client need not answer before    *)
(* its connection is gone); the agent drops a connection that Finish wrote *)
(* on, and a reader that is not blocked sees that.  The ends need not      *)
(* send, read or end.                                                      *)
(***************************************************************************)
FairSpec ==
  /\ Spec
  /\ WF_vars(Handler) /\ \A x \in Side : WF_vars(Copy(x))
  /\ WF_vars(~ jammed /\ DialFails) /\ WF_vars((kind = "hose" => ~ conn) /\ OpenFails)
  /\ WF_vars(agent = "down" /\ ChannelsEnd)
  /\ WF_vars(Finish) /\ WF_vars(finished /\ AgentDrops) /\ WF_vars(AgentConnEnds)

-----------------------------------------------------------------------------
\* A copy that is over has passed on everything that came from its end, but for
\* what was in Hijack's reader, and no more can come, unless the other end has left.
\* For a proxy that goes for the copy that ends first, and an end that was not reset.
NothingLost ==
  \A x \in Side :
    /\ copier[x] \in {"over", "done"} /\ ~ Left(Other(x))
    /\ kind = "proxy" => closed = {} /\ end[x] # "gone"
    => AllPassed(x) /\ end[x] # "open"

\* Each direction of a forwarded TCP connection is a stream: the end it goes to is
\* closed only when it has got all that the other one sent, or has left itself, and
\* nothing is sent after that.  The other relays promise less: a proxy closes both
\* ends for the first that is done, a hose starts again with each channel.
FromClient == INSTANCE Stream WITH
  put <- IF kind = "tcpip" THEN sent["client"] ELSE 0,
  got <- IF kind = "tcpip" THEN passed["client"] ELSE 0,
  told <- kind = "tcpip" /\ "agent" \in closed,
  gone <- kind = "tcpip" /\ Left("agent")

FromAgent == INSTANCE Stream WITH
  put <- IF kind = "tcpip" THEN sent["agent"] ELSE 0,
  got <- IF kind = "tcpip" THEN passed["agent"] ELSE 0,
  told <- kind = "tcpip" /\ "client" \in closed,
  gone <- kind = "tcpip" /\ Left("client")

ForwardIsStream == FromClient!Spec /\ FromAgent!Spec

\* A proxy ends when either of its ends does, the others when both have; only an
\* end that is there and does not read can hold it up.
RelayEnds ==
  /\ h = "relay"
  /\ IF kind = "proxy" THEN \E x \in Side : end[x] # "open" ELSE \A x \in Side : end[x] # "open"
  ~> h # "relay" \/ stalled # {}

\* A hose passes the end of one side on to the other one: the SSH agent's client
\* on the device sees that it was hung up on.
EofPassed ==
  \A x \in Side :
    kind = "hose" /\ h = "relay" /\ end[x] # "open"
      ~> Other(x) \in wclosed \/ end[Other(x)] = "gone" \/ stalled # {} \/ h # "relay"

\* A relay of the server does not outlive the client's connection, whatever its
\* ends do, a stalled agent and a half-open forward included, and on whichever path
\* it ends it has closed what it opened.  Only keepalives that have jammed the agent
\* connection keep it.
EndsWithClient ==
  ~ conn ~> \/ h = "returned" /\ closed = opened /\ kept = 0
            \/ h = "never" \/ jammed

=============================================================================

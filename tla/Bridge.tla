------------------------------ MODULE Bridge ------------------------------
(***************************************************************************)
(* The bridge of one session channel between the SSH client and the agent  *)
(* (ssh/server/channels/session.go and utils.go), from the moment both     *)
(* channels are open.  Its goroutines:                                     *)
(*   G  passes on the agent connection's global requests (keepalive);      *)
(*   A  forwards the agent's channel requests (exit-status), then waits on *)
(*      done before it closes the client's channel;                        *)
(*   C  forwards the client's requests and starts the pipe;                *)
(*   P1 copies the agent's output to the client and then sends on done;    *)
(*   P2 copies the client's input to the agent and then closes it.         *)
(* The handler returns when G, A and C have.  A goroutine started earlier  *)
(* calls Finish when the client's connection ends (SshSession).            *)
(*                                                                         *)
(* Client and agent are external.  Output is counted in chunks: what has   *)
(* reached the server, and what has been written to the client.  A dead    *)
(* agent connection closes its channel, but what has arrived stays         *)
(* readable.  x/crypto reads all packets of the agent connection in one    *)
(* goroutine, which stops when the queue of global requests is full; all   *)
(* session channels of the connection share that queue, and the model is   *)
(* of the last one that is open.                                           *)
(***************************************************************************)
EXTENDS Naturals, Sequences

CONSTANTS MaxReqs,  \* bound on the requests the client sends
          MaxOut,   \* bound on the chunks the command writes
          QueueLen  \* room in sess.Agent.Requests (16 in x/crypto)

ASSUME BridgeAssumption == MaxReqs \in Nat /\ MaxOut \in Nat /\ QueueLen \in Nat

ReqType == {"pty-req", "shell", "exec", "window-change"}

VARIABLES
  gpc, apc, cpc, p1, p2,  \* where the goroutines are
  requests,      \* client.Requests
  sent,          \* requests the client has sent
  cur,           \* the request C is forwarding
  granted,       \* requests the client was told have succeeded
  process,       \* what runs on the agent: none, running, exited
  out,           \* chunks that have arrived from the agent
  got,           \* chunks written to the client
  exit,          \* the exit-status request: none, queued, forwarded, lost
  agentClosed,   \* the agent closed its channel
  agentDead,     \* the agent connection is dead
  globals,       \* global requests that have arrived and G has not taken
  clientClosed,  \* the client closed its channel
  ctxDone,       \* the client's connection is gone, its context cancelled
  stalled,       \* the client is connected and has stopped reading
  closed,        \* client.Close was called
  finished,      \* Finish was called
  returned       \* the handler returned

pcVars == <<gpc, apc, cpc, p1, p2>>
reqVars == <<requests, sent, cur, granted>>
agentVars == <<process, out, exit, agentClosed, agentDead, globals>>
clientVars == <<clientClosed, ctxDone, stalled>>
serverVars == <<got, closed, finished, returned>>
vars == <<pcVars, reqVars, agentVars, clientVars, serverVars>>

AgentOver == agentClosed \/ agentDead
ClientOpen == ~ (clientClosed \/ ctxDone \/ closed)

\* The reader of the agent connection holds a request the queue has no room for.
Stuck == globals > QueueLen

\* Every value has its type, the pipe's two halves start together, nothing is
\* written to the client that did not come from the agent, and A is past its
\* wait on done only if P1 is past its send.
BridgeTypeOK ==
  /\ gpc \in {"select", "over"}
  /\ apc \in {"select", "wait", "close", "over"}
  /\ cpc \in {"select", "sent", "refused", "granted", "over"}
  /\ p1 \in {"off", "copy", "send", "over"} /\ p2 \in {"off", "copy", "over"}
  /\ p1 = "off" <=> p2 = "off"
  /\ apc \in {"close", "over"} <=> p1 = "over"
  /\ requests \in Seq(ReqType) /\ Len(requests) <= sent
  /\ sent \in 0..MaxReqs /\ cur \in ReqType \cup {"none"} /\ granted \subseteq ReqType
  /\ cpc \in {"sent", "refused", "granted"} => cur \in ReqType
  /\ process \in {"none", "running", "exited"}
  /\ out \in 0..MaxOut /\ got \in 0..out
  /\ exit \in {"none", "queued", "forwarded", "lost"}
  /\ globals \in 0..(QueueLen + 1)
  /\ {agentClosed, agentDead, clientClosed, ctxDone, stalled} \subseteq BOOLEAN
  /\ {closed, finished, returned} \subseteq BOOLEAN

Init ==
  /\ gpc = "select" /\ apc = "select" /\ cpc = "select" /\ p1 = "off" /\ p2 = "off"
  /\ requests = <<>> /\ sent = 0 /\ cur = "none" /\ granted = {}
  /\ process = "none" /\ out = 0 /\ exit = "none"
  /\ agentClosed = FALSE /\ agentDead = FALSE /\ globals = 0
  /\ clientClosed = FALSE /\ ctxDone = FALSE /\ stalled = FALSE
  /\ got = 0 /\ closed = FALSE /\ finished = FALSE /\ returned = FALSE

-----------------------------------------------------------------------------
(* The client.                                                             *)

ClientRequests(r) ==
  /\ ~ clientClosed /\ ~ ctxDone /\ sent < MaxReqs
  /\ requests' = Append(requests, r) /\ sent' = sent + 1
  /\ UNCHANGED <<pcVars, cur, granted, agentVars, clientVars, serverVars>>

ClientEnds ==
  /\ \/ ~ clientClosed /\ clientClosed' = TRUE /\ UNCHANGED <<ctxDone, stalled>>
     \/ ~ ctxDone /\ ctxDone' = TRUE /\ stalled' = FALSE /\ UNCHANGED clientClosed
  /\ UNCHANGED <<pcVars, reqVars, agentVars, serverVars>>

\* It reads no more: its channel's window is used up, and its connection may take
\* nothing either.  A client that only pauses is a slow one.
ClientStalls ==
  /\ ~ stalled /\ ~ ctxDone
  /\ stalled' = TRUE
  /\ UNCHANGED <<pcVars, reqVars, agentVars, clientClosed, ctxDone, serverVars>>

-----------------------------------------------------------------------------
(* The agent: one program per channel.  Once it was started keepalives are *)
(* sent for it until the connection ends, also when the program has ended. *)
(* What the agent sends arrives in the order it was sent.                  *)

AgentAnswers ==
  /\ cpc = "sent" /\ ~ AgentOver /\ ~ Stuck
  /\ LET program == cur \in {"shell", "exec"}
         ok == ~ program \/ process = "none"
     IN  /\ cpc' = IF ok THEN "granted" ELSE "refused"
         /\ process' = IF ok /\ program THEN "running" ELSE process
  /\ UNCHANGED <<gpc, apc, p1, p2, reqVars, out, exit, agentClosed, agentDead, globals,
                 clientVars, serverVars>>

AgentWrites ==
  /\ process = "running" /\ ~ agentDead /\ ~ Stuck /\ out < MaxOut
  /\ out' = out + 1
  /\ UNCHANGED <<pcVars, reqVars, process, exit, agentClosed, agentDead, globals,
                 clientVars, serverVars>>

AgentExits ==
  /\ process = "running" /\ ~ agentDead /\ ~ Stuck
  /\ process' = "exited" /\ exit' = "queued" /\ agentClosed' = TRUE
  /\ UNCHANGED <<pcVars, reqVars, out, agentDead, globals, clientVars, serverVars>>

AgentKeepsAlive ==
  /\ process # "none" /\ ~ agentDead /\ ~ Stuck
  /\ globals' = globals + 1
  /\ UNCHANGED <<pcVars, reqVars, process, out, exit, agentClosed, agentDead,
                 clientVars, serverVars>>

AgentDies ==
  /\ ~ agentDead /\ ~ Stuck
  /\ agentDead' = TRUE
  /\ UNCHANGED <<pcVars, reqVars, process, out, exit, agentClosed, globals, clientVars,
                 serverVars>>

-----------------------------------------------------------------------------
(* G.                                                                      *)

\* It takes a keepalive, and ends if it cannot pass it on to the client.
GTakes ==
  /\ gpc = "select" /\ globals > 0
  /\ globals' = globals - 1
  /\ gpc' = IF ClientOpen THEN "select" ELSE "over"
  /\ UNCHANGED <<apc, cpc, p1, p2, reqVars, process, out, exit, agentClosed, agentDead,
                 clientVars, serverVars>>

\* It ends with the context, or with the agent connection.
GEnds ==
  /\ gpc = "select"
  /\ ctxDone \/ (agentDead /\ globals = 0)
  /\ gpc' = "over"
  /\ UNCHANGED <<apc, cpc, p1, p2, reqVars, agentVars, clientVars, serverVars>>

-----------------------------------------------------------------------------
(* A.                                                                      *)

AForwards ==
  /\ apc = "select" /\ exit = "queued"
  /\ exit' = IF ClientOpen THEN "forwarded" ELSE "lost"
  /\ UNCHANGED <<pcVars, reqVars, process, out, agentClosed, agentDead, globals,
                 clientVars, serverVars>>

AEndsAndCloses ==
  /\ apc = "select"
  /\ ctxDone \/ (AgentOver /\ exit # "queued")
  /\ apc' = "over" /\ closed' = TRUE
  /\ UNCHANGED <<gpc, cpc, p1, p2, reqVars, agentVars, clientVars, got, finished,
                 returned>>

\* The loop ends; select may prefer the context to a queued request.
AEnds ==
  /\ apc = "select"
  /\ ctxDone \/ (AgentOver /\ exit # "queued")
  /\ apc' = "wait"
  /\ UNCHANGED <<gpc, cpc, p1, p2, reqVars, agentVars, clientVars, serverVars>>

\* done has no buffer: P1's send and A's receive are one step.
DoneIsPassed ==
  /\ apc = "wait" /\ p1 = "send"
  /\ apc' = "close" /\ p1' = "over"
  /\ UNCHANGED <<gpc, cpc, p2, reqVars, agentVars, clientVars, serverVars>>

ACloses ==
  /\ apc = "close"
  /\ apc' = "over" /\ closed' = TRUE
  /\ UNCHANGED <<gpc, cpc, p1, p2, reqVars, agentVars, clientVars, got, finished,
                 returned>>

-----------------------------------------------------------------------------
(* C.                                                                      *)

\* SendRequest fails on a closed channel, and a window change wants no reply.
CTakes ==
  /\ cpc = "select" /\ requests # <<>>
  /\ requests' = Tail(requests)
  /\ IF AgentOver \/ Head(requests) = "window-change"
     THEN UNCHANGED <<cpc, cur>>
     ELSE cpc' = "sent" /\ cur' = Head(requests)
  /\ UNCHANGED <<gpc, apc, p1, p2, sent, granted, agentVars, clientVars, serverVars>>

\* The agent's channel closes before the answer: no reply, no pipe.
CGivesUp ==
  /\ cpc = "sent" /\ AgentOver
  /\ cpc' = "select" /\ cur' = "none"
  /\ UNCHANGED <<gpc, apc, p1, p2, requests, sent, granted, agentVars, clientVars,
                 serverVars>>

PipeRequestsButExec == {"pty-req", "subsystem"}

\* Requests after which the data is piped.  A subsystem is served like exec and
\* is not sent here besides it.
PipeRequests == {"pty-req", "exec", "subsystem"}

\* The client is told the agent's answer; oncePipe starts P1 and P2.
CReplies ==
  /\ cpc \in {"granted", "refused"}
  /\ granted' = IF cpc = "granted" THEN granted \cup {cur} ELSE granted
  /\ cpc' = "select" /\ cur' = "none"
  /\ IF cur \in PipeRequests /\ p1 = "off"
     THEN p1' = "copy" /\ p2' = "copy" ELSE UNCHANGED <<p1, p2>>
  /\ UNCHANGED <<gpc, apc, requests, sent, agentVars, clientVars, serverVars>>

CEnds ==
  /\ cpc = "select"
  /\ ctxDone \/ (clientClosed /\ requests = <<>>)
  /\ cpc' = "over"
  /\ UNCHANGED <<gpc, apc, p1, p2, reqVars, agentVars, clientVars, serverVars>>

-----------------------------------------------------------------------------
(* The pipe.                                                               *)

\* io.Copy blocks in its write to a client that does not read, until the channel
\* or the connection ends.
P1Copies ==
  /\ p1 = "copy" /\ got < out /\ ClientOpen /\ ~ stalled
  /\ got' = got + 1
  /\ UNCHANGED <<pcVars, reqVars, agentVars, clientVars, closed, finished, returned>>

P1EndsSilently ==
  /\ p1 = "copy"
  /\ \/ got = out /\ AgentOver /\ p1' = "send"
     \/ got < out /\ ~ ClientOpen /\ p1' = "over"
  /\ UNCHANGED <<gpc, apc, cpc, p2, reqVars, agentVars, clientVars, serverVars>>

P1EndsAndCloses ==
  /\ p1 = "copy" /\ got = out /\ AgentOver
  /\ p1' = "send" /\ closed' = TRUE
  /\ UNCHANGED <<gpc, apc, cpc, p2, reqVars, agentVars, clientVars, got, finished,
                 returned>>

\* The agent's data is at its end, or the client cannot be written to: done is
\* sent either way.
P1Ends ==
  /\ p1 = "copy"
  /\ IF got = out THEN AgentOver ELSE ~ ClientOpen
  /\ p1' = "send"
  /\ UNCHANGED <<gpc, apc, cpc, p2, reqVars, agentVars, clientVars, serverVars>>

\* The client's input has ended (its EOF may come at any time), or the agent
\* cannot be written to; the agent's channel is closed for writing.
P2Ends ==
  /\ p2 = "copy"
  /\ p2' = "over"
  /\ UNCHANGED <<gpc, apc, cpc, p1, reqVars, agentVars, clientVars, serverVars>>

-----------------------------------------------------------------------------
\* wg.Wait returns; the deferred calls close both channels.
Return ==
  /\ ~ returned /\ gpc = "over" /\ apc = "over" /\ cpc = "over"
  /\ returned' = TRUE /\ closed' = TRUE /\ agentClosed' = TRUE
  /\ UNCHANGED <<pcVars, reqVars, process, out, exit, agentDead, globals, clientVars, got,
                 finished>>

\* The connection is gone: what Finish writes ends the agent connection.
Finish ==
  /\ ctxDone /\ ~ finished
  /\ finished' = TRUE
  /\ UNCHANGED <<pcVars, reqVars, agentVars, clientVars, got, closed, returned>>

G == GTakes \/ GEnds
A == AForwards \/ AEnds \/ DoneIsPassed \/ ACloses
C == CTakes \/ CGivesUp \/ CReplies \/ CEnds
P1 == P1Copies \/ P1Ends

Next ==
  \/ \E r \in ReqType : ClientRequests(r)
  \/ ClientEnds \/ ClientStalls
  \/ AgentAnswers \/ AgentWrites \/ AgentExits \/ AgentKeepsAlive \/ AgentDies
  \/ G \/ A \/ C \/ P1 \/ P2Ends \/ Return \/ Finish

Spec == Init /\ [][Next]_vars

(***************************************************************************)
(* Fairness: the goroutines run when they can, and so does the agent's SSH *)
(* server: it answers requests, and drops a connection that Finish wrote   *)
(* on (the keepalives it sent before that are finitely many, hence strong  *)
(* fairness).  A client that has stalled may block whoever writes to it,   *)
(* for as long as its connection lasts.  The client's input need not end,  *)
(* and the command may run, and be silent, for ever.                       *)
(***************************************************************************)
FairSpec ==
  /\ Spec
  /\ WF_vars(~ stalled /\ G) /\ WF_vars(~ stalled /\ A)
  /\ WF_vars(~ stalled /\ C) /\ WF_vars(~ stalled /\ P1)
  /\ WF_vars(Return) /\ WF_vars(Finish)
  /\ SF_vars(AgentAnswers) /\ SF_vars(finished /\ AgentDies)

-----------------------------------------------------------------------------
\* The server closes a client's channel only when every chunk of the command's
\* output that reached it has been written to the client: A waits on done.
NoTruncation == closed /\ ~ clientClosed /\ ~ ctxDone => got = out

\* ... and only when the exit status that arrived has been passed on: the data
\* reaching its end does not close the channel under A's feet.
ExitStatusDelivered ==
  closed /\ ~ clientClosed /\ ~ ctxDone => exit \in {"none", "forwarded"}

\* Seen from the client, the command's output is a stream: nothing is made up, the
\* channel is closed on all of it, and the agent has no more to say after that.
Output == INSTANCE Stream
  WITH put <- out, told <- closed, gone <- clientClosed \/ ctxDone

OutputIsStream == Output!Spec

\* When a command with a pipe is over, the channel of a client that reads gets
\* closed: A and P1 meet on done whichever comes first.
CommandEnds ==
  AgentOver /\ granted \cap {"pty-req", "exec"} # {}
    ~> closed \/ clientClosed \/ ctxDone \/ stalled

\* Keepalives nobody takes any more have stopped the agent connection's reader.
Jammed == Stuck /\ gpc = "over"

\* Once the pipe was started, the end of the client's connection ends the
\* handler, even if the command never writes and never exits and the client had
\* stopped reading; only keepalives that have jammed the agent connection keep it.
HandlerReturns == ctxDone /\ p1 # "off" ~> returned \/ Jammed

\* "a custom request type that the Agent sends to maintain the session alive,
\* even when no data is sent" (ssh/server/channels/session.go:53): keepalives do
\* not bring the agent connection to a halt under a connected client.
KeepAliveKeepsServing == Jammed => ctxDone

=============================================================================

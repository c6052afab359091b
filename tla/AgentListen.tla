---------------------------- MODULE AgentListen ----------------------------
(***************************************************************************)
(* The agent library's Listen (agent/pkg/agent/agent.go) with the tunnel   *)
(* it serves (agent/pkg/agent/pkg/tunnel).  Its goroutines:                *)
(*   main  waits for the context, then calls Close;                        *)
(*   loop  connects to the server, reports true on a.listening, serves the *)
(*         tunnel until it breaks, reports false, and starts again;        *)
(*   ping  makes a.listening, waits for the first report, then pings on a  *)
(*         ticker that the reports start and stop.                         *)
(* Close may also be called by the program that uses the library.  Listen  *)
(* is called when Initialize has returned (AgentIdentity), and everything  *)
(* here ends with the process.                                             *)
(*                                                                         *)
(* a.listening is nil until ping has made it, and a send on a nil channel  *)
(* blocks for ever; once made, it has no buffer, so a report is one step   *)
(* of loop and ping together.                                              *)
(***************************************************************************)
EXTENDS Integers, AgentIdentity

CONSTANT Timeouts  \* values of MaxRetryConnectionTimeout that agents are created with

\* NewAgent leaves it 0 and NewAgentWithConfig takes any; only LoadConfigFromEnv
\* applies validate:"min=10,max=120".
ASSUME ConfigAssumption == Timeouts \subseteq Int

VARIABLES
  loop,       \* where the loop goroutine is
  ping,       \* where ping is
  main,       \* where Listen itself is
  closer,     \* where a Close called from outside is
  made,       \* a.listening has been made
  ticker,     \* ping's ticker: none, running, stopped
  listener,   \* the loop's reverse listener: none, open, broken
  closed,     \* a.closed
  srvClosed,  \* the tunnel's http.Server is closed
  cancelled,  \* the caller's context is cancelled
  stopped,    \* the loop cancelled Listen's own context
  panicked,   \* ping panicked: the whole agent is down
  maxRetry    \* a.config.MaxRetryConnectionTimeout of this process

pcVars == <<loop, ping, main, closer>>
flags == <<closed, srvClosed, cancelled, stopped, panicked>>
listenVars == <<pcVars, made, ticker, listener, flags, maxRetry>>
vars == <<identityVars, listenVars>>

\* Every value has its type, and the loop holds a reverse listener exactly from
\* a successful connect to the end of Serve.
ListenTypeOK ==
  /\ IdentityTypeOK
  /\ loop \in {"top", "connect", "reportTrue", "serve", "reportFalse", "over", "nilSend"}
  /\ ping \in {"start", "first", "check", "select", "authorize", "over"}
  /\ main \in {"wait", "closing", "returned"} /\ closer \in {"none", "closing", "done"}
  /\ ticker \in {"none", "running", "stopped"} /\ listener \in {"none", "open", "broken"}
  /\ {made, closed, srvClosed, cancelled, stopped, panicked} \subseteq BOOLEAN
  /\ maxRetry \in Timeouts
  /\ listener # "none" <=> loop \in {"reportTrue", "serve", "nilSend"}

Init ==
  /\ IdentityInit
  /\ loop = "top" /\ ping = "start" /\ main = "wait" /\ closer = "none"
  /\ made = FALSE /\ ticker = "none" /\ listener = "none"
  /\ closed = FALSE /\ srvClosed = FALSE /\ cancelled = FALSE /\ stopped = FALSE
  /\ panicked = FALSE /\ maxRetry \in Timeouts

-----------------------------------------------------------------------------
(* The loop.                                                               *)

\* isClosed ends it and cancels Listen's context.
LoopChecks ==
  /\ loop = "top"
  /\ IF closed THEN loop' = "over" /\ stopped' = TRUE
               ELSE loop' = "connect" /\ UNCHANGED stopped
  /\ UNCHANGED <<ping, main, closer, made, ticker, listener, closed, srvClosed,
                 cancelled, panicked>>

\* NewReverseListener succeeds; the next statement sends on a.listening.
LoopConnects ==
  /\ loop = "connect" /\ ~ cancelled
  /\ listener' = "open"
  /\ loop' = IF made THEN "reportTrue" ELSE "nilSend"
  /\ UNCHANGED <<ping, main, closer, made, ticker, flags>>

\* It fails, on a cancelled context always; the loop sleeps and starts again.
LoopRetries ==
  /\ loop = "connect"
  /\ loop' = "top"
  /\ UNCHANGED <<ping, main, closer, made, ticker, listener, flags>>

LoopStopsServingOnly ==
  /\ loop = "serve" /\ (srvClosed \/ listener = "broken")
  /\ loop' = "reportFalse"
  /\ UNCHANGED <<ping, main, closer, made, ticker, listener, flags>>

\* Serve returns when the listener breaks or the server is closed; the listener
\* is closed.
LoopStopsServing ==
  /\ loop = "serve" /\ (srvClosed \/ listener = "broken")
  /\ listener' = "none" /\ loop' = "reportFalse"
  /\ UNCHANGED <<ping, main, closer, made, ticker, flags>>

-----------------------------------------------------------------------------
(* Reports, and ping.                                                      *)

\* ping makes the channel and waits for the first report.
PingStarts ==
  /\ ping = "start"
  /\ made' = TRUE /\ ping' = "first"
  /\ UNCHANGED <<loop, main, closer, ticker, listener, flags>>

\* Both the first report and a later true start the ticker.
ReportTrue ==
  /\ loop = "reportTrue" /\ ping \in {"first", "select"}
  /\ loop' = "serve" /\ ping' = "check" /\ ticker' = "running"
  /\ UNCHANGED <<main, closer, made, listener, flags>>

ReportFalseOnly ==
  /\ loop = "reportFalse" /\ ping = "select"
  /\ loop' = "top" /\ ping' = "check"
  /\ UNCHANGED <<main, closer, made, ticker, listener, flags>>

\* Stop also takes back a pending tick (Go 1.23, the version of agent/go.mod).
ReportFalse ==
  /\ loop = "reportFalse" /\ ping = "select"
  /\ loop' = "top" /\ ping' = "check" /\ ticker' = "stopped"
  /\ UNCHANGED <<main, closer, made, listener, flags>>

PingChecks ==
  /\ ping = "check"
  /\ ping' = IF closed THEN "over" ELSE "select"
  /\ UNCHANGED <<loop, main, closer, made, ticker, listener, flags>>

PingCancelled ==
  /\ ping = "select" /\ cancelled
  /\ ping' = "over"
  /\ UNCHANGED <<loop, main, closer, made, ticker, listener, flags>>

\* The ticker fires and an authorization request is sent.
Tick ==
  /\ ping = "select" /\ ticker = "running"
  /\ ping' = "authorize"
  /\ UNCHANGED <<loop, main, closer, made, ticker, listener, flags>>

PingAuthorizedOffByOne ==
  /\ ping = "authorize"
  /\ IF maxRetry - 11 > 0
     THEN ping' = "check" /\ ticker' = "running" /\ UNCHANGED panicked
     ELSE panicked' = TRUE /\ UNCHANGED <<ping, ticker>>
  /\ UNCHANGED <<loop, main, closer, made, listener, closed, srvClosed, cancelled, stopped>>

\* The ticker is reset with a random delay: rand.Intn panics unless it is given a
\* positive number.
PingAuthorized ==
  /\ ping = "authorize"
  /\ IF maxRetry - 10 > 0
     THEN ping' = "check" /\ ticker' = "running" /\ UNCHANGED panicked
     ELSE panicked' = TRUE /\ UNCHANGED <<ping, ticker>>
  /\ UNCHANGED <<loop, main, closer, made, listener, closed, srvClosed, cancelled, stopped>>

-----------------------------------------------------------------------------
(* Close, from Listen when its context ends or from the program.           *)

ListenWaitsForLoop ==
  /\ main = "wait" /\ stopped
  /\ main' = "closing" /\ closed' = TRUE
  /\ UNCHANGED <<loop, ping, closer, made, ticker, listener, srvClosed, cancelled,
                 stopped, panicked>>

ListenCloses ==
  /\ main = "wait" /\ (cancelled \/ stopped)
  /\ main' = "closing" /\ closed' = TRUE
  /\ UNCHANGED <<loop, ping, closer, made, ticker, listener, srvClosed, cancelled,
                 stopped, panicked>>

ListenReturns ==
  /\ main = "closing"
  /\ main' = "returned" /\ srvClosed' = TRUE
  /\ UNCHANGED <<loop, ping, closer, made, ticker, listener, closed, cancelled,
                 stopped, panicked>>

CloseCalled ==
  /\ closer = "none" /\ main = "wait"
  /\ closer' = "closing" /\ closed' = TRUE
  /\ UNCHANGED <<loop, ping, main, made, ticker, listener, srvClosed, cancelled,
                 stopped, panicked>>

CloseReturns ==
  /\ closer = "closing"
  /\ closer' = "done" /\ srvClosed' = TRUE
  /\ UNCHANGED <<loop, ping, main, made, ticker, listener, closed, cancelled,
                 stopped, panicked>>

-----------------------------------------------------------------------------
(* The network and the caller's context.                                   *)

ListenerBreaks ==
  /\ listener = "open"
  /\ listener' = "broken"
  /\ UNCHANGED <<pcVars, made, ticker, flags>>

Cancel ==
  /\ ~ cancelled
  /\ cancelled' = TRUE
  /\ UNCHANGED <<pcVars, made, ticker, listener, closed, srvClosed, stopped, panicked>>

Loop == LoopChecks \/ LoopRetries \/ LoopStopsServing
Report == ReportTrue \/ ReportFalse
Ping == PingStarts \/ PingChecks \/ PingCancelled \/ PingAuthorized
Closing == ListenCloses \/ ListenReturns \/ CloseReturns

\* The process ends or is killed, and with it all of its goroutines; the next one may
\* be configured differently.
ProcessStops ==
  /\ Stops
  /\ loop' = "top" /\ ping' = "start" /\ main' = "wait" /\ closer' = "none"
  /\ made' = FALSE /\ ticker' = "none" /\ listener' = "none"
  /\ closed' = FALSE /\ srvClosed' = FALSE /\ cancelled' = FALSE /\ stopped' = FALSE
  /\ panicked' = FALSE /\ maxRetry' \in Timeouts

Listening == phase = "ready" /\ ~ panicked

\* A step of Listen's goroutines; ping authorizes with the key that is registered.
Listens(A) == Listening /\ A /\ UNCHANGED <<identityVars, maxRetry>>

Next ==
  \/ Starts /\ UNCHANGED listenVars
  \/ ProcessStops
  \/ Listens(\/ Loop \/ LoopConnects \/ Report \/ Ping \/ Tick \/ Closing
             \/ CloseCalled \/ ListenerBreaks \/ Cancel)

Spec == Init /\ [][Next]_vars

(***************************************************************************)
(* Fairness: the goroutines run; ping's select does not ignore a report    *)
(* that is ready again and again (select chooses at random), and a server  *)
(* that can be reached is reached by one of the retries.  The agent need   *)
(* not be started.                                                         *)
(***************************************************************************)
FairSpec ==
  /\ Spec
  /\ WF_vars(Listens(Loop)) /\ SF_vars(Listens(LoopConnects))
  /\ SF_vars(Listens(Report))
  /\ WF_vars(Listens(Ping)) /\ WF_vars(Listens(Closing))

-----------------------------------------------------------------------------
\* "Ping only sends requests to the server if the agent is listening": a ping is
\* only ever sent between a report of true and the following report of false,
\* that is while the tunnel serves or its end is about to be reported.
PingsOnlyWhileListening ==
  ticker = "running" \/ ping = "authorize" => loop \in {"serve", "reportFalse"}

\* A timeout of up to 10 seconds, NewAgent's 0 and the valid 10 included, lets the
\* first ping take the agent down (agent.go:716).
DownByPing == panicked /\ maxRetry <= 10

\* "... will also automatically reconnect to the server if the connection is
\* lost": after a lost connection the tunnel serves again, unless the agent is told
\* to stop.  No other timeout than these lets a ping take it down instead.
Reconnects ==
  loop = "reportFalse" ~>
    loop = "serve" \/ closed \/ cancelled \/ phase = "down" \/ DownByPing

\* Cancelling the context makes Listen return, wherever loop and ping are.
CancelEndsListen == cancelled ~> main = "returned" \/ phase = "down" \/ DownByPing

\* "Close closes the ShellHub Agent's listening" (agent.go:378): the loop sees
\* that the agent is closed, and Listen returns (a loop that is stuck on the nil
\* channel, a trouble of its own, is left out here).
CloseEndsListen ==
  closer = "done" ~> main = "returned" \/ loop = "nilSend" \/ phase = "down"

=============================================================================

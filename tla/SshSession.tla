---------------------------- MODULE SshSession ----------------------------
(***************************************************************************)
(* One SSH client's connection to the server, from its first               *)
(* authentication request to its end: the banner callback that creates the *)
(* session and dials the device (ssh/server/server.go), the password and   *)
(* public key handlers (ssh/server/auth), the session's snapshot state and *)
(* its connection to the agent (ssh/session), and the handlers of the      *)
(* channels the client opens, up to the point where data is bridged        *)
(* (Bridge takes over there).                                              *)
(*                                                                         *)
(* The device registry is seen through what it promises, Reachability: a   *)
(* dial is an Ask, it succeeds with Connect or fails, and the route to the *)
(* device may be lost or replaced at any time.  gliderlabs/ssh and         *)
(* x/crypto/ssh are libraries: they call the banner callback once, before  *)
(* the first method, count refused attempts, remember an accepted key and  *)
(* run each channel handler in a goroutine of its own.                     *)
(***************************************************************************)
EXTENDS Reachability, Naturals, FiniteSets

CONSTANTS SessionChan, TcpChan,  \* channels the client may open
          MaxAuthTries           \* refused attempts before the server hangs up

Chan == SessionChan \cup TcpChan

ASSUME SessionAssumption ==
  /\ IsFiniteSet(SessionChan) /\ IsFiniteSet(TcpChan)
  /\ SessionChan \cap TcpChan = {}
  /\ None \notin Dialer /\ None \notin {"password", "publickey"}
  /\ MaxAuthTries \in Nat \ {0}

VARIABLES
  conn,         \* the client's connection: new, auth, in, gone
  at,           \* what its goroutine is inside: idle, banner, dial, handshake
  method,       \* the method it authenticates with
  via,          \* the method the client was admitted with
  keyOK,        \* the server has accepted the client's key
  tries,        \* refused attempts (forgotten, like keyOK, once the client is in)
  state,        \* the snapshot's state; the session is nil in state nil
  key,          \* the device the user name asks for
  agentConn,    \* Session.Agent.Conn: the dial whose stream it is
  agentClient,  \* Session.Agent.Client: the dial whose stream it speaks over
  raw,          \* streams no SSH handshake was tried on
  poisoned,     \* streams Finish wrote its HTTP request on
  ch,           \* where the handler of each channel is
  seat,         \* its seat
  next,         \* Seats.next
  clientSeats,  \* keys of Client.Channels
  agentSeats,   \* keys of Agent.Channels
  waiters,      \* channels whose goroutine waits for the connection to end
  panicked      \* nil was dereferenced or a map misused: the whole server is down

authVars == <<at, method, via, keyOK, tries>>
agentVars == <<state, key, agentConn, agentClient, raw>>
chanVars == <<ch, seat, next, clientSeats, agentSeats, waiters, poisoned, panicked>>
vars == <<reachVars, conn, authVars, agentVars, chanVars>>

ChanState ==
  {"none", "counting", "incrementing", "seated", "accepting", "accepted",
   "opening", "bridged",
   "over"}  \* rejected, or closed after it was accepted

\* Every value has its type; an attempt under way has the session it needs, and
\* a finished session has its agent connection.
SessionTypeOK ==
  /\ ReachTypeOK
  /\ conn \in {"new", "auth", "in", "gone"}
  /\ at \in {"idle", "banner", "dial", "handshake"}
  /\ method \in {"password", "publickey", None}
  /\ via \in {"password", "publickey", None}
  /\ keyOK \in BOOLEAN /\ panicked \in BOOLEAN
  /\ tries \in 0..MaxAuthTries
  /\ state \in {"nil", "created", "evaluated", "finished"}
  /\ key \in Key
  /\ agentConn \in Dialer \cup {None} /\ agentClient \in Dialer \cup {None}
  /\ raw \subseteq Dialer /\ poisoned \subseteq Dialer
  /\ ch \in [Chan -> ChanState]
  /\ seat \in [Chan -> 0..Cardinality(Chan)] /\ next \in 0..Cardinality(Chan)
  /\ clientSeats \subseteq 0..Cardinality(Chan)
  /\ agentSeats \subseteq 0..Cardinality(Chan)
  /\ waiters \subseteq Chan
  /\ at = "handshake" => agentConn # None /\ state = "evaluated"
  /\ state = "finished" => agentClient # None /\ agentConn = agentClient

SessionInit ==
  /\ ReachInit
  /\ conn = "new" /\ at = "idle" /\ method = None /\ via = None
  /\ keyOK = FALSE /\ tries = 0
  /\ state = "nil" /\ key \in Key
  /\ agentConn = None /\ agentClient = None /\ raw = {}
  /\ ch = [h \in Chan |-> "none"] /\ seat = [h \in Chan |-> 0] /\ next = 0
  /\ clientSeats = {} /\ agentSeats = {}
  /\ waiters = {} /\ poisoned = {} /\ panicked = FALSE

-----------------------------------------------------------------------------
(* Session.Dial, for the banner or for a new attempt.                      *)

Dials(d) == d # agentConn /\ Ask(d, key)

\* tunnel.Dial fails; the banner is an error message, an attempt is over.
DialFails(d) ==
  /\ asked[d] # None /\ stream[d] = None /\ d \notin raw /\ d # agentConn
  /\ HangUp(d)

-----------------------------------------------------------------------------
(* The first authentication request runs the banner callback.              *)

\* NewSession refuses a user without "@": the snapshot keeps state nil.
BannerRefused ==
  /\ conn = "new"
  /\ conn' = "auth"
  /\ UNCHANGED <<reachVars, authVars, agentVars, chanVars>>

\* NewSession saves state created, and the session dials the device.
BannerStarts ==
  /\ conn = "new"
  /\ conn' = "auth" /\ at' = "banner" /\ state' = "created"
  /\ \E d \in Dialer : Dials(d)
  /\ UNCHANGED <<method, via, keyOK, tries, key, agentConn, agentClient, raw, chanVars>>

\* Dial returned a stream; Evaluate saves state evaluated.
BannerEnds(d) ==
  /\ at = "banner"
  /\ Connect(d)
  /\ agentConn' = d /\ raw' = raw \cup {d} /\ state' = "evaluated" /\ at' = "idle"
  /\ UNCHANGED <<conn, method, via, keyOK, tries, key, agentClient, chanVars>>

BannerFails(d) ==
  /\ at = "banner"
  /\ DialFails(d)
  /\ at' = "idle"
  /\ UNCHANGED <<conn, method, via, keyOK, tries, agentVars, chanVars>>

-----------------------------------------------------------------------------
(* Session.Auth, called by both handlers.                                  *)

AuthStartsInAnyState(m) ==
  /\ method' = m
  /\ \/ agentConn = None /\ at' = "dial" /\ \E d \in Dialer : Dials(d)
     \/ agentConn # None /\ at' = "handshake" /\ UNCHANGED reachVars
  /\ UNCHANGED <<conn, via, keyOK, tries, agentVars, chanVars>>

AuthDialsAgain(m) ==
  /\ state = "evaluated"
  /\ method' = m /\ at' = "dial" /\ \E d \in Dialer : Dials(d)
  /\ UNCHANGED <<conn, via, keyOK, tries, agentVars, chanVars>>

\* It dials unless there is a connection, and starts the SSH handshake on it.
AuthStarts(m) ==
  /\ state = "evaluated"
  /\ method' = m
  /\ \/ agentConn = None /\ at' = "dial" /\ \E d \in Dialer : Dials(d)
     \/ agentConn # None /\ at' = "handshake" /\ UNCHANGED reachVars
  /\ UNCHANGED <<conn, via, keyOK, tries, agentVars, chanVars>>

AuthDialed(d) ==
  /\ at = "dial"
  /\ Connect(d)
  /\ agentConn' = d /\ raw' = raw \cup {d} /\ at' = "handshake"
  /\ UNCHANGED <<conn, method, via, keyOK, tries, state, key, agentClient, chanVars>>

\* A refused attempt; the library hangs up after too many of them.
Refuse ==
  /\ tries' = tries + 1
  /\ conn' = IF tries + 1 = MaxAuthTries THEN "gone" ELSE conn
  /\ UNCHANGED <<keyOK, via>>

Admit(m) == conn' = "in" /\ via' = m /\ keyOK' = FALSE /\ tries' = 0

\* What the handler returns when Auth fails: the password is refused, the key
\* is accepted all the same.
AuthFailed ==
  /\ at' = "idle" /\ method' = None
  /\ IF method = "password"
     THEN IF conn = "auth" THEN Refuse ELSE UNCHANGED <<conn, tries, keyOK, via>>
     ELSE keyOK' = TRUE /\ UNCHANGED <<conn, tries, via>>

AuthDialFails(d) ==
  /\ at = "dial"
  /\ DialFails(d)
  /\ AuthFailed
  /\ UNCHANGED <<agentVars, chanVars>>

CloseStream(d) == IF asked[d] # None THEN HangUp(d) ELSE UNCHANGED reachVars

HandshakeFailsKeepingConn ==
  /\ at = "handshake"
  /\ CloseStream(agentConn)
  /\ raw' = raw \ {agentConn}
  /\ AuthFailed
  /\ UNCHANGED <<state, key, agentConn, agentClient, chanVars>>

\* NewClientConn fails and closes the stream; Conn is reset for a redial.
HandshakeFails ==
  /\ at = "handshake"
  /\ CloseStream(agentConn)
  /\ agentConn' = None /\ raw' = raw \ {agentConn}
  /\ AuthFailed
  /\ UNCHANGED <<state, key, agentClient, chanVars>>

\* The agent accepts any password: the client is wired, state finished saved.
HandshakeEnds ==
  /\ at = "handshake" /\ stream[agentConn] # None /\ agentConn \in raw
  /\ agentClient' = agentConn /\ raw' = raw \ {agentConn} /\ state' = "finished"
  /\ at' = "idle" /\ method' = None
  /\ IF method = "publickey"
     THEN keyOK' = TRUE /\ UNCHANGED <<conn, via, tries>>
     ELSE IF conn = "auth" THEN Admit("password")
                           ELSE UNCHANGED <<conn, via, keyOK, tries>>
  /\ UNCHANGED <<reachVars, key, agentConn, chanVars>>

-----------------------------------------------------------------------------
(* The methods the client may try, in any order and any number of times.   *)

Ready == conn = "auth" /\ at = "idle"

PasswordAcceptedEarly ==
  /\ Ready /\ state \in {"nil", "created"}
  /\ Admit("password")
  /\ UNCHANGED <<reachVars, at, method, agentVars, chanVars>>

\* PasswordHandler with no evaluated session closes the connection.
PasswordTooEarly ==
  /\ Ready /\ state \in {"nil", "created"}
  /\ conn' = "gone"
  /\ UNCHANGED <<reachVars, authVars, agentVars, chanVars>>

\* PasswordHandler in state finished: Auth says "invalid session state".
PasswordTooLate ==
  /\ Ready /\ state = "finished"
  /\ Refuse
  /\ UNCHANGED <<reachVars, at, method, agentVars, chanVars>>

PasswordTried == Ready /\ AuthStarts("password")

\* PublicKeyHandler with no evaluated session, or in state finished, accepts.
KeyAccepted ==
  /\ Ready /\ state # "evaluated"
  /\ keyOK' = TRUE
  /\ UNCHANGED <<reachVars, conn, at, method, via, tries, agentVars, chanVars>>

\* PublicKeyHandler in state evaluated authenticates to the agent first.
KeyTried == Ready /\ AuthStarts("publickey")

\* The client signs with an accepted key.
KeySigned ==
  /\ Ready /\ keyOK
  /\ Admit("publickey")
  /\ UNCHANGED <<reachVars, at, method, agentVars, chanVars>>

-----------------------------------------------------------------------------
(* Channel handlers.                                                       *)

AgentAlive == agentClient # None /\ stream[agentClient] # None

Step(h, from, to) == ch[h] = from /\ ch' = [ch EXCEPT ![h] = to]

Panic == panicked' = TRUE /\ UNCHANGED <<ch, seat, next, clientSeats, agentSeats>>

chanRest == <<reachVars, conn, authVars, agentVars, poisoned>>

\* DefaultSessionHandler starts; a nil session is dereferenced at once.
SessionOpened(h) ==
  /\ conn = "in" /\ ch[h] = "none"
  /\ waiters' = waiters \cup {h}
  /\ IF state = "nil" THEN Panic
     ELSE Step(h, "none", "counting")
          /\ UNCHANGED <<seat, next, clientSeats, agentSeats, panicked>>
  /\ UNCHANGED chanRest

\* NewSeat: next is read, then incremented, without a lock.
SeatRead(h) ==
  /\ Step(h, "counting", "incrementing")
  /\ seat' = [seat EXCEPT ![h] = next]
  /\ UNCHANGED <<chanRest, next, clientSeats, agentSeats, waiters, panicked>>

SeatIncremented(h) ==
  /\ Step(h, "incrementing", "seated")
  /\ next' = seat[h] + 1
  /\ UNCHANGED <<chanRest, seat, clientSeats, agentSeats, waiters, panicked>>

\* NewClientChannel: a seat that is taken rejects the channel.
SeatChecked(h) ==
  /\ Step(h, "seated", IF seat[h] \in clientSeats THEN "over" ELSE "accepting")
  /\ UNCHANGED <<chanRest, seat, next, clientSeats, agentSeats, waiters, panicked>>

\* Accept fails on a connection that is gone.
Accepted(h) ==
  /\ IF conn = "in"
     THEN Step(h, "accepting", "accepted") /\ clientSeats' = clientSeats \cup {seat[h]}
     ELSE Step(h, "accepting", "over") /\ UNCHANGED clientSeats
  /\ UNCHANGED <<chanRest, seat, next, agentSeats, waiters, panicked>>

\* NewAgentChannel: a taken seat or no agent client closes the accepted channel.
AgentChannelChecked(h) ==
  /\ Step(h, "accepted",
       IF seat[h] \in agentSeats \/ agentClient = None THEN "over" ELSE "opening")
  /\ UNCHANGED <<chanRest, seat, next, clientSeats, agentSeats, waiters, panicked>>

\* OpenChannel on the agent succeeds while the stream lives.
AgentChannelOpened(h) ==
  /\ h \in SessionChan
  /\ IF AgentAlive
     THEN Step(h, "opening", "bridged") /\ agentSeats' = agentSeats \cup {seat[h]}
     ELSE Step(h, "opening", "over") /\ UNCHANGED agentSeats
  /\ UNCHANGED <<chanRest, seat, next, clientSeats, waiters, panicked>>

\* Client.Channels and Agent.Channels are plain maps that the handlers read and
\* write without a lock.  h is about to write one that g is about to read or write.
ClientMapContended(g, h) ==
  ch[h] = "accepting" /\ conn = "in" /\ ch[g] \in {"seated", "accepting"}

AgentMapContended(g, h) ==
  ch[h] = "opening" /\ AgentAlive /\ ch[g] \in {"accepted", "opening"}

\* At the same time, that is: the runtime may notice it and end the server.
MapMisused ==
  /\ \E g, h \in SessionChan : g # h /\ (ClientMapContended(g, h) \/ AgentMapContended(g, h))
  /\ panicked' = TRUE
  /\ UNCHANGED <<chanRest, ch, seat, next, clientSeats, agentSeats, waiters>>

\* DefaultDirectTCPIPHandler: the forward data does not parse.
TcpRejected(h) ==
  /\ conn = "in" /\ state # "nil"
  /\ Step(h, "none", "over")
  /\ waiters' = waiters \cup {h}
  /\ UNCHANGED <<chanRest, seat, next, clientSeats, agentSeats, panicked>>

\* It dials through the agent client, which may be nil.
TcpOpened(h) ==
  /\ conn = "in" /\ ch[h] = "none"
  /\ waiters' = waiters \cup {h}
  /\ IF agentClient = None THEN Panic
     ELSE Step(h, "none", "opening")
          /\ UNCHANGED <<seat, next, clientSeats, agentSeats, panicked>>
  /\ UNCHANGED chanRest

\* The agent connects the forward and the channel is accepted.
TcpConnected(h) ==
  /\ h \in TcpChan /\ AgentAlive
  /\ Step(h, "opening", IF conn = "in" THEN "bridged" ELSE "over")
  /\ UNCHANGED <<chanRest, seat, next, clientSeats, agentSeats, waiters, panicked>>

\* The agent refuses the forward, or is gone.
TcpRefused(h) ==
  /\ h \in TcpChan
  /\ Step(h, "opening", "over")
  /\ UNCHANGED <<chanRest, seat, next, clientSeats, agentSeats, waiters, panicked>>

\* The bridge ends and the handler returns.
BridgeEnds(h) ==
  /\ Step(h, "bridged", "over")
  /\ UNCHANGED <<chanRest, seat, next, clientSeats, agentSeats, waiters, panicked>>

FinishSilently(h) ==
  /\ conn = "gone" /\ h \in waiters
  /\ waiters' = waiters \ {h}
  /\ UNCHANGED <<reachVars, conn, authVars, agentVars, ch, seat, next, clientSeats,
                 agentSeats, poisoned, panicked>>

\* conn.Wait returned: Finish writes an HTTP request on the agent's raw stream.
Finish(h) ==
  /\ conn = "gone" /\ h \in waiters
  /\ waiters' = waiters \ {h}
  /\ poisoned' = IF agentConn = None THEN poisoned ELSE poisoned \cup {agentConn}
  /\ UNCHANGED <<reachVars, conn, authVars, agentVars, ch, seat, next, clientSeats,
                 agentSeats, panicked>>

-----------------------------------------------------------------------------
(* The client, the agent and the registry.                                 *)

Disconnect ==
  /\ conn # "gone"
  /\ conn' = "gone"
  /\ UNCHANGED <<reachVars, authVars, agentVars, chanVars>>

\* The agent's SSH server ends a stream, for instance one whose bytes are not
\* SSH packets.
AgentDrops(d) ==
  /\ d = agentConn /\ at # "handshake" /\ asked[d] # None
  /\ HangUp(d)
  /\ UNCHANGED <<conn, authVars, agentVars, chanVars>>

RouteChanges ==
  /\ \E k \in Key : Lose(k) \/ \E t \in Tunnel : Attach(k, t)
  /\ UNCHANGED <<conn, authVars, agentVars, chanVars>>

AuthStep ==
  \/ \E d \in Dialer : BannerEnds(d) \/ BannerFails(d) \/ AuthDialed(d) \/ AuthDialFails(d)
  \/ HandshakeEnds \/ HandshakeFails

ChanStep(h) ==
  \/ SeatRead(h) \/ SeatIncremented(h) \/ SeatChecked(h) \/ Accepted(h)
  \/ AgentChannelChecked(h) \/ AgentChannelOpened(h) \/ TcpConnected(h) \/ TcpRefused(h)
  \/ Finish(h)

ClientStep ==
  \/ BannerRefused \/ BannerStarts \/ Disconnect
  \/ PasswordTooEarly \/ PasswordTooLate \/ PasswordTried
  \/ KeyAccepted \/ KeyTried \/ KeySigned
  \/ \E h \in SessionChan : SessionOpened(h)
  \/ \E h \in TcpChan : TcpRejected(h) \/ TcpOpened(h)

SessionNext ==
  /\ ~ panicked
  /\ \/ ClientStep \/ AuthStep \/ RouteChanges
     \/ \E h \in Chan : ChanStep(h) \/ BridgeEnds(h)
     \/ MapMisused
     \/ \E d \in Dialer : AgentDrops(d)

(***************************************************************************)
(* Fairness: the goroutines run; a dial returns (DeviceManager); the agent *)
(* answers a handshake or its stream ends; the agent drops a stream that   *)
(* carries something other than SSH.  Nothing is asked of the client.      *)
(***************************************************************************)
SessionSpec == SessionInit /\ [][SessionNext]_vars

FairSessionSpec ==
  /\ SessionSpec
  /\ WF_vars(~ panicked /\ AuthStep)
  /\ \A h \in Chan : WF_vars(~ panicked /\ ChanStep(h))
  /\ \A d \in Dialer : WF_vars(~ panicked /\ d \in poisoned /\ AgentDrops(d))

-----------------------------------------------------------------------------
\* A client admitted by its password has an agent behind it: whatever mix of
\* keys, passwords, lost routes and redials came before, PasswordHandler lets it
\* in only after the handshake on the session's own connection succeeded.
PasswordMeansAgent ==
  via = "password" =>
    state = "finished" /\ agentClient # None /\ agentClient = agentConn

\* A session holds at most one stream to its device, through all its attempts.
OneStream == Cardinality({d \in Dialer : asked[d] # None}) <= 1

\* No attempt starts an SSH handshake on a stream an earlier one has used up:
\* the reset after a failed handshake makes the next attempt redial.
FreshHandshake ==
  [][at # "handshake" /\ at' = "handshake" => agentConn' \in raw']_vars

\* A client that has no two session channels set up at once takes the server down
\* only if it was let in by its public key without an agent behind it.
SettingUp(h) == ch[h] \in {"seated", "accepting", "accepted", "opening"}

PanicsOnlyWithoutAgent ==
  panicked /\ ~ (\E g, h \in SessionChan : g # h /\ SettingUp(g) /\ SettingUp(h))
    => via = "publickey" /\ agentClient = None

\* When the client is gone, a stream that a channel was opened over ends.
StreamReleased ==
  \A d \in Dialer :
    conn = "gone" /\ waiters # {} /\ agentConn = d ~> panicked \/ asked[d] = None

=============================================================================

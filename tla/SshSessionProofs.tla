-------------------------- MODULE SshSessionProofs --------------------------
(***************************************************************************)
(* Admission, redialing and panics of an SSH session, for any number of    *)
(* devices, dials, attempts and channels.                                  *)
(*                                                                         *)
(* The properties rest on what each state of the snapshot means            *)
(* (StateMeans): up to created there is no agent connection, in evaluated  *)
(* whatever connection there is was not used yet, finished means that the  *)
(* agent client was wired over the session's own connection.  Within an    *)
(* attempt, a dial runs only when there is no connection and a handshake   *)
(* only on an unused one (AttemptMeans), and whoever was admitted by       *)
(* password left the state finished (AdmissionMeans).  OneStream needs to  *)
(* know whose the one stream is (Holds).                                   *)
(*                                                                         *)
(* Every step of a session is a step of Reachability or leaves it alone,   *)
(* so the session has what ReachabilityProofs proves of it.  Seats stay    *)
(* within the number of channels because each handler increments next once *)
(* (SeatsBounded), whatever the race on it does.                           *)
(***************************************************************************)
EXTENDS SshSession, ReachabilityProofs, FiniteSetTheorems, TLAPS

\* Types of what the proofs speak about.
CoreTypeOK ==
  /\ conn \in {"new", "auth", "in", "gone"}
  /\ at \in {"idle", "banner", "dial", "handshake"}
  /\ via \in {"password", "publickey", None}
  /\ state \in {"nil", "created", "evaluated", "finished"}
  /\ agentConn \in Dialer \cup {None} /\ agentClient \in Dialer \cup {None}
  /\ raw \subseteq Dialer
  /\ key \in Key /\ asked \in [Dialer -> Key \cup {None}]

StateMeans ==
  /\ conn = "new" => state = "nil" /\ at = "idle" /\ via = None
  /\ state \in {"nil", "created"} => agentConn = None
  /\ state = "evaluated" /\ agentConn # None => agentConn \in raw
  /\ state = "finished" <=> agentClient # None
  /\ state = "finished" => agentConn = agentClient

AttemptMeans ==
  /\ at = "banner" => state = "created"
  /\ at = "dial" => state = "evaluated" /\ agentConn = None
  /\ at = "handshake" => state = "evaluated" /\ agentConn # None

AdmissionMeans ==
  /\ conn = "in" => via \in {"password", "publickey"}
  /\ via = "password" => state = "finished"

\* At most one dial is asked for; outside a dial it is the session's own.
Holds ==
  /\ \A d, e \in Dialer : asked[d] # None /\ asked[e] # None => d = e
  /\ at \in {"idle", "handshake"} => \A d \in Dialer : asked[d] # None => d = agentConn

SessionInv == CoreTypeOK /\ StateMeans /\ AttemptMeans /\ AdmissionMeans /\ Holds

core == <<conn, at, via, state, agentConn, agentClient, raw, key, asked>>

-----------------------------------------------------------------------------
\* A new connection, of which nothing is known but the device it will ask for.
LEMMA SessionInitial == SessionInit => SessionInv
  BY SessionAssumption, ReachabilityAssumption
  DEF SessionInit, ReachInit, SessionInv, CoreTypeOK, StateMeans, AttemptMeans,
      AdmissionMeans, Holds

\* What a step leaves alone stays as it was.
LEMMA Untouched == SessionInv /\ UNCHANGED core => SessionInv'
  BY DEF SessionInv, CoreTypeOK, StateMeans, AttemptMeans, AdmissionMeans, Holds, core

\* Channel handlers touch only their own variables.
LEMMA ChannelSteps ==
  ASSUME SessionInv, NEW h \in Chan,
         \/ ChanStep(h) \/ BridgeEnds(h)
         \/ SessionOpened(h) \/ TcpRejected(h) \/ TcpOpened(h)
  PROVE  SessionInv'
<1>1. UNCHANGED core
  BY DEF ChanStep, BridgeEnds, SessionOpened, TcpRejected, TcpOpened, SeatRead,
         SeatIncremented, SeatChecked, Accepted, AgentChannelChecked, AgentChannelOpened,
         TcpConnected, TcpRefused, Finish, chanRest, core, reachVars, authVars, agentVars
<1> QED BY <1>1, Untouched

\* A dial begins: nothing else is asked for, and nothing is held.
LEMMA DialBegins ==
  ASSUME SessionInv, at = "idle", agentConn = None, NEW d \in Dialer, Dials(d)
  PROVE  /\ asked' \in [Dialer -> Key \cup {None}]
         /\ \A e \in Dialer : asked'[e] # None => e = d
  BY SessionAssumption DEF SessionInv, CoreTypeOK, Holds, Dials, Ask

\* A stream is given up, and with it the only thing that was asked for.
LEMMA HangUpClears ==
  ASSUME SessionInv, NEW d \in Dialer, asked[d] # None, HangUp(d)
  PROVE  asked' \in [Dialer -> Key \cup {None}] /\ \A e \in Dialer : asked'[e] = None
  BY DEF SessionInv, CoreTypeOK, Holds, HangUp

\* The banner callback: session.go's states nil, created and evaluated.
LEMMA BannerSteps ==
  ASSUME SessionInv, ~ panicked,
         \/ BannerRefused \/ BannerStarts
         \/ \E d \in Dialer : BannerEnds(d) \/ BannerFails(d)
  PROVE  SessionInv'
<1> USE SessionAssumption DEF SessionInv, CoreTypeOK, StateMeans, AttemptMeans,
        AdmissionMeans, Holds, authVars, agentVars, chanVars
<1>1. CASE BannerRefused
  BY <1>1 DEF BannerRefused, reachVars
<1>2. CASE BannerStarts
  <2>1. PICK d \in Dialer : Dials(d)
    BY <1>2 DEF BannerStarts
  <2>2. /\ asked' \in [Dialer -> Key \cup {None}]
        /\ \A e \in Dialer : asked'[e] # None => e = d
    BY <1>2, <2>1, DialBegins DEF BannerStarts
  <2> QED BY <1>2, <2>2 DEF BannerStarts
<1>3. ASSUME NEW d \in Dialer, BannerEnds(d) PROVE SessionInv'
  BY <1>3 DEF BannerEnds, Connect
<1>4. ASSUME NEW d \in Dialer, BannerFails(d) PROVE SessionInv'
  <2>1. asked' \in [Dialer -> Key \cup {None}] /\ \A e \in Dialer : asked'[e] = None
    BY <1>4, HangUpClears DEF BannerFails, DialFails
  <2> QED BY <1>4, <2>1 DEF BannerFails
<1> QED BY <1>1, <1>2, <1>3, <1>4

\* Session.Auth from its start to the end of the handshake.
LEMMA AuthSteps ==
  ASSUME SessionInv, ~ panicked,
         \/ PasswordTried \/ KeyTried \/ HandshakeEnds \/ HandshakeFails
         \/ \E d \in Dialer : AuthDialed(d) \/ AuthDialFails(d)
  PROVE  SessionInv'
<1> USE SessionAssumption DEF SessionInv, CoreTypeOK, StateMeans, AttemptMeans,
        AdmissionMeans, Holds, authVars, agentVars, chanVars
<1>1. ASSUME NEW m, Ready, AuthStarts(m) PROVE SessionInv'
  <2>1. CASE agentConn = None
    <3>1. PICK d \in Dialer : Dials(d)
      BY <1>1, <2>1 DEF AuthStarts
    <3>2. /\ asked' \in [Dialer -> Key \cup {None}]
          /\ \A e \in Dialer : asked'[e] # None => e = d
      BY <1>1, <2>1, <3>1, DialBegins DEF Ready
    <3> QED BY <1>1, <2>1, <3>2 DEF AuthStarts, Ready
  <2>2. CASE agentConn # None
    BY <1>1, <2>2 DEF AuthStarts, Ready, reachVars
  <2> QED BY <2>1, <2>2
<1>2. CASE PasswordTried \/ KeyTried
  BY <1>1, <1>2 DEF PasswordTried, KeyTried
<1>3. ASSUME NEW d \in Dialer, AuthDialed(d) PROVE SessionInv'
  BY <1>3 DEF AuthDialed, Connect
<1>4. ASSUME NEW d \in Dialer, AuthDialFails(d) PROVE SessionInv'
  <2>1. asked' \in [Dialer -> Key \cup {None}] /\ \A e \in Dialer : asked'[e] = None
    BY <1>4, HangUpClears DEF AuthDialFails, DialFails
  <2> QED BY <1>4, <2>1 DEF AuthDialFails, AuthFailed, Refuse
<1>5. CASE HandshakeFails
  <2>1. asked' \in [Dialer -> Key \cup {None}] /\ \A e \in Dialer : asked'[e] = None
    <3>1. CASE asked[agentConn] # None
      BY <1>5, <3>1, HangUpClears DEF HandshakeFails, CloseStream
    <3>2. CASE asked[agentConn] = None
      BY <1>5, <3>2 DEF HandshakeFails, CloseStream, reachVars
    <3> QED BY <3>1, <3>2
  <2> QED BY <1>5, <2>1 DEF HandshakeFails, AuthFailed, Refuse
<1>6. CASE HandshakeEnds
  BY <1>6 DEF HandshakeEnds, Admit, reachVars
<1> QED BY <1>2, <1>3, <1>4, <1>5, <1>6

\* Every step preserves the invariant.
LEMMA SessionStep == SessionInv /\ [SessionNext]_vars => SessionInv'
<1> SUFFICES ASSUME SessionInv, [SessionNext]_vars PROVE SessionInv'
  OBVIOUS
<1>1. CASE UNCHANGED vars
  BY <1>1, Untouched DEF vars, core, reachVars, authVars, agentVars, chanVars
<1>2. CASE SessionNext
  <2>1. ~ panicked
    BY <1>2 DEF SessionNext
  <2>2. CASE \/ BannerRefused \/ BannerStarts
            \/ \E d \in Dialer : BannerEnds(d) \/ BannerFails(d)
    BY <2>1, <2>2, BannerSteps
  <2>3. CASE \/ PasswordTried \/ KeyTried \/ HandshakeEnds \/ HandshakeFails
            \/ \E d \in Dialer : AuthDialed(d) \/ AuthDialFails(d)
    BY <2>1, <2>3, AuthSteps
  <2>4. CASE PasswordTooEarly \/ PasswordTooLate \/ KeyAccepted \/ KeySigned \/ Disconnect
    BY <2>1, <2>4, SessionAssumption
    DEF SessionInv, CoreTypeOK, StateMeans, AttemptMeans, AdmissionMeans, Holds, Ready,
        PasswordTooEarly, PasswordTooLate, KeyAccepted, KeySigned, Disconnect, Refuse,
        Admit, reachVars, authVars, agentVars, chanVars
  <2>5. ASSUME NEW h \in Chan,
               \/ ChanStep(h) \/ BridgeEnds(h)
               \/ SessionOpened(h) \/ TcpRejected(h) \/ TcpOpened(h)
        PROVE  SessionInv'
    BY <2>5, ChannelSteps
  <2>6. CASE RouteChanges
    <3>1. UNCHANGED core
      BY <2>6 DEF RouteChanges, Lose, Attach, core, authVars, agentVars, chanVars
    <3> QED BY <3>1, Untouched
  <2>7. ASSUME NEW d \in Dialer, AgentDrops(d) PROVE SessionInv'
    <3>1. asked' \in [Dialer -> Key \cup {None}] /\ \A e \in Dialer : asked'[e] = None
      BY <2>7, HangUpClears DEF AgentDrops
    <3> QED
      BY <2>7, <3>1
      DEF AgentDrops, SessionInv, CoreTypeOK, StateMeans, AttemptMeans, AdmissionMeans,
          Holds, authVars, agentVars, chanVars
  <2>8. CASE MapMisused
    BY <2>8, Untouched DEF MapMisused, chanRest, core, reachVars, authVars, agentVars
  <2> QED
    BY <1>2, <2>2, <2>3, <2>4, <2>5, <2>6, <2>7, <2>8
    DEF SessionNext, ClientStep, AuthStep, Chan
<1> QED BY <1>1, <1>2

\* The invariant holds in every reachable state.
THEOREM SessionInvariant == SessionSpec => []SessionInv
  BY SessionInitial, SessionStep, PTL DEF SessionSpec

-----------------------------------------------------------------------------
\* PasswordHandler admits a client only with an agent client wired over the
\* session's own connection (ssh/server/auth/password.go:33).
THEOREM AdmittedByPassword == SessionSpec => []PasswordMeansAgent
<1>1. SessionInv => PasswordMeansAgent
  BY DEF SessionInv, StateMeans, AdmissionMeans, PasswordMeansAgent
<1> QED BY <1>1, SessionInvariant, PTL

\* A session holds one stream at most (ssh/session/session_minimal.go:132-187).
THEOREM AtMostOneStream == SessionSpec => []OneStream
<1>1. ASSUME SessionInv PROVE OneStream
  <2> DEFINE held == {d \in Dialer : asked[d] # None}
  <2>1. CASE held = {}
    BY <2>1, FS_EmptySet DEF OneStream
  <2>2. CASE held # {}
    <3>1. PICK d \in Dialer : held = {d}
      BY <1>1, <2>2 DEF SessionInv, Holds
    <3> QED BY <3>1, FS_Singleton DEF OneStream
  <2> QED BY <2>1, <2>2
<1> QED BY <1>1, SessionInvariant, PTL

\* A handler panics for a client without an agent (session.go:101, tcpip.go:76), or
\* while a second one sets its channel up (session_minimal.go:190-218).
LEMMA PanicStep ==
  SessionInv /\ PanicsOnlyWithoutAgent /\ [SessionNext]_vars => PanicsOnlyWithoutAgent'
<1> SUFFICES ASSUME SessionInv, PanicsOnlyWithoutAgent, [SessionNext]_vars
             PROVE  PanicsOnlyWithoutAgent'
  OBVIOUS
<1>1. CASE UNCHANGED vars
  BY <1>1 DEF vars, authVars, agentVars, chanVars, PanicsOnlyWithoutAgent, SettingUp
<1>2. CASE SessionNext /\ UNCHANGED panicked
  BY <1>2 DEF SessionNext, PanicsOnlyWithoutAgent
<1>3. CASE MapMisused
  BY <1>3
  DEF MapMisused, ClientMapContended, AgentMapContended, PanicsOnlyWithoutAgent, SettingUp
<1>4. ASSUME NEW h \in Chan, SessionOpened(h) \/ TcpOpened(h), panicked' # panicked
      PROVE  PanicsOnlyWithoutAgent'
  <2>1. conn = "in" /\ (state = "nil" \/ agentClient = None)
    BY <1>4 DEF SessionOpened, TcpOpened
  <2>2. via = "publickey" /\ agentClient = None
    BY <2>1 DEF SessionInv, StateMeans, AdmissionMeans
  <2> QED
    BY <1>4, <2>2
    DEF SessionOpened, TcpOpened, chanRest, authVars, agentVars, PanicsOnlyWithoutAgent
<1>5. ASSUME \/ BannerRefused \/ BannerStarts \/ PasswordTried \/ KeyTried
             \/ HandshakeEnds \/ HandshakeFails
             \/ \E d \in Dialer : \/ BannerEnds(d) \/ BannerFails(d)
                                  \/ AuthDialed(d) \/ AuthDialFails(d) \/ AgentDrops(d)
             \/ PasswordTooEarly \/ PasswordTooLate \/ KeyAccepted \/ KeySigned
             \/ Disconnect \/ RouteChanges
      PROVE  UNCHANGED panicked
  BY <1>5
  DEF BannerRefused, BannerStarts, PasswordTried, KeyTried, AuthStarts, HandshakeEnds,
      HandshakeFails, BannerEnds, BannerFails, AuthDialed, AuthDialFails, PasswordTooEarly,
      PasswordTooLate, KeyAccepted, KeySigned, Disconnect, RouteChanges, AgentDrops, chanVars
<1>6. ASSUME NEW h \in Chan, ChanStep(h) \/ BridgeEnds(h) \/ TcpRejected(h)
      PROVE  UNCHANGED panicked
  BY <1>6
  DEF ChanStep, BridgeEnds, TcpRejected, SeatRead, SeatIncremented, SeatChecked, Accepted,
      AgentChannelChecked, AgentChannelOpened, TcpConnected, TcpRefused, Finish
<1>7. CASE SessionNext /\ panicked' # panicked
  <2>1. MapMisused \/ \E h \in Chan : SessionOpened(h) \/ TcpOpened(h)
    BY <1>5, <1>6, <1>7 DEF SessionNext, ClientStep, AuthStep, Chan
  <2> QED BY <1>3, <1>4, <1>7, <2>1
<1> QED BY <1>1, <1>2, <1>7

\* Whoever has no two session channels set up at once takes the server down only
\* if it was let in by its key with no agent behind it: then a handler dereferences
\* nil (session.go:101, tcpip.go:76).
THEOREM PanicNeedsKey == SessionSpec => []PanicsOnlyWithoutAgent
<1>1. SessionInit => PanicsOnlyWithoutAgent
  BY DEF SessionInit, PanicsOnlyWithoutAgent
<1> QED BY <1>1, SessionInvariant, PanicStep, PTL DEF SessionSpec

\* Every handshake with the agent starts on a stream that none was tried on
\* (session_minimal.go:169-179).
THEOREM HandshakeOnFreshStream == SessionSpec => FreshHandshake
<1>1. SessionInv' => (at # "handshake" /\ at' = "handshake" => agentConn' \in raw')
  BY DEF SessionInv, StateMeans, AttemptMeans
<1> QED BY <1>1, SessionInvariant, PTL DEF FreshHandshake

-----------------------------------------------------------------------------
(***************************************************************************)
(* The registry, as the session sees it: whatever its attempts do, a       *)
(* session asks, connects and hangs up only as the promise allows.         *)
(***************************************************************************)
\* What an attempt does to its stream is an Ask, a Connect or a HangUp.
LEMMA AttemptUsesRegistry ==
  ASSUME SessionInv,
         \/ BannerRefused \/ BannerStarts \/ PasswordTried \/ KeyTried
         \/ HandshakeEnds \/ HandshakeFails
         \/ \E d \in Dialer : \/ BannerEnds(d) \/ BannerFails(d)
                              \/ AuthDialed(d) \/ AuthDialFails(d)
  PROVE  [ReachNext]_reachVars
<1>1. ASSUME NEW d \in Dialer, Dials(d) PROVE ReachNext
  BY <1>1 DEF Dials, ReachNext, SessionInv, CoreTypeOK
<1>2. CASE BannerRefused \/ HandshakeEnds
  BY <1>2 DEF BannerRefused, HandshakeEnds
<1>3. CASE BannerStarts
  BY <1>1, <1>3 DEF BannerStarts
<1>4. CASE PasswordTried \/ KeyTried
  BY <1>1, <1>4 DEF PasswordTried, KeyTried, AuthStarts
<1>5. CASE HandshakeFails
  <2>1. agentConn \in Dialer
    BY <1>5 DEF HandshakeFails, SessionInv, CoreTypeOK, AttemptMeans
  <2> QED BY <1>5, <2>1 DEF HandshakeFails, CloseStream, ReachNext
<1>6. ASSUME NEW d \in Dialer,
             \/ BannerEnds(d) \/ BannerFails(d) \/ AuthDialed(d) \/ AuthDialFails(d)
      PROVE  ReachNext
  BY <1>6 DEF BannerEnds, BannerFails, AuthDialed, AuthDialFails, DialFails, ReachNext
<1> QED BY <1>2, <1>3, <1>4, <1>5, <1>6

\* Every step of the session is one the registry promises, or invisible to it.
LEMMA SessionUsesRegistry ==
  SessionInv /\ [SessionNext]_vars => [ReachNext]_reachVars
<1> SUFFICES ASSUME SessionInv, [SessionNext]_vars PROVE [ReachNext]_reachVars
  OBVIOUS
<1>1. CASE UNCHANGED vars
  BY <1>1 DEF vars
<1>2. CASE \/ PasswordTooEarly \/ PasswordTooLate \/ KeyAccepted \/ KeySigned \/ Disconnect
  BY <1>2 DEF PasswordTooEarly, PasswordTooLate, KeyAccepted, KeySigned, Disconnect
<1>3. ASSUME NEW h \in Chan,
             \/ ChanStep(h) \/ BridgeEnds(h)
             \/ SessionOpened(h) \/ TcpRejected(h) \/ TcpOpened(h)
      PROVE  UNCHANGED reachVars
  BY <1>3 DEF ChanStep, BridgeEnds, SessionOpened, TcpRejected, TcpOpened, SeatRead,
         SeatIncremented, SeatChecked, Accepted, AgentChannelChecked, AgentChannelOpened,
         TcpConnected, TcpRefused, Finish, chanRest
<1>4. CASE RouteChanges
  BY <1>4 DEF RouteChanges, ReachNext
<1>5. ASSUME NEW d \in Dialer, AgentDrops(d) PROVE ReachNext
  BY <1>5 DEF AgentDrops, ReachNext
<1>6. CASE MapMisused
  BY <1>6 DEF MapMisused, chanRest
<1> QED
  BY <1>1, <1>2, <1>3, <1>4, <1>5, <1>6, AttemptUsesRegistry
  DEF SessionNext, ClientStep, AuthStep, Chan

\* A session keeps to its side of the registry's promise: it dials a stream once,
\* connects it only over the current route and lets go of it only after it dialed.
THEOREM SessionKeepsToRegistry == SessionSpec => ReachSpec
<1>1. SessionInit => ReachInit
  BY DEF SessionInit
<1> QED
  BY <1>1, SessionUsesRegistry, SessionInvariant, PTL DEF SessionSpec, ReachSpec

\* So the stream a session authenticates and bridges over always runs over the
\* tunnel its device is reached by now: a device that reconnects, or a second one
\* under its id, never leaves a session on the tunnel that was replaced.
THEOREM SessionFollowsRoute == SessionSpec => []StreamsFollowRoute
  BY SessionKeepsToRegistry, StreamsFollow, PTL

-----------------------------------------------------------------------------
(***************************************************************************)
(* Types, and the numbers among them.  The library hangs up at the last    *)
(* refused attempt, so a client that may still try has tries left          *)
(* (AttemptsBounded).  NewSeat reads and increments without a lock, so two *)
(* channels may get one seat and next may even go back; it never runs      *)
(* ahead, because each increment belongs to one channel that leaves        *)
(* NewSeat and adds at most one to what it has read (SeatsBounded).        *)
(***************************************************************************)
Incremented == {h \in Chan : ch[h] \notin {"none", "counting", "incrementing"}}

AttemptsBounded ==
  /\ method \in {"password", "publickey", None} /\ keyOK \in BOOLEAN
  /\ tries \in 0..MaxAuthTries
  /\ conn \in {"new", "auth"} => tries < MaxAuthTries

SeatsBounded ==
  /\ ch \in [Chan -> ChanState] /\ seat \in [Chan -> Nat] /\ next \in Nat
  /\ next <= Cardinality(Incremented)
  /\ \A h \in Chan : seat[h] <= Cardinality(Chan)
  /\ \A h \in Chan : ch[h] = "incrementing" => seat[h] <= Cardinality(Incremented)

\* The agent's channel of a seat never lacks the client's: a session channel that
\* was accepted is filed under its seat, a bridged one on both sides.
SeatsPaired ==
  /\ agentSeats \subseteq clientSeats
  /\ \A h \in SessionChan :
       /\ ch[h] \in {"accepted", "opening", "bridged"} => seat[h] \in clientSeats
       /\ ch[h] = "bridged" => seat[h] \in agentSeats

FilesTypeOK ==
  /\ clientSeats \subseteq 0..Cardinality(Chan) /\ agentSeats \subseteq 0..Cardinality(Chan)
  /\ waiters \subseteq Chan /\ poisoned \subseteq Dialer /\ panicked \in BOOLEAN

ChannelInv == SeatsBounded /\ SeatsPaired /\ FilesTypeOK

\* How many channels have left NewSeat is a number, and at most that of all.
LEMMA IncrementedCounts ==
  /\ IsFiniteSet(Chan) /\ Cardinality(Chan) \in Nat
  /\ IsFiniteSet(Incremented) /\ Cardinality(Incremented) \in Nat
  /\ Cardinality(Incremented) <= Cardinality(Chan)
<1>1. IsFiniteSet(Chan)
  BY SessionAssumption, FS_Union DEF Chan
<1>2. Incremented \subseteq Chan
  BY DEF Incremented
<1> QED BY <1>1, <1>2, FS_Subset, FS_CardinalityType

\* A channel that leaves NewSeat, or never enters it, is counted once more.
LEMMA IncrementedGrows ==
  ASSUME NEW h \in Chan, NEW to \in ChanState \ {"none", "counting", "incrementing"},
         ch \in [Chan -> ChanState], ch' = [ch EXCEPT ![h] = to]
  PROVE  /\ Cardinality(Incremented') \in Nat
         /\ Cardinality(Incremented') =
              Cardinality(Incremented) + (IF h \in Incremented THEN 0 ELSE 1)
<1>1. Incremented' = Incremented \cup {h}
  BY DEF Incremented
<1>2. Cardinality(Incremented \cup {h}) =
        IF h \in Incremented THEN Cardinality(Incremented) ELSE Cardinality(Incremented) + 1
  BY IncrementedCounts, FS_AddElement
<1> QED BY <1>1, <1>2, IncrementedCounts

\* A new connection has opened nothing.
LEMMA ChannelInitial == SessionInit => ChannelInv /\ AttemptsBounded
<1> SUFFICES ASSUME SessionInit PROVE ChannelInv /\ AttemptsBounded
  OBVIOUS
<1>1. SeatsBounded
  BY IncrementedCounts DEF SessionInit, SeatsBounded, ChanState
<1>2. SeatsPaired /\ FilesTypeOK
  BY DEF SessionInit, SeatsPaired, FilesTypeOK, Chan
<1>3. AttemptsBounded
  <2>1. keyOK \in BOOLEAN
    BY Zenon DEF SessionInit
  <2> QED BY <2>1, SessionAssumption DEF SessionInit, AttemptsBounded
<1> QED BY <1>1, <1>2, <1>3 DEF ChannelInv

\* What a channel handler leaves alone stays as it was.
LEMMA ChannelsUntouched == ChannelInv /\ UNCHANGED chanVars => ChannelInv'
<1> SUFFICES ASSUME ChannelInv, UNCHANGED chanVars PROVE ChannelInv'
  OBVIOUS
<1>1. Incremented' = Incremented
  BY DEF Incremented, chanVars
<1> QED
  BY <1>1 DEF ChannelInv, SeatsBounded, SeatsPaired, FilesTypeOK, chanVars

\* NewSeat, in its two steps (session_minimal.go:69).
LEMMA NewSeatSteps ==
  ASSUME ChannelInv, NEW h \in Chan, SeatRead(h) \/ SeatIncremented(h)
  PROVE  ChannelInv'
<1>1. CASE SeatRead(h)
  <2>1. Incremented' = Incremented
    BY <1>1 DEF SeatRead, Step, Incremented, ChannelInv, SeatsBounded
  <2>2. SeatsBounded'
    BY <1>1, <2>1, IncrementedCounts
    DEF SeatRead, Step, ChannelInv, SeatsBounded, ChanState
  <2>3. SeatsPaired' /\ FilesTypeOK'
    BY <1>1
    DEF SeatRead, Step, ChannelInv, SeatsBounded, SeatsPaired, FilesTypeOK, chanRest, Chan
  <2> QED BY <2>2, <2>3 DEF ChannelInv
<1>2. CASE SeatIncremented(h)
  <2>1. /\ Cardinality(Incremented') \in Nat
        /\ Cardinality(Incremented') = Cardinality(Incremented) + 1
    BY <1>2, IncrementedGrows
    DEF SeatIncremented, Step, Incremented, ChannelInv, SeatsBounded, ChanState
  <2>2. SeatsBounded'
    BY <1>2, <2>1, IncrementedCounts
    DEF SeatIncremented, Step, ChannelInv, SeatsBounded, ChanState
  <2>3. SeatsPaired' /\ FilesTypeOK'
    BY <1>2
    DEF SeatIncremented, Step, ChannelInv, SeatsBounded, SeatsPaired, FilesTypeOK, chanRest,
        Chan
  <2> QED BY <2>2, <2>3 DEF ChannelInv
<1> QED BY <1>1, <1>2

\* A handler that is past NewSeat, or that goes past it, keeps its seat.
LEMMA MovesOn ==
  ASSUME ChannelInv, NEW h \in Chan, NEW from \in {"none", "seated", "accepting", "accepted",
         "opening", "bridged"}, NEW to \in ChanState \ {"none", "counting", "incrementing"},
         Step(h, from, to), UNCHANGED <<seat, next>>
  PROVE  SeatsBounded'
<1>1. /\ Cardinality(Incremented') \in Nat
      /\ Cardinality(Incremented') >= Cardinality(Incremented)
  <2>1. ch \in [Chan -> ChanState] /\ ch' = [ch EXCEPT ![h] = to]
    BY DEF Step, ChannelInv, SeatsBounded
  <2>2. /\ Cardinality(Incremented') \in Nat
        /\ Cardinality(Incremented') =
             Cardinality(Incremented) + (IF h \in Incremented THEN 0 ELSE 1)
    BY <2>1, IncrementedGrows
  <2> QED BY <2>2, IncrementedCounts
<1> QED
  BY <1>1, IncrementedCounts DEF Step, ChannelInv, SeatsBounded, ChanState

\* The handlers of session and forwarding channels once they are seated, or that
\* take no seat at all; a panic leaves everything as it is.
LEMMA HandlerSteps ==
  ASSUME SessionInv, ChannelInv, NEW h \in Chan,
         \/ ChanStep(h) \/ BridgeEnds(h)
         \/ h \in SessionChan /\ SessionOpened(h)
         \/ h \in TcpChan /\ (TcpRejected(h) \/ TcpOpened(h))
  PROVE  ChannelInv'
<1> USE SessionAssumption DEF ChannelInv, SeatsPaired, FilesTypeOK, chanRest, agentVars, Chan
<1>0. seat[h] \in 0..Cardinality(Chan)
  BY IncrementedCounts DEF SeatsBounded
<1>1. CASE SessionOpened(h)
  <2>1. Incremented' = Incremented
    BY <1>1 DEF SessionOpened, Step, Panic, Incremented, SeatsBounded
  <2>2. SeatsBounded'
    BY <1>1, <2>1 DEF SessionOpened, Step, Panic, SeatsBounded, ChanState
  <2>3. SeatsPaired' /\ FilesTypeOK'
    BY <1>1 DEF SessionOpened, Step, Panic, SeatsBounded
  <2> QED BY <2>2, <2>3
<1>2. CASE SeatChecked(h)
  <2>1. SeatsBounded'
    BY <1>2, MovesOn DEF SeatChecked, ChanState
  <2>2. SeatsPaired' /\ FilesTypeOK'
    BY <1>2 DEF SeatChecked, Step, SeatsBounded
  <2> QED BY <2>1, <2>2
<1>3. CASE Accepted(h)
  <2>1. SeatsBounded'
    BY <1>3, MovesOn DEF Accepted, ChanState
  <2>2. FilesTypeOK'
    BY <1>0, <1>3 DEF Accepted
  <2>3. SeatsPaired'
    BY <1>3 DEF Accepted, Step, SeatsBounded
  <2> QED BY <2>1, <2>2, <2>3
<1>4. CASE AgentChannelChecked(h)
  <2>1. SeatsBounded'
    BY <1>4, MovesOn DEF AgentChannelChecked, ChanState
  <2>2. SeatsPaired' /\ FilesTypeOK'
    BY <1>4 DEF AgentChannelChecked, Step, SeatsBounded
  <2> QED BY <2>1, <2>2
<1>5. CASE AgentChannelOpened(h)
  <2>1. SeatsBounded'
    BY <1>5, MovesOn DEF AgentChannelOpened, ChanState
  <2>2. SeatsPaired' /\ FilesTypeOK'
    <3>1. seat[h] \in clientSeats
      BY <1>5 DEF AgentChannelOpened, Step
    <3>2. agentSeats' \in {agentSeats, agentSeats \cup {seat[h]}}
      BY <1>5 DEF AgentChannelOpened
    <3>3. FilesTypeOK'
      BY <1>0, <1>5, <3>2 DEF AgentChannelOpened
    <3>4. agentSeats' \subseteq clientSeats'
      BY <1>5, <3>1, <3>2 DEF AgentChannelOpened
    <3>5. ASSUME NEW g \in SessionChan, g # h
          PROVE  /\ ch'[g] \in {"accepted", "opening", "bridged"} => seat'[g] \in clientSeats'
                 /\ ch'[g] = "bridged" => seat'[g] \in agentSeats'
      BY <1>5, <3>2, <3>5 DEF AgentChannelOpened, Step, SeatsBounded
    <3>6. /\ seat'[h] \in clientSeats'
          /\ ch'[h] = "bridged" => seat'[h] \in agentSeats'
      BY <1>5, <3>1 DEF AgentChannelOpened, Step, SeatsBounded
    <3> QED BY <3>3, <3>4, <3>5, <3>6
  <2> QED BY <2>1, <2>2
<1>6. CASE TcpConnected(h) \/ TcpRefused(h)
  <2>1. SeatsBounded'
    BY <1>6, MovesOn DEF TcpConnected, TcpRefused, ChanState
  <2>2. SeatsPaired' /\ FilesTypeOK'
    BY <1>6 DEF TcpConnected, TcpRefused, Step, SeatsBounded
  <2> QED BY <2>1, <2>2
<1>7. CASE BridgeEnds(h)
  <2>1. SeatsBounded'
    BY <1>7, MovesOn DEF BridgeEnds, ChanState
  <2>2. SeatsPaired' /\ FilesTypeOK'
    BY <1>7 DEF BridgeEnds, Step, SeatsBounded
  <2> QED BY <2>1, <2>2
<1>8. CASE h \in TcpChan /\ TcpRejected(h)
  <2>1. SeatsBounded'
    BY <1>8, MovesOn DEF TcpRejected, ChanState
  <2>2. SeatsPaired' /\ FilesTypeOK'
    BY <1>8 DEF TcpRejected, Step, SeatsBounded
  <2> QED BY <2>1, <2>2
<1>9. CASE h \in TcpChan /\ TcpOpened(h) /\ agentClient = None
  <2>1. Incremented' = Incremented
    BY <1>9 DEF TcpOpened, Panic, Incremented
  <2> QED BY <1>9, <2>1 DEF TcpOpened, Panic, SeatsBounded
<1>10. CASE h \in TcpChan /\ TcpOpened(h) /\ agentClient # None
  <2>1. SeatsBounded'
    BY <1>10, MovesOn DEF TcpOpened, ChanState
  <2>2. SeatsPaired' /\ FilesTypeOK'
    BY <1>10 DEF TcpOpened, Step, SeatsBounded
  <2> QED BY <2>1, <2>2
<1>11. CASE Finish(h)
  <2>1. Incremented' = Incremented
    BY <1>11 DEF Finish, Incremented
  <2>2. poisoned' \subseteq Dialer
    BY <1>11 DEF Finish, SessionInv, CoreTypeOK
  <2> QED BY <1>11, <2>1, <2>2 DEF Finish, SeatsBounded
<1> QED
  BY <1>1, <1>2, <1>3, <1>4, <1>5, <1>6, <1>7, <1>8, <1>9, <1>10, <1>11, NewSeatSteps
  DEF ChanStep

\* The attempts: a refused one is counted, an admitted client's are forgotten
\* (ssh/server/auth; the library's MaxAuthTries).
LEMMA AttemptsStep ==
  SessionInv /\ AttemptsBounded /\ [SessionNext]_vars => AttemptsBounded'
<1> SUFFICES ASSUME SessionInv, AttemptsBounded, [SessionNext]_vars PROVE AttemptsBounded'
  OBVIOUS
<1> USE SessionAssumption
<1>1. CASE UNCHANGED <<method, keyOK, tries>> /\ (conn' # conn => conn' = "gone" \/ conn = "new")
  BY <1>1 DEF AttemptsBounded
<1>2. CASE PasswordTried \/ KeyTried
  BY <1>2 DEF AttemptsBounded, PasswordTried, KeyTried, AuthStarts
<1>3. CASE KeyAccepted
  <2>1. keyOK' \in BOOLEAN
    BY <1>3, Zenon DEF KeyAccepted
  <2> QED BY <1>3, <2>1 DEF AttemptsBounded, KeyAccepted
<1>4. CASE PasswordTooLate
  BY <1>4 DEF AttemptsBounded, PasswordTooLate, Ready, Refuse
<1>5. ASSUME NEW m, Admit(m), method' \in {method, None} PROVE AttemptsBounded'
  <2>1. keyOK' \in BOOLEAN
    BY <1>5, Zenon DEF Admit
  <2> QED BY <1>5, <2>1 DEF AttemptsBounded, Admit
<1>6. CASE AuthFailed
  <2>1. CASE method = "password"
    BY <1>6, <2>1 DEF AttemptsBounded, AuthFailed, Refuse
  <2>2. CASE method # "password"
    <3>1. keyOK' \in BOOLEAN
      BY <1>6, <2>2, Zenon DEF AuthFailed
    <3> QED BY <1>6, <2>2, <3>1 DEF AttemptsBounded, AuthFailed
  <2> QED BY <2>1, <2>2
<1>7. CASE HandshakeEnds
  <2>1. CASE method = "publickey"
    <3>1. keyOK' \in BOOLEAN
      BY <1>7, <2>1, Zenon DEF HandshakeEnds
    <3> QED BY <1>7, <2>1, <3>1 DEF AttemptsBounded, HandshakeEnds
  <2>2. CASE method # "publickey" /\ conn = "auth"
    BY <1>5, <1>7, <2>2 DEF HandshakeEnds
  <2>3. CASE method # "publickey" /\ conn # "auth"
    BY <1>7, <2>3 DEF AttemptsBounded, HandshakeEnds
  <2> QED BY <2>1, <2>2, <2>3
<1>8. CASE KeySigned
  BY <1>5, <1>8 DEF KeySigned
<1>9. CASE HandshakeFails \/ \E d \in Dialer : AuthDialFails(d)
  BY <1>6, <1>9 DEF HandshakeFails, AuthDialFails
<1>10. CASE UNCHANGED <<conn, authVars>>
  BY <1>1, <1>10 DEF authVars
<1>11. CASE \/ BannerRefused \/ BannerStarts \/ PasswordTooEarly \/ Disconnect
           \/ \E d \in Dialer : BannerEnds(d) \/ BannerFails(d) \/ AuthDialed(d)
  BY <1>1, <1>11
  DEF BannerRefused, BannerStarts, PasswordTooEarly, Disconnect, BannerEnds, BannerFails,
      AuthDialed, authVars
<1>12. ASSUME NEW h \in Chan,
              \/ ChanStep(h) \/ BridgeEnds(h)
              \/ SessionOpened(h) \/ TcpRejected(h) \/ TcpOpened(h)
       PROVE  UNCHANGED <<conn, authVars>>
  BY <1>12
  DEF ChanStep, BridgeEnds, SessionOpened, TcpRejected, TcpOpened, SeatRead,
      SeatIncremented, SeatChecked, Accepted, AgentChannelChecked, AgentChannelOpened,
      TcpConnected, TcpRefused, Finish, chanRest
<1>13. CASE MapMisused \/ RouteChanges \/ \E d \in Dialer : AgentDrops(d)
  BY <1>10, <1>13 DEF MapMisused, RouteChanges, AgentDrops, chanRest
<1>14. CASE UNCHANGED vars
  BY <1>10, <1>14 DEF vars
<1> QED
  BY <1>2, <1>3, <1>4, <1>7, <1>8, <1>9, <1>10, <1>11, <1>12, <1>13, <1>14
  DEF SessionNext, ClientStep, AuthStep, Chan

\* The channels: only their handlers touch them.
LEMMA ChannelStep == SessionInv /\ ChannelInv /\ [SessionNext]_vars => ChannelInv'
<1> SUFFICES ASSUME SessionInv, ChannelInv, [SessionNext]_vars PROVE ChannelInv'
  OBVIOUS
<1>1. CASE UNCHANGED chanVars
  BY <1>1, ChannelsUntouched
<1>2. CASE \/ BannerRefused \/ BannerStarts \/ PasswordTried \/ KeyTried
          \/ HandshakeEnds \/ HandshakeFails
          \/ \E d \in Dialer : \/ BannerEnds(d) \/ BannerFails(d)
                               \/ AuthDialed(d) \/ AuthDialFails(d)
  BY <1>1, <1>2
  DEF BannerRefused, BannerStarts, PasswordTried, KeyTried, AuthStarts, HandshakeEnds,
      HandshakeFails, BannerEnds, BannerFails, AuthDialed, AuthDialFails
<1>3. CASE \/ PasswordTooEarly \/ PasswordTooLate \/ KeyAccepted \/ KeySigned \/ Disconnect
          \/ RouteChanges \/ \E d \in Dialer : AgentDrops(d)
  BY <1>1, <1>3
  DEF PasswordTooEarly, PasswordTooLate, KeyAccepted, KeySigned, Disconnect, RouteChanges,
      AgentDrops
<1>4. CASE UNCHANGED vars
  BY <1>1, <1>4 DEF vars
<1>5. CASE MapMisused
  <2>1. Incremented' = Incremented
    BY <1>5 DEF MapMisused, Incremented
  <2> QED
    BY <1>5, <2>1
    DEF MapMisused, ChannelInv, SeatsBounded, SeatsPaired, FilesTypeOK, chanRest
<1> QED
  BY <1>2, <1>3, <1>4, <1>5, HandlerSteps DEF SessionNext, ClientStep, AuthStep, Chan

\* The invariant holds in every reachable state.
THEOREM ChannelInvariant == SessionSpec => [](ChannelInv /\ AttemptsBounded)
  BY ChannelInitial, ChannelStep, AttemptsStep, SessionInvariant, PTL DEF SessionSpec

\* Every value of a session has its type, seats and attempts keep to their
\* bounds, and an attempt or a finished session has the agent connection it needs.
THEOREM SessionTypeCorrect == SessionSpec => []SessionTypeOK
<1>1. SessionInv /\ RouteInv /\ ChannelInv /\ AttemptsBounded => SessionTypeOK
  <2> SUFFICES ASSUME SessionInv, RouteInv, ChannelInv, AttemptsBounded PROVE SessionTypeOK
    OBVIOUS
  <2>1. seat \in [Chan -> 0..Cardinality(Chan)] /\ next \in 0..Cardinality(Chan)
    BY IncrementedCounts DEF ChannelInv, SeatsBounded
  <2>2. keyOK \in BOOLEAN /\ panicked \in BOOLEAN
    BY DEF ChannelInv, FilesTypeOK, AttemptsBounded
  <2> QED
    BY <2>1, <2>2
    DEF SessionInv, CoreTypeOK, StateMeans, AttemptMeans, RouteInv, ChannelInv, SeatsBounded,
        FilesTypeOK, AttemptsBounded, SessionTypeOK
<1> QED
  BY <1>1, SessionInvariant, ChannelInvariant, SessionKeepsToRegistry, RouteInvariant, PTL

\* No channel to the agent is filed under a seat without the client's
\* (session_minimal.go:190-218), although seats are handed out without a lock.
THEOREM SeatsArePaired == SessionSpec => []SeatsPaired
  BY ChannelInvariant, PTL DEF ChannelInv

=============================================================================

------------------------- MODULE AgentListenProofs -------------------------
(***************************************************************************)
(* Pings are sent only while the agent listens, whatever timeouts agents   *)
(* are configured with.  The property is inductive together with the types:     *)
(* the ticker is started only by a report of true, which puts the loop     *)
(* into Serve, and the loop leaves the report that follows Serve only when *)
(* ping is in its select, not in a request, and stops the ticker.          *)
(*                                                                         *)
(* The agent registers with one key only, over any number of restarts:     *)
(* the key it authorizes with is the one in the file, and a file that is   *)
(* there is written only by the process that has created it, before any    *)
(* key was registered (KeyOnDisk).                                         *)
(***************************************************************************)
EXTENDS AgentListen, TLAPS

KeyOnDisk ==
  /\ phase \in {"generate", "encode", "sync"} => registered = {}
  /\ phase \in {"encode", "sync"} => key \in generated
  /\ phase \in {"probe", "authorize", "ready"} => file = pubKey
  /\ file = Absent => registered = {}
  /\ file \in Keys => file \in generated

IdentityInv == IdentityTypeOK /\ KeyOnDisk /\ StableIdentity

ListenInv == IdentityInv /\ ListenTypeOK /\ PingsOnlyWhileListening

\* Every step of Initialize, and every stop, keeps the identity.
LEMMA IdentityStep == IdentityInv /\ (Starts \/ Stops) => IdentityInv'
<1> SUFFICES ASSUME IdentityInv, Starts \/ Stops PROVE IdentityInv'
  OBVIOUS
<1> USE IdentityAssumption DEF IdentityInv, IdentityTypeOK, KeyOnDisk, StableIdentity
<1>1. CASE Initialize
  BY <1>1 DEF Initialize
<1>2. CASE Stat
  BY <1>2 DEF Stat
<1>3. ASSUME NEW k \in Keys, Create(k) PROVE IdentityInv'
  BY <1>3 DEF Create
<1>4. CASE Encode
  BY <1>4 DEF Encode
<1>5. CASE Sync
  BY <1>5 DEF Sync
<1>6. CASE ReadPublicKey
  BY <1>6 DEF ReadPublicKey
<1>7. CASE ProbeServerInfo
  BY <1>7 DEF ProbeServerInfo
<1>8. CASE Authorize
  BY <1>8 DEF Authorize
<1>9. CASE Stops
  BY <1>9 DEF Stops
<1> QED
  BY <1>1, <1>2, <1>3, <1>4, <1>5, <1>6, <1>7, <1>8, <1>9 DEF Starts

\* No process runs and there is no key.
LEMMA ListenInit == Init => ListenInv
<1> SUFFICES ASSUME Init PROVE ListenInv
  OBVIOUS
<1>1. {made, closed, srvClosed, cancelled, stopped, panicked} \subseteq BOOLEAN
  BY Zenon DEF Init
<1>2. IdentityInv
  BY IdentityAssumption
  DEF Init, IdentityInit, IdentityInv, IdentityTypeOK, KeyOnDisk, StableIdentity
<1> QED
  BY <1>1, <1>2 DEF Init, ListenInv, ListenTypeOK, IdentityInv, PingsOnlyWhileListening

\* A step of Listen's goroutines preserves the part that is about them.
LEMMA GoroutineStep ==
  ASSUME ListenInv, UNCHANGED identityVars, UNCHANGED maxRetry,
         \/ Loop \/ LoopConnects \/ Report \/ Ping \/ Tick \/ Closing
         \/ CloseCalled \/ ListenerBreaks \/ Cancel
  PROVE  ListenInv'
<1>0. IdentityInv' /\ IdentityTypeOK'
  BY DEF ListenInv, IdentityInv, IdentityTypeOK, KeyOnDisk, StableIdentity, identityVars
<1> USE <1>0 DEF ListenInv, ListenTypeOK, PingsOnlyWhileListening, pcVars, flags
<1>1. CASE Loop
  BY <1>1 DEF Loop, LoopChecks, LoopRetries, LoopStopsServing
<1>2. CASE LoopConnects
  BY <1>2 DEF LoopConnects
<1>3. CASE ReportTrue
  BY <1>3 DEF ReportTrue
<1>4. CASE ReportFalse
  BY <1>4 DEF ReportFalse
<1>5. CASE PingStarts \/ PingChecks \/ PingCancelled
  BY <1>5 DEF PingStarts, PingChecks, PingCancelled
<1>6. CASE PingAuthorized
  BY <1>6 DEF PingAuthorized
<1>7. CASE Tick
  BY <1>7 DEF Tick
<1>8. CASE Closing
  BY <1>8 DEF Closing, ListenCloses, ListenReturns, CloseReturns
<1>9. CASE CloseCalled
  BY <1>9 DEF CloseCalled
<1>10. CASE ListenerBreaks \/ Cancel
  BY <1>10 DEF ListenerBreaks, Cancel
<1> QED
  BY <1>1, <1>2, <1>3, <1>4, <1>5, <1>6, <1>7, <1>8, <1>9, <1>10 DEF Report, Ping

\* Every step of the agent preserves the invariant.
LEMMA ListenStep == ListenInv /\ [Next]_vars => ListenInv'
<1> SUFFICES ASSUME ListenInv, [Next]_vars PROVE ListenInv'
  OBVIOUS
<1>1. CASE Starts /\ UNCHANGED listenVars
  <2>1. IdentityInv'
    BY <1>1, IdentityStep DEF ListenInv
  <2> QED
    BY <1>1, <2>1
    DEF ListenInv, IdentityInv, ListenTypeOK, PingsOnlyWhileListening, listenVars, pcVars, flags
<1>2. CASE ProcessStops
  <2>1. IdentityInv'
    BY <1>2, IdentityStep DEF ListenInv, ProcessStops
  <2>2. {made', closed', srvClosed', cancelled', stopped', panicked'} \subseteq BOOLEAN
    BY <1>2, Zenon DEF ProcessStops
  <2> QED
    BY <1>2, <2>1, <2>2
    DEF ProcessStops, ListenInv, IdentityInv, ListenTypeOK, PingsOnlyWhileListening
<1>3. CASE Listens(\/ Loop \/ LoopConnects \/ Report \/ Ping \/ Tick \/ Closing
                   \/ CloseCalled \/ ListenerBreaks \/ Cancel)
  BY <1>3, GoroutineStep DEF Listens
<1>4. CASE UNCHANGED vars
  BY <1>4
  DEF vars, listenVars, identityVars, pcVars, flags, ListenInv, IdentityInv, IdentityTypeOK,
      KeyOnDisk, StableIdentity, ListenTypeOK, PingsOnlyWhileListening
<1> QED
  BY <1>1, <1>2, <1>3, <1>4 DEF Next

\* The invariant holds in every reachable state.
THEOREM ListenInvariant == Spec => []ListenInv
  BY ListenInit, ListenStep, PTL DEF Spec

\* The loop closes each reverse listener it opens before it opens the next
\* (agent/pkg/agent/agent.go:595-641).
THEOREM ListenTypeCorrect == Spec => []ListenTypeOK
  BY ListenInvariant, PTL DEF ListenInv

\* No ping is sent before the first connection, or after a lost one is reported
\* (agent/pkg/agent/agent.go:648-720).
THEOREM PingOnlyListening == Spec => []PingsOnlyWhileListening
  BY ListenInvariant, PTL DEF ListenInv

\* A device keeps its key: interrupted starts never give it a second identity
\* (agent/pkg/agent/agent.go:240-290, agent/pkg/agent/pkg/keygen/keygen.go:16-50).
THEOREM IdentityIsStable == Spec => []StableIdentity
  BY ListenInvariant, PTL DEF ListenInv, IdentityInv

-----------------------------------------------------------------------------
\* Listen does not give up by itself: it closes the agent, or returns, only after
\* its context was cancelled or Close was called, and a ping takes the agent down
\* only if the timeout is 10 seconds or less.
StopsOnlyWhenTold ==
  /\ closed \/ stopped \/ main # "wait" => cancelled \/ closer # "none"
  /\ main # "wait" => closed
  /\ main = "returned" => srvClosed
  /\ panicked => maxRetry <= 10

\* No lost connection and no failed retry ever ends Listen: the loop, which cancels
\* Listen's context itself, does so only for a Close that came from outside
\* (agent/pkg/agent/agent.go:378-390, 595-641).  Nor does a ping of an agent whose
\* timeout is above 10 seconds (agent.go:716); 10 itself is a valid setting (:128).
THEOREM ListenNeverGivesUp == Spec => []StopsOnlyWhenTold
<1>1. Init => StopsOnlyWhenTold
  BY DEF Init, StopsOnlyWhenTold
<1>2. ASSUME ListenInv, StopsOnlyWhenTold, [Next]_vars PROVE StopsOnlyWhenTold'
  <2> USE <1>2 DEF ListenInv, ListenTypeOK, StopsOnlyWhenTold, pcVars, flags, listenVars
  <2>1. CASE Starts /\ UNCHANGED listenVars
    BY <2>1
  <2>2. CASE ProcessStops
    BY <2>2 DEF ProcessStops
  <2>3. CASE (Loop \/ LoopConnects \/ Report \/ Ping \/ Tick) /\ UNCHANGED maxRetry
    BY <2>3, ConfigAssumption
    DEF Loop, LoopChecks, LoopRetries, LoopStopsServing, LoopConnects, Report, ReportTrue,
        ReportFalse, Ping, PingStarts, PingChecks, PingCancelled, PingAuthorized, Tick
  <2>4. CASE (Closing \/ CloseCalled) /\ UNCHANGED maxRetry
    BY <2>4 DEF Closing, ListenCloses, ListenReturns, CloseReturns, CloseCalled
  <2>5. CASE (ListenerBreaks \/ Cancel) /\ UNCHANGED maxRetry
    BY <2>5 DEF ListenerBreaks, Cancel
  <2>6. CASE UNCHANGED vars
    BY <2>6 DEF vars
  <2> QED
    BY <2>1, <2>2, <2>3, <2>4, <2>5, <2>6 DEF Next, Listens
<1> QED BY <1>1, <1>2, ListenInvariant, PTL DEF Spec

=============================================================================

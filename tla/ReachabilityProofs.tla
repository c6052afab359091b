------------------------ MODULE ReachabilityProofs ------------------------
(***************************************************************************)
(* What can be relied on by whoever dials through a registry that keeps    *)
(* the promise of Reachability: DeviceManagerProofs shows that ssh/main.go *)
(* keeps it, SshSessionProofs that a session uses it only as it may.       *)
(*                                                                         *)
(* That a tunnel serves one key is not inductive by itself: Attach         *)
(* preserves it because what is attached was never spent, and what is      *)
(* reached was (RoutesAreSpent).                                           *)
(***************************************************************************)
EXTENDS Reachability, TLAPS

RoutesAreSpent == \A k \in Key : reach[k] # None => reach[k] \in spent

\* No two device ids resolve to the same tunnel.
TunnelServesOneKey ==
  \A j, k \in Key : reach[j] # None /\ reach[j] = reach[k] => j = k

\* A tunnel that was lost or replaced is never the route to any device again,
\* and so never carries another stream.
NeverComesBack ==
  [][\A t \in spent : (\A k \in Key : reach[k] # t) =>
       /\ t \in spent'
       /\ \A k \in Key : reach'[k] # t
       /\ \A x \in Dialer : stream'[x] # t]_reachVars

RouteInv == ReachTypeOK /\ StreamsFollowRoute /\ RoutesAreSpent /\ TunnelServesOneKey

-----------------------------------------------------------------------------
\* Streams of a tunnel that is no longer a route end; the others stay.
LEMMA EndedStreams ==
  ASSUME RouteInv, NEW k \in Key, reach[k] # None, EndStreamsOf(reach[k])
  PROVE  /\ stream' \in [Dialer -> Tunnel \cup {None}]
         /\ \A x \in Dialer : stream'[x] # None =>
              stream'[x] = stream[x] /\ asked[x] # None /\ asked[x] # k
  BY DEF RouteInv, ReachTypeOK, StreamsFollowRoute, EndStreamsOf

\* Nothing is reached, asked for or carried at first.
LEMMA RouteInitial == ReachInit => RouteInv
  BY ReachabilityAssumption
  DEF ReachInit, RouteInv, ReachTypeOK, StreamsFollowRoute, RoutesAreSpent, TunnelServesOneKey

\* A new route: the tunnel is fresh, and the streams over the old one end.
LEMMA AttachKeeps ==
  ASSUME RouteInv, NEW k \in Key, NEW t \in Tunnel, Attach(k, t)
  PROVE  RouteInv'
<1> USE ReachabilityAssumption
<1>1. /\ stream' \in [Dialer -> Tunnel \cup {None}]
      /\ \A x \in Dialer : stream'[x] # None =>
           stream'[x] = stream[x] /\ asked[x] # None /\ asked[x] # k
  <2>1. CASE reach[k] = None
    BY <2>1 DEF Attach, RouteInv, ReachTypeOK, StreamsFollowRoute
  <2>2. CASE reach[k] # None
    BY <2>2, EndedStreams DEF Attach
  <2> QED BY <2>1, <2>2
<1>2. ReachTypeOK'
  BY <1>1 DEF Attach, RouteInv, ReachTypeOK
<1>3. StreamsFollowRoute'
  BY <1>1 DEF Attach, RouteInv, ReachTypeOK, StreamsFollowRoute
<1>4. RoutesAreSpent' /\ TunnelServesOneKey'
  BY DEF Attach, RouteInv, ReachTypeOK, RoutesAreSpent, TunnelServesOneKey
<1> QED BY <1>2, <1>3, <1>4 DEF RouteInv

\* A route is lost, and its streams with it.
LEMMA LoseKeeps ==
  ASSUME RouteInv, NEW k \in Key, Lose(k)
  PROVE  RouteInv'
<1> USE ReachabilityAssumption
<1>1. /\ stream' \in [Dialer -> Tunnel \cup {None}]
      /\ \A x \in Dialer : stream'[x] # None =>
           stream'[x] = stream[x] /\ asked[x] # None /\ asked[x] # k
  BY EndedStreams DEF Lose
<1>2. ReachTypeOK'
  BY <1>1 DEF Lose, RouteInv, ReachTypeOK
<1>3. StreamsFollowRoute'
  BY <1>1 DEF Lose, RouteInv, ReachTypeOK, StreamsFollowRoute
<1>4. RoutesAreSpent' /\ TunnelServesOneKey'
  BY DEF Lose, RouteInv, ReachTypeOK, RoutesAreSpent, TunnelServesOneKey
<1> QED BY <1>2, <1>3, <1>4 DEF RouteInv

\* Every step of the registry, or of those who dial through it, preserves it.
LEMMA RouteStep == RouteInv /\ [ReachNext]_reachVars => RouteInv'
<1> SUFFICES ASSUME RouteInv, [ReachNext]_reachVars PROVE RouteInv'
  OBVIOUS
<1> USE ReachabilityAssumption
<1>1. ASSUME NEW t \in Tunnel, Waste(t) PROVE RouteInv'
  BY <1>1 DEF Waste, RouteInv, ReachTypeOK, StreamsFollowRoute, RoutesAreSpent,
              TunnelServesOneKey
<1>2. ASSUME NEW x \in Dialer, NEW k \in Key, Ask(x, k) PROVE RouteInv'
  BY <1>2 DEF Ask, RouteInv, ReachTypeOK, StreamsFollowRoute, RoutesAreSpent,
              TunnelServesOneKey
<1>3. ASSUME NEW x \in Dialer, Connect(x) PROVE RouteInv'
  BY <1>3 DEF Connect, RouteInv, ReachTypeOK, StreamsFollowRoute, RoutesAreSpent,
              TunnelServesOneKey
<1>4. ASSUME NEW x \in Dialer, HangUp(x) PROVE RouteInv'
  BY <1>4 DEF HangUp, RouteInv, ReachTypeOK, StreamsFollowRoute, RoutesAreSpent,
              TunnelServesOneKey
<1>5. CASE UNCHANGED reachVars
  BY <1>5 DEF reachVars, RouteInv, ReachTypeOK, StreamsFollowRoute, RoutesAreSpent,
              TunnelServesOneKey
<1> QED
  BY <1>1, <1>2, <1>3, <1>4, <1>5, AttachKeeps, LoseKeeps DEF ReachNext

\* A spent tunnel that no key resolves to is out of reach for good.
LEMMA SpentStaysAway ==
  ASSUME RouteInv, RouteInv', [ReachNext]_reachVars,
         NEW t \in spent, \A k \in Key : reach[k] # t
  PROVE  /\ t \in spent'
         /\ \A k \in Key : reach'[k] # t
         /\ \A x \in Dialer : stream'[x] # t
<1>0. t # None /\ t \in Tunnel
  BY ReachabilityAssumption DEF RouteInv, ReachTypeOK
<1>1. t \in spent'
  BY DEF ReachNext, Waste, Attach, Lose, Ask, Connect, HangUp, reachVars
<1>2. \A k \in Key : reach'[k] # t
  <2>1. ASSUME NEW k \in Key, NEW u \in Tunnel, Attach(k, u) PROVE \A j \in Key : reach'[j] # t
    BY <2>1 DEF Attach, RouteInv, ReachTypeOK
  <2>2. ASSUME NEW k \in Key, Lose(k) PROVE \A j \in Key : reach'[j] # t
    BY <1>0, <2>2 DEF Lose, RouteInv, ReachTypeOK
  <2>3. CASE UNCHANGED reach
    BY <2>3
  <2> QED BY <2>1, <2>2, <2>3 DEF ReachNext, Waste, Ask, Connect, HangUp, reachVars
<1>3. \A x \in Dialer : stream'[x] # t
  BY <1>0, <1>2 DEF RouteInv, ReachTypeOK, StreamsFollowRoute
<1> QED BY <1>1, <1>2, <1>3

-----------------------------------------------------------------------------
\* The invariant holds in every reachable state.
THEOREM RouteInvariant == ReachSpec => []RouteInv
  BY RouteInitial, RouteStep, PTL DEF ReachSpec

\* A live stream runs over the tunnel its key resolves to right now, through
\* every replacement and loss of routes (ssh/main.go:40-72).
THEOREM StreamsFollow == ReachSpec => []StreamsFollowRoute
  BY RouteInvariant, PTL DEF RouteInv

\* AddDevice never files one yamux session under two ids (ssh/main.go:40-50).
THEOREM OneKeyPerTunnel == ReachSpec => []TunnelServesOneKey
  BY RouteInvariant, PTL DEF RouteInv

\* A session that was closed by AddDevice or RemoveDevice, or was lost, never
\* serves a dial again (ssh/main.go:44-60).
THEOREM LostForGood == ReachSpec => NeverComesBack
<1>1. RouteInv /\ RouteInv' /\ [ReachNext]_reachVars =>
        [\A t \in spent : (\A k \in Key : reach[k] # t) =>
           /\ t \in spent'
           /\ \A k \in Key : reach'[k] # t
           /\ \A x \in Dialer : stream'[x] # t]_reachVars
  BY SpentStaysAway
<1> QED BY <1>1, RouteInvariant, PTL DEF ReachSpec, NeverComesBack

=============================================================================

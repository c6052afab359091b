--------------------------- MODULE Reachability ---------------------------
(***************************************************************************)
(* What the server's device registry promises to the SSH sessions that     *)
(* dial through it, with the mutex, the handlers and the yamux machinery   *)
(* left out.  DeviceManager is shown to implement this specification, and  *)
(* SshSession is written against it.                                       *)
(*                                                                         *)
(* A device key is reachable through at most one tunnel at a time.  A      *)
(* tunnel that was lost or replaced never comes back, and a live stream    *)
(* always runs over the tunnel that is, at this moment, the one its key    *)
(* resolves to.                                                            *)
(***************************************************************************)

CONSTANTS Key,     \* keys under which devices are registered
          Tunnel,  \* tunnels (one per websocket connection of an agent)
          Dialer,  \* dials made by SSH sessions
          None     \* stands for nil

ASSUME ReachabilityAssumption == None \notin Key /\ None \notin Tunnel

VARIABLES reach,   \* key -> the live tunnel it resolves to, or None
          spent,   \* tunnels that were attached, or died before they were
          asked,   \* dialer -> the key it dials, or None
          stream   \* dialer -> the tunnel its live stream runs over, or None

reachVars == <<reach, spent, asked, stream>>

ReachTypeOK ==
  /\ reach \in [Key -> Tunnel \cup {None}]
  /\ spent \in SUBSET Tunnel
  /\ asked \in [Dialer -> Key \cup {None}]
  /\ stream \in [Dialer -> Tunnel \cup {None}]

ReachInit ==
  /\ reach = [k \in Key |-> None]
  /\ spent = {}
  /\ asked = [x \in Dialer |-> None]
  /\ stream = [x \in Dialer |-> None]

-----------------------------------------------------------------------------
\* Streams that run over tunnel t end with it.
EndStreamsOf(t) ==
  stream' = [x \in Dialer |-> IF stream[x] = t THEN None ELSE stream[x]]

\* An agent's fresh tunnel becomes the route to key k and ends the one before.
Attach(k, t) ==
  /\ t \notin spent
  /\ reach' = [reach EXCEPT ![k] = t]
  /\ spent' = spent \cup {t}
  /\ IF reach[k] = None THEN UNCHANGED stream ELSE EndStreamsOf(reach[k])
  /\ UNCHANGED asked

\* A tunnel dies before it was attached, and never will be.
Waste(t) ==
  /\ t \notin spent
  /\ spent' = spent \cup {t}
  /\ UNCHANGED <<reach, asked, stream>>

\* The route to k is lost.
Lose(k) ==
  /\ reach[k] # None
  /\ reach' = [reach EXCEPT ![k] = None]
  /\ EndStreamsOf(reach[k])
  /\ UNCHANGED <<spent, asked>>

\* A dial for k begins.
Ask(x, k) ==
  /\ asked[x] = None
  /\ asked' = [asked EXCEPT ![x] = k]
  /\ UNCHANGED <<reach, spent, stream>>

\* The dial gets a stream over the tunnel its key resolves to.
Connect(x) ==
  /\ asked[x] # None
  /\ stream[x] = None
  /\ reach[asked[x]] # None
  /\ stream' = [stream EXCEPT ![x] = reach[asked[x]]]
  /\ UNCHANGED <<reach, spent, asked>>

\* The dialer is finished with this dial, with or without a stream.
HangUp(x) ==
  /\ asked[x] # None
  /\ asked' = [asked EXCEPT ![x] = None]
  /\ stream' = [stream EXCEPT ![x] = None]
  /\ UNCHANGED <<reach, spent>>

ReachNext ==
  \/ \E t \in Tunnel : Waste(t) \/ \E k \in Key : Attach(k, t)
  \/ \E k \in Key : Lose(k)
  \/ \E x \in Dialer : Connect(x) \/ HangUp(x) \/ \E k \in Key : Ask(x, k)

ReachSpec == ReachInit /\ [][ReachNext]_reachVars

-----------------------------------------------------------------------------
\* A live stream runs over the tunnel that its key resolves to right now: the
\* registry (ssh/main.go) closes a yamux session, and so all of its streams,
\* whenever it replaces or removes it.
StreamsFollowRoute ==
  \A x \in Dialer : stream[x] # None =>
    asked[x] # None /\ reach[asked[x]] = stream[x]

=============================================================================

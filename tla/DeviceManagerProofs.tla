------------------------ MODULE DeviceManagerProofs ------------------------
(***************************************************************************)
(* The safety of the device registry for any number of devices, agents and *)
(* dials.  LiveIsMapped is not inductive by itself: AddDevice preserves it *)
(* because what it replaces was mapped by exactly one handler              *)
(* (MappedIsServed), and a lookup preserves OpenedIsMapped because what is *)
(* mapped has a session (TypeOK).  Their conjunction is inductive.         *)
(***************************************************************************)
EXTENDS DeviceManager, FiniteSetTheorems, TLAPS

RegistryInv == TypeOK /\ LiveIsMapped /\ MappedIsServed /\ OpenedIsMapped

\* Session.Dial turns an id into an id.
LEMMA DialKeyType == \A id \in Key : DialKey(id) \in Key
  BY DEF Key, DialKey, Bare, Default

\* The empty registry satisfies the invariant.
LEMMA RegistryInit == Init => RegistryInv
  BY RegistryAssumption
  DEF Init, RegistryInv, TypeOK, LiveIsMapped, MappedIsServed, OpenedIsMapped,
      HandlerState, DialState

\* Every step of a handler, a dial or the environment preserves it.
LEMMA RegistryStep == RegistryInv /\ [Next]_vars => RegistryInv'
<1> SUFFICES ASSUME RegistryInv, [Next]_vars PROVE RegistryInv'
  OBVIOUS
<1> USE RegistryAssumption, DialKeyType
<1>1. ASSUME NEW c \in Conn, NEW id \in Key \cup {None}, NEW uid \in Key \cup {None},
             Request(c, id, uid)
      PROVE  RegistryInv'
  <2>1. TypeOK'
    BY <1>1 DEF RegistryInv, TypeOK, Request, HeaderID, dialVars, HandlerState
  <2>2. LiveIsMapped' /\ MappedIsServed' /\ OpenedIsMapped'
    BY <1>1 DEF RegistryInv, TypeOK, LiveIsMapped, MappedIsServed, OpenedIsMapped,
                Live, Request, dialVars
  <2> QED BY <2>1, <2>2 DEF RegistryInv
<1>2. ASSUME NEW c \in Conn, Refuse(c) PROVE RegistryInv'
  BY <1>2 DEF RegistryInv, TypeOK, LiveIsMapped, MappedIsServed, OpenedIsMapped,
              Live, Refuse, dialVars, HandlerState
<1>3. ASSUME NEW c \in Conn, CreateSession(c) PROVE RegistryInv'
  BY <1>3 DEF RegistryInv, TypeOK, LiveIsMapped, MappedIsServed, OpenedIsMapped,
              Live, CreateSession, dialVars, HandlerState
<1>4. ASSUME NEW c \in Conn, AddDevice(c) PROVE RegistryInv'
  <2>1. TypeOK'
    BY <1>4 DEF RegistryInv, TypeOK, MappedIsServed, AddDevice, CloseReplaced, CloseSession,
                AdmitReaders, HandlerState, DialState
  <2>2. LiveIsMapped'
    BY <1>4 DEF RegistryInv, TypeOK, LiveIsMapped, AddDevice, CloseReplaced,
                CloseSession, Live
  <2>3. MappedIsServed'
    BY <1>4 DEF RegistryInv, TypeOK, MappedIsServed, AddDevice
  <2>4. OpenedIsMapped'
    <3> SUFFICES ASSUME NEW x \in Dialer, dpc'[x] \in {"opening", "syn", "up"},
                        Live(over[x])'
                 PROVE  sessions'[DialKey(target[x])] = over[x]
      BY <1>4 DEF OpenedIsMapped, AddDevice
    <3>1. dpc[x] \in {"opening", "syn", "up"} /\ over[x] \in Conn /\ Live(over[x])
      BY <1>4 DEF RegistryInv, TypeOK, AddDevice, AdmitReaders, CloseReplaced,
                  CloseSession, Live
    <3>2. sessions[DialKey(target[x])] = over[x] /\ target[x] \in Key
      BY <3>1 DEF RegistryInv, TypeOK, OpenedIsMapped
    <3>3. DialKey(target[x]) # deviceID[c]
      BY <1>4, <3>1, <3>2 DEF AddDevice, CloseReplaced, CloseSession, Live
    <3> QED BY <1>4, <3>2, <3>3 DEF AddDevice, RegistryInv, TypeOK
  <2> QED BY <2>1, <2>2, <2>3, <2>4 DEF RegistryInv
<1>5. ASSUME NEW c \in Conn, Wake(c) PROVE RegistryInv'
  BY <1>5 DEF RegistryInv, TypeOK, LiveIsMapped, MappedIsServed, OpenedIsMapped,
              Live, Wake, dialVars, HandlerState
<1>6. ASSUME NEW c \in Conn, RemoveDevice(c) PROVE RegistryInv'
  <2>1. TypeOK'
    BY <1>6 DEF RegistryInv, TypeOK, MappedIsServed, RemoveDevice, CloseSession, AdmitReaders,
                HandlerState, DialState
  <2>2. LiveIsMapped'
    BY <1>6 DEF RegistryInv, TypeOK, LiveIsMapped, RemoveDevice, CloseSession, Live
  <2>3. MappedIsServed'
    BY <1>6 DEF RegistryInv, TypeOK, MappedIsServed, RemoveDevice
  <2>4. OpenedIsMapped'
    <3> SUFFICES ASSUME NEW x \in Dialer, dpc'[x] \in {"opening", "syn", "up"},
                        Live(over[x])'
                 PROVE  sessions'[DialKey(target[x])] = over[x]
      BY <1>6 DEF OpenedIsMapped, RemoveDevice
    <3>1. dpc[x] \in {"opening", "syn", "up"} /\ over[x] \in Conn /\ Live(over[x])
      BY <1>6 DEF RegistryInv, TypeOK, RemoveDevice, AdmitReaders, CloseSession, Live
    <3>2. sessions[DialKey(target[x])] = over[x] /\ target[x] \in Key
      BY <3>1 DEF RegistryInv, TypeOK, OpenedIsMapped
    <3>3. DialKey(target[x]) # deviceID[c]
      BY <1>6, <3>1, <3>2 DEF RemoveDevice, CloseSession, Live
    <3> QED BY <1>6, <3>2, <3>3 DEF RemoveDevice, RegistryInv, TypeOK
  <2> QED BY <2>1, <2>2, <2>3, <2>4 DEF RegistryInv
<1>7. ASSUME NEW c \in Conn, Return(c) PROVE RegistryInv'
  BY <1>7 DEF RegistryInv, TypeOK, LiveIsMapped, MappedIsServed, OpenedIsMapped,
              Live, Return, CloseSession, dialVars, HandlerState
<1>8. ASSUME NEW c \in Conn, PeerLoss(c) \/ StreamOpenTimeout(c) PROVE RegistryInv'
  BY <1>8 DEF RegistryInv, TypeOK, LiveIsMapped, MappedIsServed, OpenedIsMapped,
              Live, PeerLoss, StreamOpenTimeout, CloseSession, dialVars
<1>9. ASSUME NEW x \in Dialer, NEW id \in Key, Dial(x, id) PROVE RegistryInv'
  BY <1>9 DEF RegistryInv, TypeOK, LiveIsMapped, MappedIsServed, OpenedIsMapped,
              Live, Dial, handlerVars, DialState
<1>10. ASSUME NEW x \in Dialer, Lookup(x) PROVE RegistryInv'
  BY <1>10 DEF RegistryInv, TypeOK, LiveIsMapped, MappedIsServed, OpenedIsMapped,
               Live, Lookup, handlerVars, DialState
<1>11. ASSUME NEW x \in Dialer, Open(x) \/ OpenError(x) PROVE RegistryInv'
  BY <1>11 DEF RegistryInv, TypeOK, LiveIsMapped, MappedIsServed, OpenedIsMapped,
               Live, Open, OpenError, handlerVars, DialState
<1>12. ASSUME NEW x \in Dialer, Acknowledge(x) \/ HangUp(x) PROVE RegistryInv'
  BY <1>12 DEF RegistryInv, TypeOK, LiveIsMapped, MappedIsServed, OpenedIsMapped,
               Live, Acknowledge, HangUp, handlerVars, DialState
<1>13. CASE UNCHANGED vars
  BY <1>13 DEF RegistryInv, TypeOK, LiveIsMapped, MappedIsServed, OpenedIsMapped,
               Live, vars, handlerVars, dialVars
<1> QED
  BY <1>1, <1>2, <1>3, <1>4, <1>5, <1>6, <1>7, <1>8, <1>9, <1>10, <1>11, <1>12, <1>13
  DEF Next, Handler, DialStep, Environment

\* The invariant holds in every reachable state.
THEOREM RegistryInvariant == Spec => []RegistryInv
  BY RegistryInit, RegistryStep, PTL DEF Spec

\* Handlers and dials always have what they checked for (ssh/main.go:63-153).
THEOREM TypeCorrect == Spec => []TypeOK
  BY RegistryInvariant, PTL DEF RegistryInv

\* A live tunnel that is being served is the one its id resolves to.
THEOREM NoOrphanedTunnel == Spec => []LiveIsMapped
  BY RegistryInvariant, PTL DEF RegistryInv

\* Nothing stays in the map without a handler that will take it out.
THEOREM NoStaleEntry == Spec => []MappedIsServed
  BY RegistryInvariant, PTL DEF RegistryInv

\* A live stream runs over the current route to its device.
THEOREM StreamsOverRoute == Spec => []OpenedIsMapped
  BY RegistryInvariant, PTL DEF RegistryInv

-----------------------------------------------------------------------------
(***************************************************************************)
(* The refinement.  AddDevice attaches a route, or loses one when the      *)
(* session died before it was registered; RemoveDevice, a dead peer and a  *)
(* timeout lose the route of the session they close, whoever's it is;      *)
(* session.Open connects.  Everything else is invisible to those who dial. *)
(***************************************************************************)
\* A step that changes neither the map, nor a session, nor which dials are
\* under way, nor what they run over, changes nothing of the promise.
LEMMA Invisible ==
  ASSUME Reach' = Reach, Spent' = Spent, Asked' = Asked, Stream' = Stream
  PROVE  UNCHANGED Promise!reachVars
  BY DEF Promise!reachVars

\* Closing a session that some id resolves to loses that route, closing one
\* that is not mapped wastes it, and closing one again does nothing.
LEMMA CloseIsLoss ==
  ASSUME RegistryInv, NEW c \in Conn, yamux[c] # "none",
         CloseSession(c), UNCHANGED <<sessions, dialVars>>
  PROVE  [Promise!ReachNext]_Promise!reachVars
<1> USE RegistryAssumption
<1>1. CASE yamux[c] = "closed"
  <2>1. yamux' = yamux
    BY <1>1 DEF CloseSession, RegistryInv, TypeOK
  <2> QED
    BY <2>1, Invisible DEF Reach, Spent, Asked, Stream, Live, dialVars
<1>2. CASE yamux[c] = "open" /\ \E k \in Key : sessions[k] = c
  <2>1. PICK k \in Key : sessions[k] = c
    BY <1>2
  <2>2. Reach[k] = c /\ Reach' = [Reach EXCEPT ![k] = None]
    <3>1. \A j \in Key : sessions[j] = c => j = k
      BY <2>1 DEF RegistryInv, MappedIsServed
    <3> QED BY <1>2, <2>1, <3>1 DEF Reach, Live, CloseSession, RegistryInv, TypeOK
  <2>3. Spent' = Spent /\ Asked' = Asked
    BY <2>1 DEF Spent, Asked, CloseSession, dialVars
  <2>4. Stream' = [x \in Dialer |-> IF Stream[x] = c THEN None ELSE Stream[x]]
    BY DEF Stream, Live, CloseSession, dialVars, RegistryInv, TypeOK
  <2>5. Promise!Lose(k)
    BY <2>2, <2>3, <2>4 DEF Promise!Lose, Promise!EndStreamsOf
  <2> QED BY <2>5 DEF Promise!ReachNext
<1>3. CASE yamux[c] = "open" /\ ~ \E k \in Key : sessions[k] = c
  <2>1. c \notin Spent /\ Spent' = Spent \cup {c}
    BY <1>3 DEF Spent, CloseSession
  <2>2. Reach' = Reach /\ Asked' = Asked
    BY <1>3 DEF Reach, Asked, Live, CloseSession, dialVars, RegistryInv, TypeOK
  <2>3. Stream' = Stream
    <3>1. \A x \in Dialer : dpc[x] \in {"syn", "up"} => over[x] # c
      BY <1>3, DialKeyType DEF RegistryInv, TypeOK, OpenedIsMapped, Live
    <3> QED BY <3>1 DEF Stream, Live, CloseSession, dialVars, RegistryInv, TypeOK
  <2>4. Promise!Waste(c)
    BY <2>1, <2>2, <2>3 DEF Promise!Waste
  <2> QED BY <2>4 DEF Promise!ReachNext
<1> QED BY <1>1, <1>2, <1>3 DEF RegistryInv, TypeOK

\* AddDevice attaches the new tunnel, or loses the old route if the new tunnel
\* is dead already.
LEMMA AddRefines ==
  ASSUME RegistryInv, NEW c \in Conn, AddDevice(c)
  PROVE  [Promise!ReachNext]_Promise!reachVars
<1> USE RegistryAssumption
<1> DEFINE k == deviceID[c]
           old == sessions[k]
<1>1. /\ k \in Key /\ yamux[c] \in {"open", "closed"} /\ old # c
      /\ \A j \in Key : sessions[j] # c
      /\ old \in Conn => \A j \in Key : sessions[j] = old => j = k
  BY DEF AddDevice, RegistryInv, TypeOK, MappedIsServed
<1>2. /\ sessions' = [sessions EXCEPT ![k] = c]
      /\ yamux' = [d \in Conn |-> IF d = old THEN "closed" ELSE yamux[d]]
      /\ UNCHANGED <<target, over>>
      /\ \A x \in Dialer : dpc'[x] = dpc[x] \/ (dpc[x] = "rwait" /\ dpc'[x] = "lookup")
  BY DEF AddDevice, CloseReplaced, CloseSession, AdmitReaders
<1>3. Asked' = Asked
  BY <1>2 DEF Asked
<1>4. Stream' = [x \in Dialer |-> IF Stream[x] = old THEN None ELSE Stream[x]]
  BY <1>2 DEF Stream, Live, RegistryInv, TypeOK
<1>5. Reach[k] = IF old # None /\ Live(old) THEN old ELSE None
  BY <1>1 DEF Reach
<1>6. Reach[k] = None => Stream' = Stream
  <2>1. Reach[k] = None => \A x \in Dialer : Stream[x] # old \/ Stream[x] = None
    BY <1>5 DEF Stream
  <2> QED BY <1>4, <2>1 DEF Stream
<1>7. Reach' = [Reach EXCEPT ![k] = IF yamux[c] = "open" THEN c ELSE None]
  <2>1. \A j \in Key : j # k => Reach'[j] = Reach[j]
    BY <1>1, <1>2 DEF Reach, Live, RegistryInv, TypeOK
  <2>2. Reach'[k] = IF yamux[c] = "open" THEN c ELSE None
    BY <1>1, <1>2 DEF Reach, Live, RegistryInv, TypeOK
  <2> QED BY <1>1, <2>1, <2>2 DEF Reach
<1>8. Spent' = Spent \cup {c}
  BY <1>1, <1>2 DEF Spent, RegistryInv, TypeOK
<1>9. CASE yamux[c] = "open"
  <2>1. c \notin Spent
    BY <1>1, <1>9 DEF Spent
  <2>2. IF Reach[k] = None THEN UNCHANGED Stream ELSE Promise!EndStreamsOf(Reach[k])
    BY <1>4, <1>5, <1>6 DEF Promise!EndStreamsOf
  <2>3. Promise!Attach(k, c)
    BY <1>3, <1>7, <1>8, <1>9, <2>1, <2>2 DEF Promise!Attach
  <2> QED BY <1>1, <2>3 DEF Promise!ReachNext
<1>10. CASE yamux[c] = "closed"
  <2>1. Spent' = Spent
    BY <1>8, <1>10 DEF Spent
  <2>2. Reach' = [Reach EXCEPT ![k] = None]
    BY <1>7, <1>10
  <2>3. CASE Reach[k] = None
    <3>1. Reach' = Reach
      BY <2>2, <2>3 DEF Reach
    <3> QED BY <1>3, <1>6, <2>1, <2>3, <3>1, Invisible
  <2>4. CASE Reach[k] # None
    <3>1. Promise!Lose(k)
      BY <1>3, <1>4, <1>5, <2>1, <2>2, <2>4 DEF Promise!Lose, Promise!EndStreamsOf
    <3> QED BY <1>1, <3>1 DEF Promise!ReachNext
  <2> QED BY <2>3, <2>4
<1> QED BY <1>1, <1>9, <1>10

\* RemoveDevice loses the route its id has at that moment.
LEMMA RemoveRefines ==
  ASSUME RegistryInv, NEW c \in Conn, RemoveDevice(c)
  PROVE  [Promise!ReachNext]_Promise!reachVars
<1> USE RegistryAssumption
<1> DEFINE k == deviceID[c]
           old == sessions[k]
<1>1. /\ k \in Key
      /\ old \in Conn => \A j \in Key : sessions[j] = old => j = k
  BY DEF RemoveDevice, RegistryInv, TypeOK, MappedIsServed
<1>2. /\ sessions' = [sessions EXCEPT ![k] = None]
      /\ yamux' = [d \in Conn |-> IF d = old THEN "closed" ELSE yamux[d]]
      /\ UNCHANGED <<target, over>>
      /\ \A x \in Dialer : dpc'[x] = dpc[x] \/ (dpc[x] = "rwait" /\ dpc'[x] = "lookup")
  BY DEF RemoveDevice, CloseSession, AdmitReaders
<1>3. Asked' = Asked
  BY <1>2 DEF Asked
<1>4. Stream' = [x \in Dialer |-> IF Stream[x] = old THEN None ELSE Stream[x]]
  BY <1>2 DEF Stream, Live, RegistryInv, TypeOK
<1>5. Reach[k] = IF old # None /\ Live(old) THEN old ELSE None
  BY <1>1 DEF Reach
<1>6. Reach' = [Reach EXCEPT ![k] = None]
  <2>1. \A j \in Key : j # k => Reach'[j] = Reach[j]
    BY <1>1, <1>2 DEF Reach, Live, RegistryInv, TypeOK
  <2>2. Reach'[k] = None
    BY <1>1, <1>2 DEF Reach, Live, RegistryInv, TypeOK
  <2> QED BY <1>1, <2>1, <2>2 DEF Reach
<1>7. Spent' = Spent
  BY <1>1, <1>2 DEF Spent, RegistryInv, TypeOK
<1>8. CASE Reach[k] = None
  <2>1. \A x \in Dialer : Stream[x] # old \/ Stream[x] = None
    BY <1>5, <1>8 DEF Stream
  <2>2. Reach' = Reach /\ Stream' = Stream
    BY <1>4, <1>6, <1>8, <2>1 DEF Reach, Stream
  <2> QED BY <1>3, <1>7, <2>2, Invisible
<1>9. CASE Reach[k] # None
  <2>1. Promise!Lose(k)
    BY <1>3, <1>4, <1>5, <1>6, <1>7, <1>9 DEF Promise!Lose, Promise!EndStreamsOf
  <2> QED BY <1>1, <2>1 DEF Promise!ReachNext
<1> QED BY <1>8, <1>9

\* Dialling asks, session.Open connects, letting go hangs up; a lookup, a failed
\* open and an acknowledgement are invisible.
LEMMA DialRefines ==
  ASSUME RegistryInv, NEW x \in Dialer,
         \/ \E id \in Key : Dial(x, id)
         \/ Lookup(x) \/ Open(x) \/ OpenError(x) \/ Acknowledge(x) \/ HangUp(x)
  PROVE  [Promise!ReachNext]_Promise!reachVars
<1> USE RegistryAssumption, DialKeyType
<1>1. ASSUME NEW id \in Key, Dial(x, id) PROVE Promise!ReachNext
  <2>1. Promise!Ask(x, DialKey(id))
    BY <1>1 DEF Promise!Ask, Dial, Free, handlerVars, Reach, Spent, Asked, Stream,
                Live, RegistryInv, TypeOK
  <2> QED BY <2>1 DEF Promise!ReachNext
<1>2. CASE Lookup(x) \/ OpenError(x) \/ Acknowledge(x)
  <2>1. Reach' = Reach /\ Spent' = Spent
    BY <1>2 DEF Lookup, OpenError, Acknowledge, handlerVars, Reach, Spent, Live
  <2>2. Asked' = Asked
    BY <1>2 DEF Lookup, OpenError, Acknowledge, Asked, RegistryInv, TypeOK
  <2>3. Stream' = Stream
    BY <1>2 DEF Lookup, OpenError, Acknowledge, handlerVars, Stream, Live,
                RegistryInv, TypeOK
  <2> QED BY <2>1, <2>2, <2>3, Invisible
<1>3. CASE Open(x)
  <2>1. Reach' = Reach /\ Spent' = Spent /\ Asked' = Asked
    BY <1>3 DEF Open, handlerVars, Reach, Spent, Asked, Live, RegistryInv, TypeOK
  <2>2. Asked[x] = DialKey(target[x]) /\ Asked[x] # None /\ Asked[x] \in Key
    BY <1>3 DEF Open, Asked, RegistryInv, TypeOK
  <2>3. Reach[Asked[x]] = over[x] /\ over[x] # None
    BY <1>3, <2>2 DEF Open, Reach, Live, RegistryInv, TypeOK, OpenedIsMapped
  <2>4. Stream[x] = None /\ Stream' = [Stream EXCEPT ![x] = over[x]]
    BY <1>3 DEF Open, handlerVars, Stream, Live, RegistryInv, TypeOK
  <2>5. Promise!Connect(x)
    BY <2>1, <2>2, <2>3, <2>4 DEF Promise!Connect
  <2> QED BY <2>5 DEF Promise!ReachNext
<1>4. CASE HangUp(x)
  <2>1. Reach' = Reach /\ Spent' = Spent
    BY <1>4 DEF HangUp, handlerVars, Reach, Spent, Live
  <2>2. Asked[x] # None /\ Asked' = [Asked EXCEPT ![x] = None]
    <3>1. target[x] \in Key /\ dpc[x] \notin {"idle", "left"}
      BY <1>4 DEF HangUp, RegistryInv, TypeOK
    <3>2. dpc'[x] \in {"idle", "left"}
      BY <1>4 DEF HangUp, RegistryInv, TypeOK
    <3>3. \A y \in Dialer : y # x => dpc'[y] = dpc[y] /\ target'[y] = target[y]
      BY <1>4 DEF HangUp, RegistryInv, TypeOK
    <3> QED BY <3>1, <3>2, <3>3 DEF Asked
  <2>3. Stream' = [Stream EXCEPT ![x] = None]
    BY <1>4 DEF HangUp, handlerVars, Stream, Live, RegistryInv, TypeOK
  <2>4. Promise!HangUp(x)
    BY <2>1, <2>2, <2>3 DEF Promise!HangUp
  <2> QED BY <2>4 DEF Promise!ReachNext
<1> QED BY <1>1, <1>2, <1>3, <1>4

\* Every step of the registry is a step of the promise, or invisible to it.
LEMMA StepRefines ==
  RegistryInv /\ [Next]_vars => [Promise!ReachNext]_Promise!reachVars
<1> SUFFICES ASSUME RegistryInv, [Next]_vars
             PROVE  [Promise!ReachNext]_Promise!reachVars
  OBVIOUS
<1>1. ASSUME NEW c \in Conn,
             \/ \E id, uid \in Key \cup {None} : Request(c, id, uid)
             \/ Refuse(c) \/ Wake(c)
      PROVE  [Promise!ReachNext]_Promise!reachVars
  BY <1>1, Invisible
  DEF Request, Refuse, Wake, dialVars, Reach, Spent, Asked, Stream, Live
<1>2. ASSUME NEW c \in Conn, CreateSession(c)
      PROVE  [Promise!ReachNext]_Promise!reachVars
  <2>1. Reach' = Reach /\ Spent' = Spent /\ Asked' = Asked
    BY <1>2, RegistryAssumption
    DEF CreateSession, dialVars, Reach, Spent, Asked, Live, RegistryInv, TypeOK,
        MappedIsServed
  <2>2. Stream' = Stream
    BY <1>2 DEF CreateSession, dialVars, Stream, Live, RegistryInv, TypeOK
  <2> QED BY <2>1, <2>2, Invisible
<1>3. ASSUME NEW c \in Conn, Return(c) \/ PeerLoss(c) \/ StreamOpenTimeout(c)
      PROVE  [Promise!ReachNext]_Promise!reachVars
  BY <1>3, CloseIsLoss DEF Return, PeerLoss, StreamOpenTimeout, RegistryInv, TypeOK
<1>4. CASE UNCHANGED vars
  BY <1>4, Invisible
  DEF vars, handlerVars, dialVars, Reach, Spent, Asked, Stream, Live
<1> QED
  BY <1>1, <1>2, <1>3, <1>4, AddRefines, RemoveRefines, DialRefines
  DEF Next, Handler, DialStep, Environment

\* The registry of ssh/main.go implements the abstract registry, for any number
\* of devices, agents and dials, and any accept backlog.
THEOREM RegistryKeepsPromise == Spec => KeepsPromise
<1>1. Init => Promise!ReachInit
  BY RegistryAssumption
  DEF Init, Promise!ReachInit, Reach, Spent, Asked, Stream
<1> QED
  BY <1>1, StepRefines, RegistryInvariant, PTL DEF Spec, KeepsPromise, Promise!ReachSpec

-----------------------------------------------------------------------------
\* What follows from keeping the promise (ReachabilityProofs).
Guarantee == INSTANCE ReachabilityProofs WITH
  Tunnel <- Conn, reach <- Reach, spent <- Spent, asked <- Asked, stream <- Stream

\* A session that was replaced, removed or lost is out of reach for good: whatever
\* handlers and dials race, no id resolves to it and no live stream runs over it
\* again; and no session is reached under two ids (ssh/main.go:40-72).
THEOREM RegistryLosesForGood ==
  Spec => Guarantee!NeverComesBack /\ []Guarantee!TunnelServesOneKey
<1>1. Promise!ReachInit => Guarantee!ReachInit
  BY DEF Promise!ReachInit, Guarantee!ReachInit
<1>2. [Promise!ReachNext]_Promise!reachVars => [Guarantee!ReachNext]_Guarantee!reachVars
  BY DEF Promise!reachVars, Guarantee!reachVars, Promise!ReachNext, Guarantee!ReachNext,
         Promise!Waste, Guarantee!Waste, Promise!Attach, Guarantee!Attach,
         Promise!Lose, Guarantee!Lose, Promise!EndStreamsOf, Guarantee!EndStreamsOf,
         Promise!Ask, Guarantee!Ask, Promise!Connect, Guarantee!Connect,
         Promise!HangUp, Guarantee!HangUp
<1>3. Promise!ReachSpec => Guarantee!ReachSpec
  BY <1>1, <1>2, PTL DEF Promise!ReachSpec, Guarantee!ReachSpec
<1>4. None \notin Key /\ None \notin Conn
  BY RegistryAssumption
<1> QED
  BY <1>3, <1>4, RegistryKeepsPromise, Guarantee!LostForGood, Guarantee!OneKeyPerTunnel, PTL
  DEF KeepsPromise

-----------------------------------------------------------------------------
(***************************************************************************)
(* Why the locks cannot freeze the registry, as far as that is safety: a   *)
(* dial that waits for the read lock has a writer before it, which waits   *)
(* only for dials that hold it; and such a dial, if it is inside           *)
(* session.Open, gets an error, or a slot, or has before it a stream that  *)
(* is not acknowledged, whose timer will close the session.                *)
(***************************************************************************)
NoneWaitsInVain ==
  \A x \in Dialer :
    /\ dpc[x] = "rwait" => Writers # {}
    /\ dpc[x] = "opening" =>
         \/ yamux[over[x]] = "closed"
         \/ HasSlot(over[x])
         \/ yamux[over[x]] = "open" /\ Unacknowledged(over[x]) # {}

\* Writers leave only by releasing the lock, which lets every waiting dial in.
LEMMA ReaderHasWriter ==
  ASSUME RegistryInv, [Next]_vars, \A x \in Dialer : dpc[x] = "rwait" => Writers # {}
  PROVE  \A x \in Dialer : dpc'[x] = "rwait" => Writers' # {}
<1>1. ASSUME NEW c \in Conn, AddDevice(c) \/ RemoveDevice(c)
      PROVE  \A x \in Dialer : dpc'[x] # "rwait"
  BY <1>1 DEF AddDevice, RemoveDevice, AdmitReaders
<1>2. ASSUME NEW c \in Conn,
             \/ CreateSession(c) \/ Wake(c) \/ Return(c) \/ PeerLoss(c)
             \/ StreamOpenTimeout(c) \/ Refuse(c)
             \/ \E id, uid \in Key \cup {None} : Request(c, id, uid)
      PROVE  dpc' = dpc /\ Writers \subseteq Writers'
  BY <1>2 DEF CreateSession, Wake, Return, PeerLoss, StreamOpenTimeout, Refuse, Request,
              Writers, dialVars, RegistryInv, TypeOK
<1>3. ASSUME NEW x \in Dialer,
             \/ Lookup(x) \/ OpenError(x) \/ Open(x) \/ Acknowledge(x) \/ HangUp(x)
             \/ \E id \in Key : Dial(x, id)
      PROVE  \A y \in Dialer : dpc'[y] = "rwait" => Writers' # {}
  BY <1>3 DEF Lookup, OpenError, Open, Acknowledge, HangUp, Dial, Writers, handlerVars,
              RegistryInv, TypeOK
<1>4. CASE UNCHANGED vars
  BY <1>4 DEF vars, handlerVars, dialVars, Writers
<1> QED
  BY <1>1, <1>2, <1>3, <1>4 DEF Next, Handler, DialStep, Environment

\* Whatever agents stop answering, every dial that waits is waiting for a step that
\* a handler, another dial or yamux's timer can take (ssh/main.go:40-72).
THEOREM RegistryNeverFreezes == Spec => []NoneWaitsInVain
<1> DEFINE RwaitOK == \A x \in Dialer : dpc[x] = "rwait" => Writers # {}
<1>1. Init => RwaitOK
  BY DEF Init
<1>2. RegistryInv /\ RwaitOK /\ [Next]_vars => RwaitOK'
  BY ReaderHasWriter
<1>3. RegistryInv /\ RwaitOK => NoneWaitsInVain
  <2> SUFFICES ASSUME RegistryInv, RwaitOK, NEW x \in Dialer, dpc[x] = "opening",
                      Unacknowledged(over[x]) = {}
               PROVE  HasSlot(over[x])
    BY DEF NoneWaitsInVain, RegistryInv, TypeOK
  <2>1. Cardinality(Unacknowledged(over[x])) = 0
    BY FS_EmptySet
  <2> QED BY <2>1, RegistryAssumption DEF HasSlot
<1> QED BY <1>1, <1>2, <1>3, RegistryInvariant, PTL DEF Spec

=============================================================================

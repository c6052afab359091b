--------------------------- MODULE DeviceManager ---------------------------
(***************************************************************************)
(* The server's device registry (ssh/main.go): one handler goroutine per   *)
(* agent websocket connection (handleDeviceConnection), the map from       *)
(* device ids to yamux sessions that AddDevice and RemoveDevice write      *)
(* under the registry's RWMutex, and the dials of SSH sessions             *)
(* (Session.Dial -> Tunnel.Dial -> OpenStream) that read it, holding the   *)
(* read lock for as long as yamux takes to open the stream.                *)
(*                                                                         *)
(* yamux is a library: its session is modelled by whether it is open, and  *)
(* its AcceptBacklog by the number of streams the agent has not yet        *)
(* acknowledged.  A session, once closed, ends every stream over it.       *)
(***************************************************************************)
EXTENDS Naturals, FiniteSets

CONSTANTS Name,     \* device names
          Conn,     \* agent websocket connections
          Dialer,   \* dials in progress at the same time
          Backlog,  \* yamux AcceptBacklog: unacknowledged streams per session
          None      \* stands for nil, and for a header that is not sent

\* A device id is a bare name, or a name qualified with a tenant.
Bare == "bare"
Default == "default"
Key == [tenant : {Bare, Default}, name : Name]

ASSUME RegistryAssumption ==
  /\ None \notin Key /\ None \notin Conn
  /\ Backlog \in Nat \ {0}

VARIABLES
  sessions,  \* DeviceManager.sessions: id -> connection whose yamux session is mapped
  pc,        \* where the handler of each connection is
  deviceID,  \* the id the handler works under
  yamux,     \* the yamux session of a connection: none yet, open, closed
  dpc,       \* where each dial is
  target,    \* the id it was asked for
  over       \* the connection whose session it found

handlerVars == <<sessions, pc, deviceID, yamux>>
dialVars == <<dpc, target, over>>
vars == <<handlerVars, dialVars>>

HandlerState ==
  {"idle",      \* no request yet
   "upgrade",   \* the id is known, the websocket is being upgraded
   "adding",    \* in AddDevice, waiting for mutex.Lock
   "serving",   \* waiting for session.CloseChan
   "removing",  \* in RemoveDevice, waiting for mutex.Lock
   "closing",   \* the remaining deferred calls
   "done"}

DialState ==
  {"idle",
   "rwait",     \* in OpenStream, waiting for mutex.RLock
   "lookup",    \* holding the read lock
   "opening",   \* holding the read lock, inside session.Open
   "syn",       \* has a stream the agent has not acknowledged
   "up",        \* has a stream
   "left",      \* dropped a stream the agent has not acknowledged
   "failed"}    \* OpenStream returned an error

\* Every value has its type, and a handler or dial that is past its checks has
\* what it checked for: an id before the upgrade, a yamux session from then on,
\* a session found in the map before session.Open.
TypeOK ==
  /\ sessions \in [Key -> Conn \cup {None}]
  /\ pc \in [Conn -> HandlerState]
  /\ deviceID \in [Conn -> Key \cup {None}]
  /\ yamux \in [Conn -> {"none", "open", "closed"}]
  /\ dpc \in [Dialer -> DialState]
  /\ target \in [Dialer -> Key \cup {None}]
  /\ over \in [Dialer -> Conn \cup {None}]
  /\ \A c \in Conn :
       /\ pc[c] \notin {"idle", "done"} => deviceID[c] \in Key
       /\ pc[c] \in {"idle", "upgrade"} => yamux[c] = "none"
       /\ pc[c] \in {"adding", "serving", "removing", "closing"} => yamux[c] # "none"
  /\ \A x \in Dialer :
       /\ dpc[x] \notin {"idle", "left"} => target[x] \in Key
       /\ dpc[x] \in {"opening", "syn", "up", "left"} =>
            over[x] \in Conn /\ yamux[over[x]] # "none"

Init ==
  /\ sessions = [k \in Key |-> None]
  /\ pc = [c \in Conn |-> "idle"]
  /\ deviceID = [c \in Conn |-> None]
  /\ yamux = [c \in Conn |-> "none"]
  /\ dpc = [x \in Dialer |-> "idle"]
  /\ target = [x \in Dialer |-> None]
  /\ over = [x \in Dialer |-> None]

-----------------------------------------------------------------------------
(***************************************************************************)
(* sync.RWMutex.  A pending writer keeps new readers out; it gets the lock *)
(* when the readers have left; its Unlock admits every reader that waited, *)
(* before the next writer.  A write section is one step: nothing in it     *)
(* waits for another goroutine of the program.                             *)
(***************************************************************************)
\* Dials that hold the read lock: across the lookup and session.Open.
Readers == {x \in Dialer : dpc[x] \in {"lookup", "opening"}}

Writers == {c \in Conn : pc[c] \in {"adding", "removing"}}

AdmitReaders ==
  dpc' = [x \in Dialer |-> IF dpc[x] = "rwait" THEN "lookup" ELSE dpc[x]]

-----------------------------------------------------------------------------
\* X-Device-ID, or else X-Device-UID.
HeaderID(id, uid) == IF id # None THEN id ELSE uid

RequestUnchecked(c, id, uid) ==
  /\ pc[c] = "idle"
  /\ deviceID' = [deviceID EXCEPT ![c] = HeaderID(id, uid)]
  /\ pc' = [pc EXCEPT ![c] = "upgrade"]
  /\ UNCHANGED <<sessions, yamux, dialVars>>

\* handleDeviceConnection up to the upgrade: no id is a 400.
Request(c, id, uid) ==
  /\ pc[c] = "idle"
  /\ deviceID' = [deviceID EXCEPT ![c] = HeaderID(id, uid)]
  /\ pc' = [pc EXCEPT ![c] = IF HeaderID(id, uid) = None THEN "done" ELSE "upgrade"]
  /\ UNCHANGED <<sessions, yamux, dialVars>>

\* The upgrade or yamux.Server fails.
Refuse(c) ==
  /\ pc[c] = "upgrade"
  /\ deviceID' = [deviceID EXCEPT ![c] = None]
  /\ pc' = [pc EXCEPT ![c] = "done"]
  /\ UNCHANGED <<sessions, yamux, dialVars>>

\* yamux.Server succeeds and AddDevice calls Lock.
CreateSession(c) ==
  /\ pc[c] = "upgrade"
  /\ yamux' = [yamux EXCEPT ![c] = "open"]
  /\ pc' = [pc EXCEPT ![c] = "adding"]
  /\ UNCHANGED <<sessions, deviceID, dialVars>>

\* session.Close on whatever the map held; nil is not closed.
CloseSession(c) ==
  yamux' = [d \in Conn |-> IF d = c THEN "closed" ELSE yamux[d]]

KeepSession(c) == UNCHANGED yamux

\* The old session, if any, is closed and the new one takes its place.
CloseReplaced(c) == CloseSession(c)

AddDevice(c) ==
  /\ pc[c] = "adding"
  /\ Readers = {}
  /\ CloseReplaced(sessions[deviceID[c]])
  /\ sessions' = [sessions EXCEPT ![deviceID[c]] = c]
  /\ pc' = [pc EXCEPT ![c] = "serving"]
  /\ AdmitReaders
  /\ UNCHANGED <<deviceID, target, over>>

\* CloseChan is closed; the deferred RemoveDevice calls Lock.
Wake(c) ==
  /\ pc[c] = "serving"
  /\ yamux[c] = "closed"
  /\ pc' = [pc EXCEPT ![c] = "removing"]
  /\ UNCHANGED <<sessions, deviceID, yamux, dialVars>>

ForgetWithoutClosing(c) ==
  /\ pc[c] = "removing"
  /\ Readers = {}
  /\ sessions' = [sessions EXCEPT ![deviceID[c]] = None]
  /\ pc' = [pc EXCEPT ![c] = "closing"]
  /\ AdmitReaders
  /\ UNCHANGED <<deviceID, yamux, target, over>>

CloseWithoutForgetting(c) ==
  /\ pc[c] = "removing"
  /\ Readers = {}
  /\ CloseSession(sessions[deviceID[c]])
  /\ pc' = [pc EXCEPT ![c] = "closing"]
  /\ AdmitReaders
  /\ UNCHANGED <<sessions, deviceID, target, over>>

\* Closes and forgets whatever is mapped under the handler's id by now.
RemoveDevice(c) ==
  /\ pc[c] = "removing"
  /\ Readers = {}
  /\ CloseSession(sessions[deviceID[c]])
  /\ sessions' = [sessions EXCEPT ![deviceID[c]] = None]
  /\ pc' = [pc EXCEPT ![c] = "closing"]
  /\ AdmitReaders
  /\ UNCHANGED <<deviceID, target, over>>

\* The other deferred calls: session.Close, conn.Close.
Return(c) ==
  /\ pc[c] = "closing"
  /\ CloseSession(c)
  /\ deviceID' = [deviceID EXCEPT ![c] = None]
  /\ pc' = [pc EXCEPT ![c] = "done"]
  /\ UNCHANGED <<sessions, dialVars>>

\* The websocket breaks, the agent goes away, or yamux's keepalive gives up.
PeerLoss(c) ==
  /\ yamux[c] = "open"
  /\ CloseSession(c)
  /\ UNCHANGED <<sessions, pc, deviceID, dialVars>>

-----------------------------------------------------------------------------
\* Session.Dial: an id without ":" is taken to be in the default tenant.
DialKey(id) == IF id.tenant = Bare THEN [id EXCEPT !.tenant = Default] ELSE id

\* A dial may start: the last one is over, and so is the slot it left behind.
Free(x) == dpc[x] = "idle" \/ (dpc[x] = "left" /\ yamux[over[x]] = "closed")

DialPastWriters(x, id) ==
  /\ Free(x)
  /\ target' = [target EXCEPT ![x] = id]
  /\ dpc' = [dpc EXCEPT ![x] = "lookup"]
  /\ over' = [over EXCEPT ![x] = None]
  /\ UNCHANGED handlerVars

\* Session.Dial down to OpenStream's RLock.
Dial(x, id) ==
  /\ Free(x)
  /\ target' = [target EXCEPT ![x] = id]
  /\ dpc' = [dpc EXCEPT ![x] = IF Writers = {} THEN "lookup" ELSE "rwait"]
  /\ over' = [over EXCEPT ![x] = None]
  /\ UNCHANGED handlerVars

\* OpenStream's map lookup; a miss returns "device not connected".
Lookup(x) ==
  /\ dpc[x] = "lookup"
  /\ over' = [over EXCEPT ![x] = sessions[DialKey(target[x])]]
  /\ dpc' = [dpc EXCEPT ![x] =
       IF sessions[DialKey(target[x])] = None THEN "failed" ELSE "opening"]
  /\ UNCHANGED <<handlerVars, target>>

\* Streams of c that hold a slot of yamux's accept backlog.
Unacknowledged(c) == {x \in Dialer : over[x] = c /\ dpc[x] \in {"syn", "left"}}

HasSlot(c) == Cardinality(Unacknowledged(c)) < Backlog

\* session.Open returns a stream; OpenStream unlocks.
Open(x) ==
  /\ dpc[x] = "opening"
  /\ yamux[over[x]] = "open" /\ HasSlot(over[x])
  /\ dpc' = [dpc EXCEPT ![x] = "syn"]
  /\ UNCHANGED <<handlerVars, target, over>>

\* session.Open fails: the session is closed, or writing the SYN timed out.
OpenError(x) ==
  /\ dpc[x] = "opening"
  /\ yamux[over[x]] = "closed" \/ HasSlot(over[x])
  /\ dpc' = [dpc EXCEPT ![x] = "failed"]
  /\ UNCHANGED <<handlerVars, target, over>>

\* The agent accepts the stream, dropped or not, and yamux frees its slot.
Acknowledge(x) ==
  /\ dpc[x] \in {"syn", "left"} /\ yamux[over[x]] = "open"
  /\ dpc' = [dpc EXCEPT ![x] = IF dpc[x] = "syn" THEN "up" ELSE "idle"]
  /\ over' = [over EXCEPT ![x] = IF dpc[x] = "syn" THEN @ ELSE None]
  /\ UNCHANGED <<handlerVars, target>>

NeverTimesOut(c) == FALSE /\ UNCHANGED vars

\* yamux closes a session whose stream was not acknowledged in 75 seconds.
StreamOpenTimeout(c) ==
  /\ yamux[c] = "open" /\ Unacknowledged(c) # {}
  /\ CloseSession(c)
  /\ UNCHANGED <<sessions, pc, deviceID, dialVars>>

\* The SSH session drops the stream, or gives up on a failed dial.
HangUp(x) ==
  /\ dpc[x] \in {"syn", "up", "failed"}
  /\ LET keepsSlot == dpc[x] = "syn" /\ yamux[over[x]] = "open"
     IN  /\ dpc' = [dpc EXCEPT ![x] = IF keepsSlot THEN "left" ELSE "idle"]
         /\ over' = [over EXCEPT ![x] = IF keepsSlot THEN @ ELSE None]
  /\ target' = [target EXCEPT ![x] = None]
  /\ UNCHANGED handlerVars

-----------------------------------------------------------------------------
Handler(c) ==
  CreateSession(c) \/ AddDevice(c) \/ Wake(c) \/ RemoveDevice(c) \/ Return(c)

DialStep(x) == Lookup(x) \/ OpenError(x)

Environment ==
  \/ \E c \in Conn : PeerLoss(c) \/ StreamOpenTimeout(c) \/ Refuse(c)
  \/ \E c \in Conn : \E id, uid \in Key \cup {None} : Request(c, id, uid)
  \/ \E x \in Dialer : Acknowledge(x) \/ HangUp(x)

Next ==
  \/ \E c \in Conn : Handler(c)
  \/ \E x \in Dialer : DialStep(x) \/ Open(x) \/ \E id \in Key : Dial(x, id)
  \/ Environment

(***************************************************************************)
(* Fairness.  Handlers and dials are goroutines that run when they can; a  *)
(* blocked Open is a channel send, and the runtime serves those first come *)
(* first served, so a slot that is freed again and again reaches it; the   *)
(* open timeout is a timer.  Nothing is asked of the agents, of new        *)
(* requests, or of SSH sessions letting go of their streams.               *)
(***************************************************************************)
Fairness ==
  /\ \A c \in Conn : WF_vars(Handler(c)) /\ WF_vars(StreamOpenTimeout(c))
  /\ \A x \in Dialer : WF_vars(DialStep(x)) /\ SF_vars(Open(x))

Spec == Init /\ [][Next]_vars

FairSpec == Spec /\ Fairness

-----------------------------------------------------------------------------
Live(c) == yamux[c] = "open"

\* A tunnel that is open and being served is the one its device id resolves
\* to: AddDevice and RemoveDevice never leave a live session that no dial can
\* find and no RemoveDevice will ever close.
LiveIsMapped ==
  \A c \in Conn : pc[c] = "serving" /\ Live(c) => sessions[deviceID[c]] = c

\* Whatever the map holds was registered under that very id by a handler that
\* has yet to run RemoveDevice, so no entry is left behind for ever.
MappedIsServed ==
  \A k \in Key : \A c \in Conn : sessions[k] = c =>
    deviceID[c] = k /\ pc[c] \in {"serving", "removing"}

\* A dial that is opening, or has, a stream over a live session has it over the
\* session its id resolves to now: nothing is ever unmapped without being closed.
OpenedIsMapped ==
  \A x \in Dialer :
    dpc[x] \in {"opening", "syn", "up"} /\ Live(over[x]) =>
      sessions[DialKey(target[x])] = over[x]

\* Every dial returns, with a stream or an error, however unresponsive the
\* agent at the other end of the tunnel is.
DialReturns ==
  \A x \in Dialer :
    dpc[x] \in {"rwait", "lookup", "opening"} ~> dpc[x] \in {"syn", "failed"}

\* A handler that wants the write lock gets it although dials hold the read
\* lock inside session.Open: no agent can freeze the registry for ever.
WritersGetIn ==
  \A c \in Conn : c \in Writers ~> c \notin Writers

\* What the registry's state means to those who dial through it.
Reach ==
  [k \in Key |-> IF sessions[k] # None /\ Live(sessions[k]) THEN sessions[k] ELSE None]
Spent == {c \in Conn : yamux[c] = "closed" \/ \E k \in Key : sessions[k] = c}
Asked ==
  [x \in Dialer |-> IF dpc[x] \in {"idle", "left"} THEN None ELSE DialKey(target[x])]
Stream ==
  [x \in Dialer |-> IF dpc[x] \in {"syn", "up"} /\ Live(over[x]) THEN over[x] ELSE None]

Promise == INSTANCE Reachability WITH
  Tunnel <- Conn, reach <- Reach, spent <- Spent, asked <- Asked, stream <- Stream

\* Every behaviour of handlers, dials and agents is one the abstract registry
\* allows: at most one route to a device, a tunnel that is gone never comes
\* back, a live stream only ever runs over the current route to its device.
KeepsPromise == Promise!ReachSpec

-----------------------------------------------------------------------------
\* "Keep session alive until it closes" (ssh/main.go:149): a handler's cleanup
\* does not close the live session of another connection.
KeptUntilItCloses ==
  [][\A c, d \in Conn : RemoveDevice(c) /\ d # c /\ Live(d) => yamux'[d] = "open"]_vars

=============================================================================

# Verification of mini-shellhub

TLA+ models of mini-shellhub's server and agent, checked with TLC on small
instances and, for safety, proved with TLAPS for all instances. Paths are
relative to the repository.

## The system

An **agent** on a device opens a websocket to the **server** (`/ssh/connection`)
and speaks yamux over it. An SSH client connects to the server as
`user@device`; the server opens a yamux stream to the device's agent, runs an SSH
handshake of its own on it, and bridges the client's channels to channels of the
agent's SSH server, which starts the processes.

| Component | State | Operations | Interacts with |
|---|---|---|---|
| Device registry (`ssh/main.go`, `ssh/server/tunnel.go`) | id -> yamux session, an RWMutex, one handler per agent connection | `handleDeviceConnection`, `AddDevice`, `RemoveDevice`, `OpenStream` | called by HTTP requests and by `Session.Dial` |
| SSH session (`ssh/session`, `ssh/server/server.go`, `ssh/server/auth`) | snapshot state, `Agent.Conn`, `Agent.Client`, seats, channel maps | banner callback, password and key handlers, `Dial`, `Auth`, `NewClientChannel`, `NewAgentChannel`, `Finish` | dials the registry; the channel handlers use it |
| Session channel bridge (`ssh/server/channels/session.go`, `utils.go`) | five goroutines, the `done` channel, request queues, the agent connection's queue of global requests | forward requests both ways, pass keepalives on, start the pipe, copy, close | client's and agent's channel |
| TCP forwarding (`ssh/server/channels/tcpip.go`) | two ends, two copy loops | dial through the agent, accept, copy, close | SSH session |
| Agent forwarding (`session.go`, `hose` in `utils.go`) | the channels opened so far, two copy loops | accept the agent's channel, open the client's, copy, pass EOF on | started by the session channel bridge |
| Websocket stream (`pkg/yamuxws`) | the current message's reader, a lock for each direction | `Read`, `Write`, `Close` | under yamux on both sides |
| Agent binary (`agent/main.go`) | none | connect, accept streams | agent SSH server |
| Agent library (`agent/pkg/agent/agent.go`, `pkg/tunnel`, `pkg/keygen`) | the key file, `pubKey`, `closed`, `listening`, the tunnel's HTTP server, a proxy's two connections | `Initialize`, `Listen`, `ping`, `Close`, the proxy handler | reverse listener, server API, services on the device |
| Agent SSH server (`agent/pkg/agent/server`, `modes/host`) | `cmds`, the connection's context, processes | request callback, session handler, `Shell`, `Heredoc`, `Exec`, `SFTP`, close callback | called over the bridge |
| Parsing, modes | none that changes | - | - |

What is hard here: agents that reconnect while their old connection is cleaned
up; a registry lock held across a network wait; authentication attempts in any
order against a session that changes state; goroutines that must agree on when a
channel may be closed, and relays that must not cut each other off; a byte stream
made of messages; processes that must not outlive their connection; an identity
that must survive a crash while it is being made; a reconnecting loop that hands
its status to another goroutine over an unbuffered channel. `PROJECT.json` lists
these hazards with their lines.

What makes each part correct:

- registry: a live tunnel is reachable, a dead one is forgotten, a stream only
  runs over the current route, nobody waits for ever on the lock;
- session: who is admitted by password has an agent behind it; one stream per
  session, fresh for each handshake, released at the end;
- bridge: no output and no exit status is lost, both ends terminate;
- relays: nothing that reaches a copy is lost while the destination is there; no
  relay outlives the client, unless keepalives have jammed the agent connection,
  and one that returns has closed what it opened;
- websocket stream: the bytes written come out once, in order, and all of them;
- agent library: it has one identity for ever, reconnects, pings only while it
  listens, stops when told;
- agent sessions: complete output, no leaked processes.

## Modules

```
Reachability  <- ReachabilityProofs    what the registry promises (abstract)
  ^ implemented by      DeviceManager  <- DeviceManagerProofs
  ^ extended by         SshSession     <- SshSessionProofs
                        (sessions see the registry through its promise)
Stream                  what a path for data promises its reader (abstract)
  ^ implemented by      Bridge         <- BridgeProofs
                        (one session channel once both sides are open)
                        Relay          <- RelayProofs
                        (TCP forwards, agent forwarding, the HTTP proxy)
WSConn        <- WSConnProofs          a byte stream over websocket messages
AgentIdentity                          Initialize and the key file, over restarts
  ^ extended by         AgentListen    <- AgentListenProofs
                        (the agent library's loop, ping and Close)
Sessioner     <- SessionerProofs       the sessions of one connection on the agent
```

**Reachability** keeps `reach` (key -> live tunnel), the tunnels that are
`spent`, and for each dial what it `asked` for and the tunnel its `stream` runs
over. A tunnel is attached at most once, replaces the one before, and ends its
streams when it is lost.

**DeviceManager** has one handler per connection (`pc`, with states named after
the point the code has reached) and one dial per dialer (`dpc`). A write-locked
section is one step, guarded by `Readers = {}`; a reader that arrives while a
writer waits has to wait, and `Unlock` admits the waiting readers
(`AdmitReaders`), as `sync.RWMutex` does. `OpenStream` is three steps because the
read lock is held across `session.Open`. yamux is external: a session is open or
closed, at most `Backlog` streams may be unacknowledged, `Open` blocks beyond
that, and an unacknowledged stream closes its session after the open timeout. A
device id is a name with or without a tenant; `DialKey` is what `Session.Dial`
makes of it.

**SshSession** is one client connection. `at` says which callback the library's
goroutine is in, `state` is the snapshot's state, `agentConn`/`agentClient` are
`Agent.Conn`/`Agent.Client` named by the dial whose stream they are. `raw` holds
streams on which no handshake was tried. The client may try passwords, offer keys
and sign in any order; every channel handler runs interleaved with the others,
with `NewSeat`'s unlocked increment split into its read and its write.
`panicked` says that the server is down, for one of two reasons: a handler
dereferenced a nil session or agent client, or two of them used one of the
unlocked maps `Client.Channels` and `Agent.Channels` at once and the runtime
noticed (`MapMisused`). Other ways a server may end are not in the model.

**Bridge** has a program counter for each goroutine: `G` (global requests), `A`
(agent requests), `C` (client requests), `P1` and `P2` (the pipe). Output is
counted in chunks: `out` has arrived from the agent, `got` was written to the
client. `ClientOpen` and `AgentOver` say when writing fails and reading ends; a
client that is connected and has stopped reading (`stalled`) leaves P1 in its
write for as long as the connection lasts.
`globals` are the agent's keepalives that have arrived and that `G` has not
taken. x/crypto reads a connection in one goroutine, which blocks on a full
queue (`Stuck`): then nothing that the agent sends arrives any more. The queue
belongs to the agent connection; the model is of the last session channel on it.
`OutputIsStream` is the refinement: `put` is `out`, `told` is `closed`, and the
reader is `gone` when the client closed its channel or its connection.

**Relay** has the three other relays in one module, because they differ only in
how they end (`kind`): a TCP forward waits for both copies, a hose passes each
end on with `CloseWrite` and keeps its channels open until its goroutine ends, a
proxy closes both ends with the first copy. `end` is what each end was seen to
do, `stalled` the ends that do not read; the handler goes from `start` over
`dialed` (one end is open) to `relay`. Each way to fail or to return is an action
with the closes that are deferred at that point (`ForwardRefused`, `AcceptFails`,
`ChannelsEnd`, `ClientRefuses`, `ProxyDialFails`, `HijackFails`, `ForwardReturns`,
`ProxyReturns`). A hose's goroutine goes on to the next channel; `kept` counts the
ends it has put off closing. A proxy's client is there before it is taken over:
what it sends until then may be in the reader that `Hijack` returns and the
handler drops (`dropped`). The agent connection of the other two may be `jammed`,
as `Bridge` shows: then nothing comes from the agent and the end of the
connection (`cut`) is not seen, until a new session channel takes the keepalives
again. `ForwardIsStream` is the refinement for a TCP forward, one `Stream` for
each direction: `put` is `sent`, `got` is `passed`, the reader is told when its
end is closed.

**WSConn** is one direction of a websocket connection. A byte is its position in
the order in which `Write` calls got the lock, so a frame is an interval and
"once and in order" is arithmetic. The websocket library may fragment a message,
returns it in pieces up to the reader's buffer and ends it with `io.EOF`, which
`Read` turns into zero bytes without an error. A text message and a connection
that breaks with frames in flight are included.

**AgentIdentity** is `Initialize`, step by step, with the process stopped between
any two of them. The key file is `Absent`, `Torn` (created but not completely
written) or a key; `registered` are the keys the server was asked to register.

**AgentListen** has `loop`, `ping`, `main` (Listen itself) and `closer` (a Close
from the program), all of them running when `Initialize` has returned and ending
with the process (`ProcessStops`). Reports on `a.listening` are rendezvous steps; a
send before `ping` has made the channel blocks for ever (`nilSend`). `maxRetry` is
the process's `MaxRetryConnectionTimeout`, any number, because only
`LoadConfigFromEnv` validates it; up to 10 it makes `rand.Intn` panic in `ping`.
The package does not build in this repository because types it names are missing;
it is modelled from its text.

**Sessioner** has the sessions of one connection. `asked` and `pty` are what the
client asked for, `kind` is what `sessionHandler` took it for after reading the
shared `requestType`. `killer` is the goroutine that waits for the connection and
kills the process; a process may block for ever on a full stderr, which is read
only after its stdout (`Blocks`); `cmds` is the connection's entry in the map of
shells, `callbacks` the calls of the close callback still to come.

Definitions next to an operation with a name such as `ForgetWithoutClosing` or
`AEndsAndCloses` are faulty variants of it. No specification uses them; they
record which fault each property detects (`mutants` in `PROJECT.json`).

## Runs

| Run | Instance | States | Shows |
|---|---|---|---|
| `registry` | 1 name (2 ids), 2 connections, 2 dials, backlog 1 | 45,591 | map and tunnels consistent, dials return, writers get in, `Reachability` implemented |
| `session` | 1 key, 2 tunnels, 2 dials, 2 session channels, 1 forward, 2 tries | 494,863 | admission, redial, what takes the server down, the stream released |
| `bridge` | 2 requests, 2 chunks, queue of 1 | 455,186 | completeness, termination, `Stream` implemented |
| `listen` | retry timeouts 0, 10, 11, 2 keys | 3,069 | one identity over restarts, reconnecting, pings, cancellation |
| `sessioner` | 2 sessions, 1 chunk | 150,719 | completeness, killing |
| `relay` | 2 chunks from each end, 2 forwarded channels | 106,938 | nothing lost but what `Hijack` held, ends of relays, `Stream` implemented by a TCP forward |
| `wsconn` | 2 writers, messages up to 4, buffer 2, 6 bytes | 131,433 | order, progress, delivery |
| `evict` | as `registry`, 1 dial | | violated: an old handler's cleanup closes the new agent's session |
| `keepalive` | 1 request, 1 chunk, queue of 1 | | violated: keepalives for a closed channel stop the agent connection |
| `close` | retry timeout 11, 1 key | | violated: Close during a connect leaves Listen blocked |
| `exec` | 1 session | | violated: a silent command outlives its connection |
| `type` | 2 sessions | | violated: a session is handled as what another one asked for |

The violated properties state what a comment or document of the repository says;
`findings` quotes the line. Each takes several steps of at least two actors.

**Bounds.** Two connections are the least that can race for an id; the safety
part of `registry` also holds with three (1.3 million states). With a backlog of
one a second dial blocks, which is the case the lock discipline is about. Two
dials per session let a redial happen while the old stream is remembered. Two
tries let a refused attempt be followed by another. Two requests are a pty with
a shell or a command, the longest sequence the bridge distinguishes; two chunks
separate "some copied" from "all copied". A queue of one keepalive fills as the
real one of sixteen does, only sooner. Two forwarded channels show what a hose
carries over from one to the next. Of the timeouts, 0 is `NewAgent`'s, 10 the
smallest valid one and 11 the smallest that works. Messages of one to four bytes against a
buffer of two are shorter, equal, longer and twice as long, and six bytes leave
room for messages of both writers. Two keys let a second one be made, if the code
let it. Two sessions are enough to overwrite a
request type and an entry of `cmds`. The safety theorems below remove the bounds.

**Deadlock** is checked for `registry`. It is off where the system may stop: the
server and the agent can panic, a client that has left starts nothing new, and
`Listen` and the relays return; a websocket connection may carry no more.

**Fairness.** Goroutines that can run do (weak fairness). A blocked `Open` gets
a slot that is freed again and again, because blocked sends on a Go channel are
served in order (strong fairness). The loop's report and its connect are taken if
they are possible again and again: `select` chooses at random, and retries go on
for ever. yamux's open timeout and the agent's SSH server are assumed to work:
the latter answers requests and drops a stream that carries something other than
SSH. In `Bridge` both are strongly fair, because keepalives that arrive in between
may disable them, but not for ever; there nothing is asked of the goroutines while
a client that is connected does not read, since one of them may be in a write to
it. In `Relay` a dial comes to its end unless the connection it would hear of it by
is jammed, a failed attempt to open the second end is noticed (for a hose, once
the client is gone), and a reader that is not blocked sees its connection end.
yamux reads until it gets an error. Clients, a relay's ends and processes may stay
silent, stall and run for ever, and an agent need not accept streams; the
properties that such a party can hold up say so (`stalled` in `CommandEnds`,
`RelayEnds` and `EofPassed`, the jam in `HandlerReturns` and `EndsWithClient`).
Only sftp-server is assumed to end with its input.

## Proofs

All theorems are of the form `Spec => []Inv`, but for the refinements and the
action properties `FreshHandshake` and `NeverComesBack`. Constants
are assumed only to be of their kind (`None` is none of the others, bounds are
natural numbers), and the channels of one client to be finitely many: a
connection has opened finitely many at any moment, and the seats are compared
with their number.

- `ReachabilityProofs`: `RouteInv` adds to `StreamsFollowRoute` that what is
  reached is spent (`RoutesAreSpent`) and serves one key (`TunnelServesOneKey`).
  Both are needed: ending the streams of a lost tunnel leaves no stream behind
  only if no other key resolves to it, and a fresh tunnel is nobody's route only
  because routes are spent. `LostForGood` is the action property that goes with
  it. These theorems come down to the code twice: `DeviceManagerProofs` takes
  them over by `RegistryKeepsPromise` (`RegistryLosesForGood`), `SshSessionProofs`
  by `SessionKeepsToRegistry` (`SessionFollowsRoute`).
- `DeviceManagerProofs`: `RegistryInv` is the conjunction of `TypeOK`,
  `LiveIsMapped`, `MappedIsServed` and `OpenedIsMapped`. None but the types is
  inductive alone: `AddDevice` keeps the live tunnels mapped because what it
  replaces was mapped by one handler only, and a lookup keeps streams on the
  current route because whatever is mapped has a session.
  `RegistryKeepsPromise` shows that every step maps to a step of `Reachability`
  or to a stutter: `AddDevice` attaches (or loses a route, if its session died
  before), `RemoveDevice`, lost peers and timeouts lose the route of the session
  they close, `Open` connects, everything else is invisible.
  `RegistryNeverFreezes` is what safety can say of the lock: a waiting reader has a
  writer before it, which waits only for readers that are inside `Open`, and those
  get an error or a slot or have an unacknowledged stream before them, whose
  timer runs. The writers are the delicate part: only an unlock takes the last
  one away, and it admits the waiting readers.
- `BridgeProofs`: `NoTruncation` and `ExitStatusDelivered` speak of the moment
  the channel is closed; `BridgeInv` says what A and P1 know before it, that the
  agent is over and everything was copied, and that this stays true because an
  agent's channel is closed under a connected client only by the agent's exit.
  `BridgeDeliversStream` follows from it: a close is a `Tell` because everything
  was copied, and no chunk comes after it because the agent is over.
  `DoneNeverDeadlocks` adds that a granted command has a pipe (`Piped`): once the
  agent is over, every combination of A's and P1's positions leaves one of them a
  step, until the channel is closed, unless P1 writes to a client that does not
  read.
- `RelayProofs`: `RelayInv` adds `ClosePolicy`, that only a proxy closes an end
  while it relays or drops data; without it `NothingLost` is not inductive, since a
  copy also ends when its end was closed under it. `ForwardDeliversStreams` needs
  also that an end that was not opened has sent nothing: then closing early, on a
  failed set-up, tells nobody less than everything. What the paths close is not a
  theorem; `EndsWithClient` checks it in the run.
- `WSConnProofs`: `Contiguous` says that the rest of the current frame, the frames
  on the wire and what the lock's holder has still to send follow each other
  without a gap, from the last byte returned to the last byte a writer was
  given; a break may only cut off its end. `InOrder` is its first conjunct, and
  `WSNothingStranded` its reading for a connection at rest.
- `AgentListenProofs`: `PingsOnlyWhileListening` is inductive with the types;
  `StableIdentity` needs `KeyOnDisk`: the key a process has read is the file's, and
  a process that is to write the file found none, when no key was registered.
  `ListenNeverGivesUp` is inductive with the order in which Listen ends; it allows
  the panic of a ping, for timeouts up to 10 only.
- `SessionerProofs`: `DrainedFirst` strengthens `ExecOutputComplete` to every
  point after the drain and adds that no output can follow; `ProcKnown` says
  which handlers have a process. `NobodyEscapesKiller` needs that `Heredoc` starts
  its killer before its process (`KillerFirst`), and that a killer that finds no
  process ends the agent instead of the process.
- `SshSessionProofs`: the snapshot's state alone decides what a handler may do,
  so `SessionInv` says what each state means (`StateMeans`: no agent connection
  up to created, an unused one or none in evaluated, a client over the session's
  own connection in finished), what holds within an attempt (`AttemptMeans`), and
  what admission left behind (`AdmissionMeans`). `PanicNeedsKey` follows because a
  panicked server takes no further step: what was so when it went down still is.
  `OneStream` counts dials and
  needs to know whose they are (`Holds`: outside a dial, only the session's own).
  `SessionTypeOK` bounds the seats, which are handed out by an unlocked increment:
  `SeatsBounded` counts the handlers that have written `next` back
  (`Incremented`); `next`, and every value read from it, is at most their number,
  because a handler that writes joins them in the same step. Lost increments only
  make it smaller.

Only model-checked: the liveness properties (fairness and `ENABLED` are out of the
prover's reach here). Where such a property rests on nobody waiting for nobody,
that part is proved: `RegistryNeverFreezes`, `DoneNeverDeadlocks`,
`WSNothingStranded`, `NobodyEscapesKiller`.

## Not modelled

- Target and host parsing, modes, and the sftp helper: string splitting, wiring
  and process start-up without state of their own.
- Session recording and API events: no-ops in this build.
- Of the agent library: configuration loading, the update check and `GetInfo` (a
  request each), `sshHandler` and `CloseSession`. The last two are routes that the
  server of this repository never uses: `Finish` writes its DELETE into the stream
  of the SSH connection, where the agent reads SSH.
- pty sizes and environments; websocket deadlines (yamux does not set any);
  cryptography: a key is an opaque value.
- A power failure that takes back what was not synced to the key file, and two
  processes that share one key file.
- Several session channels over one agent connection in one module: `Bridge` is of
  the last one, `SshSession` has their seats and set-up.

Behaviour that is in the models and that no property forbids, worth knowing:

- two channels opened at once can share a seat, and can end the whole server with a
  concurrent access to a map;
- an agent whose `MaxRetryConnectionTimeout` is 10, which is valid, or 0, which is
  what `NewAgent` leaves, goes down with its first ping, although the package
  comment (`agent.go:8`) promises that it reconnects;
- a password that follows an offered key is refused without a try;
- a shell without a pty (`ssh -T`) is granted but never piped, and an agent that
  dies before the first answer leaves the client's channel open;
- the end of one direction of a TCP forward is not passed on to the other side;
  the first end of a proxied connection cuts the other direction off, and what its
  client sends before the hijack may be dropped with `Hijack`'s reader;
- while an agent connection is jammed, the relays and bridges over it outlive their
  client;
- a hose relays one channel at a time and keeps the finished ones open; a second
  request for agent forwarding on a connection waits for ever;
- a second shell of one connection overwrites the first in `cmds`, and a shell
  that registers after the close callback is not killed;
- output left in a heredoc's pipe is lost when its process ends; a command that
  fills its stderr while its stdout is open hangs;
- a key file left torn by a crash is never repaired: every later start fails;
- an agent registered under a bare id is looked up under `default:id` and not
  found.

## Plan

Done: all components that keep state, with their runs; every safety property of a
passing run and all refinements proved.

1. Several session channels over one agent connection: who of their goroutines
   takes the shared global requests.
2. The agent's exec output (`Sessioner`) as a `Stream`, and its composition with
   `Bridge`'s.
3. The safety parts of the remaining liveness properties: `RegisteredShellIsKilled`,
   `StreamReleased`, `EofPassed`.

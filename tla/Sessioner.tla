----------------------------- MODULE Sessioner -----------------------------
(***************************************************************************)
(* The agent's SSH server for one connection of the server                 *)
(* (agent/pkg/agent/server and its host mode): the session channels of the *)
(* connection, how each one's request is turned into a shell, a heredoc, a *)
(* command or sftp, the process that is started for it, the goroutines     *)
(* that copy its output and kill it, and the connection's close callback   *)
(* that kills the shell registered in cmds.                                *)
(*                                                                         *)
(* The request type is kept in the context of the connection, which all    *)
(* its sessions share, and so is the key under which a shell is registered *)
(* (cmds is its entry for this connection).  Processes and the libraries   *)
(* gliderlabs/ssh and os/exec are external.  Output is counted in chunks.  *)
(***************************************************************************)
EXTENDS Naturals

CONSTANTS Sess,    \* session channels of the connection
          MaxOut,  \* bound on the chunks a process writes
          None

ASSUME SessionerAssumption == None \notin Sess /\ MaxOut \in Nat

VARIABLES
  conn,         \* open or closed
  callbacks,    \* calls of the close callback that are still to come
  requestType,  \* request_type in the connection's context
  cmds,         \* the session whose shell is registered, or None
  asked,        \* what the client asked for on each session
  pty,          \* ... and whether it asked for a pty before
  kind,         \* what sessionHandler took it for
  pc,           \* where its handler is
  proc,         \* its process: none, running, blocked on stderr, ended
  out,          \* chunks the process has written
  got,          \* chunks written to the session
  eof,          \* the process has closed its output
  exited,       \* the exit status was sent
  killer,       \* the goroutine that kills it: none, waiting, done
  panicked      \* nil was dereferenced or a map misused: the agent is down

connVars == <<conn, callbacks, requestType, cmds>>
askVars == <<asked, pty, kind>>
procVars == <<proc, out, got, eof>>
vars == <<connVars, askVars, pc, procVars, exited, killer, panicked>>

Alive(s) == proc[s] \in {"running", "blocked"}

Kind == {"shell", "heredoc", "exec", "sftp"}
Request == {"shell", "exec", "subsystem"}

\* Every value has its type; a registered shell has a process the close callback
\* can kill; no exit status is sent while the process runs.
SessionerTypeOK ==
  /\ conn \in {"open", "closed"} /\ callbacks \in 0..2
  /\ requestType \in Request \cup {None} /\ cmds \in Sess \cup {None}
  /\ asked \in [Sess -> Request \cup {None}] /\ pty \in [Sess -> BOOLEAN]
  /\ kind \in [Sess -> Kind \cup {None}]
  /\ pc \in [Sess -> {"idle", "requested", "begun", "register", "drain", "wait", "done"}]
  /\ proc \in [Sess -> {"none", "running", "blocked", "ended"}]
  /\ out \in [Sess -> 0..MaxOut] /\ got \in [Sess -> 0..MaxOut]
  /\ eof \in [Sess -> BOOLEAN] /\ exited \in [Sess -> BOOLEAN]
  /\ killer \in [Sess -> {"none", "waiting", "done"}] /\ panicked \in BOOLEAN
  /\ cmds # None => kind[cmds] = "shell" /\ proc[cmds] # "none"
  /\ \A s \in Sess : got[s] <= out[s] /\ (exited[s] => ~ Alive(s))

Init ==
  /\ conn = "open" /\ callbacks = 0 /\ requestType = None /\ cmds = None
  /\ asked = [s \in Sess |-> None] /\ pty = [s \in Sess |-> FALSE]
  /\ kind = [s \in Sess |-> None] /\ pc = [s \in Sess |-> "idle"]
  /\ proc = [s \in Sess |-> "none"]
  /\ out = [s \in Sess |-> 0] /\ got = [s \in Sess |-> 0]
  /\ eof = [s \in Sess |-> FALSE] /\ exited = [s \in Sess |-> FALSE]
  /\ killer = [s \in Sess |-> "none"] /\ panicked = FALSE

-----------------------------------------------------------------------------
Step(s, from, to) == pc[s] = from /\ pc' = [pc EXCEPT ![s] = to]

KilledBy(s) == [proc EXCEPT ![s] = IF Alive(s) THEN "ended" ELSE @]

\* GetSessionType and the switch of sessionHandler.
SessionType(isPty, r) ==
  CASE r = "shell" /\ isPty -> "shell"
    [] r = "shell" /\ ~ isPty -> "heredoc"
    [] OTHER -> "exec"

\* sessionRequestCallback stores the type in the shared context; the handler
\* starts in a goroutine of its own.  sftp has a handler of its own.
Requested(s, r, p) ==
  /\ conn = "open"
  /\ Step(s, "idle", IF r = "subsystem" THEN "begun" ELSE "requested")
  /\ requestType' = r
  /\ asked' = [asked EXCEPT ![s] = r] /\ pty' = [pty EXCEPT ![s] = p]
  /\ kind' = [kind EXCEPT ![s] = IF r = "subsystem" THEN "sftp" ELSE None]
  /\ UNCHANGED <<conn, callbacks, cmds, procVars, exited, killer, panicked>>

DispatchedRegistering(s) ==
  /\ LET k == SessionType(pty[s], requestType)
     IN  /\ kind' = [kind EXCEPT ![s] = k]
         /\ killer' = [killer EXCEPT ![s] = IF k = "heredoc" THEN "waiting" ELSE @]
         /\ cmds' = IF k = "shell" THEN s ELSE cmds
         /\ IF k = "exec" /\ asked[s] # "exec"
            THEN Step(s, "requested", "done") /\ exited' = [exited EXCEPT ![s] = TRUE]
            ELSE Step(s, "requested", "begun") /\ UNCHANGED exited
  /\ UNCHANGED <<conn, callbacks, requestType, asked, pty, procVars, panicked>>

\* sessionHandler reads the type back.  Heredoc starts its killer before the
\* process; Exec without a command exits with status 1.
Dispatched(s) ==
  /\ LET k == SessionType(pty[s], requestType)
     IN  /\ kind' = [kind EXCEPT ![s] = k]
         /\ killer' = [killer EXCEPT ![s] = IF k = "heredoc" THEN "waiting" ELSE @]
         /\ IF k = "exec" /\ asked[s] # "exec"
            THEN Step(s, "requested", "done") /\ exited' = [exited EXCEPT ![s] = TRUE]
            ELSE Step(s, "requested", "begun") /\ UNCHANGED exited
  /\ UNCHANGED <<connVars, asked, pty, procVars, panicked>>

\* The client asked for agent forwarding and that cannot be set up.
ForwardingFails(s) ==
  /\ Step(s, "requested", "done")
  /\ exited' = [exited EXCEPT ![s] = TRUE]
  /\ UNCHANGED <<connVars, askVars, procVars, killer, panicked>>

\* What the handler does once its process runs.
AfterStartDraining(s) ==
  CASE kind[s] = "shell" -> "register" [] kind[s] = "exec" -> "drain" [] OTHER -> "wait"

AfterStartWaiting(s) == IF kind[s] = "shell" THEN "register" ELSE "wait"

AfterStart(s) ==
  CASE kind[s] = "shell" -> "register"
    [] kind[s] = "exec" /\ ~ pty[s] -> "drain"
    [] OTHER -> "wait"

\* An exec without a pty has its killer only when its output has ended.
KillerAt(s, at) ==
  [killer EXCEPT ![s] = IF kind[s] = "exec" /\ at = "wait" THEN "waiting" ELSE @]

Started(s) ==
  /\ Step(s, "begun", AfterStart(s))
  /\ proc' = [proc EXCEPT ![s] = "running"]
  /\ killer' = KillerAt(s, AfterStart(s))
  /\ UNCHANGED <<connVars, askVars, out, got, eof, exited, panicked>>

\* SFTP closes the session before gliderlabs/ssh could send a status.
ExitSent(s) == [exited EXCEPT ![s] = kind[s] # "sftp"]

\* The process does not start: Shell uses the nil pty, Heredoc goes on to send
\* an exit status, Exec and SFTP return.
StartFails(s) ==
  /\ Step(s, "begun", "done")
  /\ panicked' = (kind[s] = "shell")
  /\ exited' = ExitSent(s)
  /\ UNCHANGED <<connVars, askVars, procVars, killer>>

\* Shell registers its command, under a mutex the close callback does not use.
Registered(s) ==
  /\ Step(s, "register", "wait")
  /\ cmds' = s
  /\ UNCHANGED <<conn, callbacks, requestType, askVars, procVars, exited, killer, panicked>>

\* The output has ended and was copied, or cannot be written any more.
Drained(s) ==
  /\ IF got[s] = out[s] THEN eof[s] ELSE conn = "closed"
  /\ Step(s, "drain", "wait")
  /\ killer' = KillerAt(s, "wait")
  /\ UNCHANGED <<connVars, askVars, procVars, exited, panicked>>

\* cmd.Wait returns, what is left in the pipe is lost, the exit status is sent.
Waited(s) ==
  /\ Step(s, "wait", "done")
  /\ proc[s] = "ended"
  /\ exited' = ExitSent(s)
  /\ UNCHANGED <<connVars, askVars, procVars, killer, panicked>>

\* The goroutine that copies the process's output to the session.
Copied(s) ==
  /\ got[s] < out[s] /\ conn = "open" /\ pc[s] # "done"
  /\ got' = [got EXCEPT ![s] = @ + 1]
  /\ UNCHANGED <<connVars, askVars, pc, proc, out, eof, exited, killer, panicked>>

\* serverConn.Wait returned: cmd.Process is nil if the process never started.
Killed(s) ==
  /\ conn = "closed" /\ killer[s] = "waiting"
  /\ killer' = [killer EXCEPT ![s] = "done"]
  /\ proc' = KilledBy(s)
  /\ eof' = [eof EXCEPT ![s] = @ \/ Alive(s)]
  /\ panicked' = (proc[s] = "none")
  /\ UNCHANGED <<connVars, askVars, pc, out, got, exited>>

-----------------------------------------------------------------------------
\* The connection ends; x/crypto closes it, and gliderlabs/ssh closes it again.
Closes ==
  /\ conn = "open"
  /\ conn' = "closed" /\ callbacks' = 2
  /\ UNCHANGED <<requestType, cmds, askVars, pc, procVars, exited, killer, panicked>>

CallbackForgets ==
  /\ callbacks > 0
  /\ callbacks' = callbacks - 1 /\ cmds' = None
  /\ UNCHANGED <<conn, requestType, askVars, pc, procVars, exited, killer, panicked>>

\* The close callback kills the registered shell.
Callback ==
  /\ callbacks > 0
  /\ callbacks' = callbacks - 1 /\ cmds' = None
  /\ IF cmds = None THEN UNCHANGED <<proc, eof>>
     ELSE proc' = KilledBy(cmds) /\ eof' = [eof EXCEPT ![cmds] = TRUE]
  /\ UNCHANGED <<conn, requestType, askVars, pc, out, got, exited, killer, panicked>>

\* cmds is written by Shell and read by the callback under different mutexes:
\* the runtime may end the agent for it.
MapMisused(s) ==
  /\ pc[s] = "register" /\ callbacks > 0
  /\ panicked' = TRUE
  /\ UNCHANGED <<connVars, askVars, pc, procVars, exited, killer>>

-----------------------------------------------------------------------------
(* Processes: they write, may close their output, and may end; sftp-server *)
(* ends when its input does.                                               *)

Writes(s) ==
  /\ proc[s] = "running" /\ ~ eof[s] /\ out[s] < MaxOut
  /\ out' = [out EXCEPT ![s] = @ + 1]
  /\ UNCHANGED <<connVars, askVars, pc, proc, got, eof, exited, killer, panicked>>

ClosesOutput(s) ==
  /\ proc[s] = "running" /\ ~ eof[s]
  /\ eof' = [eof EXCEPT ![s] = TRUE]
  /\ UNCHANGED <<connVars, askVars, pc, proc, out, got, exited, killer, panicked>>

Ends(s) ==
  /\ proc[s] = "running"
  /\ proc' = [proc EXCEPT ![s] = "ended"] /\ eof' = [eof EXCEPT ![s] = TRUE]
  /\ UNCHANGED <<connVars, askVars, pc, out, got, exited, killer, panicked>>

\* Without a pty stderr is read only when stdout has ended: a process that fills
\* its pipe meanwhile does nothing any more.
Blocks(s) ==
  /\ proc[s] = "running" /\ ~ eof[s]
  /\ kind[s] = "heredoc" \/ (kind[s] = "exec" /\ ~ pty[s])
  /\ proc' = [proc EXCEPT ![s] = "blocked"]
  /\ UNCHANGED <<connVars, askVars, pc, out, got, eof, exited, killer, panicked>>

Handler(s) ==
  \/ Dispatched(s) \/ ForwardingFails(s) \/ Started(s) \/ StartFails(s) \/ Registered(s)
  \/ Drained(s) \/ Waited(s)

SftpEnds(s) == kind[s] = "sftp" /\ conn = "closed" /\ Ends(s)

Next ==
  /\ ~ panicked
  /\ \/ Closes \/ Callback
     \/ \E s \in Sess :
          \/ \E r \in Request, p \in BOOLEAN : Requested(s, r, p)
          \/ Handler(s) \/ Copied(s) \/ Killed(s) \/ MapMisused(s)
          \/ Writes(s) \/ ClosesOutput(s) \/ Ends(s) \/ Blocks(s)

Spec == Init /\ [][Next]_vars

(***************************************************************************)
(* Fairness: the goroutines run, the close callback is called, sftp-server *)
(* ends with its input.  No other process has to end, write or be silent.  *)
(***************************************************************************)
FairSpec ==
  /\ Spec /\ WF_vars(~ panicked /\ Callback)
  /\ \A s \in Sess :
       /\ WF_vars(~ panicked /\ Handler(s)) /\ WF_vars(~ panicked /\ Copied(s))
       /\ WF_vars(~ panicked /\ Killed(s)) /\ WF_vars(~ panicked /\ SftpEnds(s))

-----------------------------------------------------------------------------
\* A command without a pty has all its output on the session before its exit
\* status is sent: Exec waits for the copy before it waits for the process.
ExecOutputComplete ==
  \A s \in Sess :
    kind[s] = "exec" /\ ~ pty[s] /\ exited[s] /\ conn = "open" => got[s] = out[s]

\* Heredocs, commands with a pty and sftp do not outlive their connection,
\* whenever it ends: before the process starts, while it runs, while it is
\* blocked on its output or as it exits.
EndsWithConnection ==
  \A s \in Sess :
    <>[](conn = "closed" /\ (kind[s] \in {"heredoc", "sftp"} \/ (kind[s] = "exec" /\ pty[s]))
           => ~ Alive(s) \/ panicked)

\* A shell that is in cmds when its connection closes is killed, unless another
\* shell of the same connection has taken its place there before the callback.
RegisteredShellIsKilled ==
  \A s \in Sess :
    cmds = s /\ callbacks = 2 ~>
      ~ Alive(s) \/ panicked \/ cmds \notin {s, None}

\* "kill the process if the SSH connection is interrupted" (sessioner.go:247).
ExecEndsWithConnection ==
  \A s \in Sess :
    conn = "closed" /\ kind[s] = "exec" /\ Alive(s) ~> ~ Alive(s) \/ panicked

\* "the session's type returned when the SSH client requests a shell", "...
\* requests a command execution" (server/session.go:18-24): every session is
\* taken for what its own client asked for.
TypeIsOwnRequest ==
  \A s \in Sess :
    kind[s] \notin {None, "sftp"} => kind[s] = SessionType(pty[s], asked[s])

=============================================================================

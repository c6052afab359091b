-------------------------- MODULE SessionerProofs --------------------------
(***************************************************************************)
(* A command without a pty has its whole output on the session when its    *)
(* exit status is sent, for any number of sessions and any amount of       *)
(* output.  While the connection is open, a handler is past the drain of   *)
(* such a command only if all its output was copied and no more can come:  *)
(* the output is at its end, or the process never started (DrainedFirst).  *)
(* That needs to know which handlers have a process at all (ProcKnown).    *)
(***************************************************************************)
EXTENDS Sessioner, TLAPS

\* Where a handler may be without a process, and with one that runs.
ProcKnown ==
  \A s \in Sess :
    /\ pc[s] \in {"idle", "requested", "begun"} => proc[s] = "none" /\ ~ exited[s]
    /\ pc[s] \in {"register", "drain", "wait"} => proc[s] # "none" /\ ~ exited[s]
    /\ pc[s] = "done" => ~ Alive(s)
    /\ pc[s] = "register" => kind[s] = "shell"
    /\ proc[s] = "none" => out[s] = 0 /\ got[s] = 0
    /\ pc[s] \in {"idle", "requested"} => kind[s] = None

\* Commands without a pty are drained before they are waited for.
DrainedFirst ==
  \A s \in Sess :
    kind[s] = "exec" /\ ~ pty[s] /\ pc[s] \in {"wait", "done"} /\ conn = "open" =>
      got[s] = out[s] /\ (eof[s] \/ proc[s] = "none")

SessionerInv == SessionerTypeOK /\ ProcKnown /\ DrainedFirst

\* The connection is open and nothing was asked for.
LEMMA SessionerInit == Init => SessionerInv
<1> SUFFICES ASSUME Init PROVE SessionerInv
  OBVIOUS
<1>1. panicked \in BOOLEAN
  BY DEF Init
<1>2. SessionerTypeOK
  BY <1>1, SessionerAssumption DEF Init, SessionerTypeOK, Alive
<1>3. ProcKnown /\ DrainedFirst
  BY DEF Init, ProcKnown, DrainedFirst, Alive
<1> QED BY <1>2, <1>3 DEF SessionerInv

\* Every step of a handler, its goroutines, the callback or a process preserves it.
LEMMA SessionerStep == SessionerInv /\ [Next]_vars => SessionerInv'
<1> SUFFICES ASSUME SessionerInv, [Next]_vars PROVE SessionerInv'
  OBVIOUS
<1> USE SessionerAssumption DEF SessionerInv, connVars, askVars, procVars, Step, Alive
<1>1. ASSUME NEW s \in Sess, NEW r \in Request, NEW p \in BOOLEAN, Requested(s, r, p)
      PROVE  SessionerInv'
  BY <1>1 DEF Requested, SessionerTypeOK, ProcKnown, DrainedFirst, Kind
<1>2. ASSUME NEW s \in Sess, Dispatched(s) PROVE SessionerInv'
  <2>1. SessionType(pty[s], requestType) \in Kind
    BY DEF SessionType, Kind
  <2>2. exited' \in [Sess -> BOOLEAN] /\ killer' \in [Sess -> {"none", "waiting", "done"}]
    BY <1>2 DEF Dispatched, SessionerTypeOK
  <2>3. SessionerTypeOK'
    BY <1>2, <2>1, <2>2 DEF Dispatched, SessionerTypeOK, ProcKnown
  <2>4. ProcKnown' /\ DrainedFirst'
    BY <1>2, <2>1 DEF Dispatched, SessionerTypeOK, ProcKnown, DrainedFirst
  <2> QED BY <2>3, <2>4
<1>3. ASSUME NEW s \in Sess, ForwardingFails(s) PROVE SessionerInv'
  BY <1>3 DEF ForwardingFails, SessionerTypeOK, ProcKnown, DrainedFirst
<1>4. ASSUME NEW s \in Sess, Started(s) PROVE SessionerInv'
  BY <1>4 DEF Started, AfterStart, KillerAt, SessionerTypeOK, ProcKnown, DrainedFirst
<1>5. ASSUME NEW s \in Sess, StartFails(s) PROVE SessionerInv'
  BY <1>5 DEF StartFails, ExitSent, SessionerTypeOK, ProcKnown, DrainedFirst
<1>6. ASSUME NEW s \in Sess, Registered(s) PROVE SessionerInv'
  BY <1>6 DEF Registered, SessionerTypeOK, ProcKnown, DrainedFirst
<1>7. ASSUME NEW s \in Sess, Drained(s) PROVE SessionerInv'
  BY <1>7 DEF Drained, KillerAt, SessionerTypeOK, ProcKnown, DrainedFirst
<1>8. ASSUME NEW s \in Sess, Waited(s) PROVE SessionerInv'
  BY <1>8 DEF Waited, ExitSent, SessionerTypeOK, ProcKnown, DrainedFirst
<1>9. ASSUME NEW s \in Sess, Copied(s) PROVE SessionerInv'
  BY <1>9 DEF Copied, SessionerTypeOK, ProcKnown, DrainedFirst
<1>10. ASSUME NEW s \in Sess, Killed(s) PROVE SessionerInv'
  BY <1>10 DEF Killed, KilledBy, SessionerTypeOK, ProcKnown, DrainedFirst
<1>11. CASE Closes
  BY <1>11 DEF Closes, SessionerTypeOK, ProcKnown, DrainedFirst
<1>12. CASE Callback
  <2>1. /\ proc' \in [Sess -> {"none", "running", "blocked", "ended"}] /\ eof' \in [Sess -> BOOLEAN]
        /\ \A s \in Sess : /\ proc'[s] = "none" <=> proc[s] = "none"
                           /\ Alive(s)' => Alive(s)
                           /\ eof[s] => eof'[s]
    <3>1. CASE cmds = None
      BY <1>12, <3>1 DEF Callback, SessionerTypeOK
    <3>2. CASE cmds # None
      BY <1>12, <3>2 DEF Callback, KilledBy, SessionerTypeOK
    <3> QED BY <3>1, <3>2
  <2> QED BY <1>12, <2>1 DEF Callback, SessionerTypeOK, ProcKnown, DrainedFirst
<1>13. ASSUME NEW s \in Sess, MapMisused(s) PROVE SessionerInv'
  BY <1>13 DEF MapMisused, SessionerTypeOK, ProcKnown, DrainedFirst
<1>14. ASSUME NEW s \in Sess, Writes(s) PROVE SessionerInv'
  BY <1>14 DEF Writes, SessionerTypeOK, ProcKnown, DrainedFirst
<1>15. ASSUME NEW s \in Sess, ClosesOutput(s) PROVE SessionerInv'
  BY <1>15 DEF ClosesOutput, SessionerTypeOK, ProcKnown, DrainedFirst
<1>16. ASSUME NEW s \in Sess, Ends(s) PROVE SessionerInv'
  BY <1>16 DEF Ends, SessionerTypeOK, ProcKnown, DrainedFirst
<1>17. ASSUME NEW s \in Sess, Blocks(s) PROVE SessionerInv'
  BY <1>17 DEF Blocks, SessionerTypeOK, ProcKnown, DrainedFirst
<1>18. CASE UNCHANGED vars
  BY <1>18 DEF vars, SessionerTypeOK, ProcKnown, DrainedFirst
<1> QED
  BY <1>1, <1>2, <1>3, <1>4, <1>5, <1>6, <1>7, <1>8, <1>9, <1>10, <1>11, <1>12, <1>13,
     <1>14, <1>15, <1>16, <1>17, <1>18
  DEF Next, Handler

\* The invariant holds in every reachable state.
THEOREM SessionerInvariant == Spec => []SessionerInv
  BY SessionerInit, SessionerStep, PTL DEF Spec

\* The close callback never meets a registered shell without a process, and no
\* status is sent for a process that runs (modes/host/sessioner.go:46-398).
THEOREM SessionerTypeCorrect == Spec => []SessionerTypeOK
  BY SessionerInvariant, PTL DEF SessionerInv

\* Exec sends the exit status after the whole output (sessioner.go:159-270).
THEOREM ExecIsComplete == Spec => []ExecOutputComplete
<1>1. SessionerInv => ExecOutputComplete
  BY DEF SessionerInv, SessionerTypeOK, ProcKnown, DrainedFirst, ExecOutputComplete
<1> QED BY <1>1, SessionerInvariant, PTL

-----------------------------------------------------------------------------
\* A heredoc or a command with a pty never runs without the goroutine that waits
\* for its connection to end in order to kill it, and whatever such a goroutine
\* has dealt with does not run.
NeverWithoutKiller ==
  \A s \in Sess :
    /\ Alive(s) /\ (kind[s] = "heredoc" \/ (kind[s] = "exec" /\ pty[s]))
         => killer[s] = "waiting"
    /\ killer[s] = "done" => ~ Alive(s)

\* Heredoc starts its killer first; a killer that finds no process ends the agent.
KillerFirst ==
  \A s \in Sess :
    /\ pc[s] \in {"idle", "requested"} => killer[s] = "none"
    /\ pc[s] = "begun" /\ kind[s] = "heredoc" => killer[s] = "waiting" \/ panicked
    /\ pc[s] = "begun" /\ kind[s] # "heredoc" => killer[s] = "none"
    /\ pc[s] = "drain" => kind[s] = "exec" /\ ~ pty[s] /\ killer[s] = "none"

\* Every step preserves both.
LEMMA KillerStep ==
  ASSUME SessionerInv, NeverWithoutKiller, KillerFirst, [Next]_vars
  PROVE  NeverWithoutKiller' /\ KillerFirst'
<1> USE SessionerAssumption
    DEF SessionerInv, SessionerTypeOK, ProcKnown, NeverWithoutKiller, KillerFirst, connVars,
        askVars, procVars, Step, Alive
<1>1. ASSUME NEW s \in Sess, NEW r \in Request, NEW p \in BOOLEAN, Requested(s, r, p)
      PROVE  NeverWithoutKiller' /\ KillerFirst'
  <2>1. proc[s] = "none" /\ killer[s] = "none"
    BY <1>1 DEF Requested
  <2> QED BY <1>1, <2>1 DEF Requested
<1>2. ASSUME NEW s \in Sess, Dispatched(s) PROVE NeverWithoutKiller' /\ KillerFirst'
  <2>1. proc[s] = "none" /\ killer[s] = "none"
    BY <1>2 DEF Dispatched
  <2> QED BY <1>2, <2>1 DEF Dispatched, SessionType
<1>3. ASSUME NEW s \in Sess, ~ panicked,
             ForwardingFails(s) \/ StartFails(s) \/ Registered(s) \/ Waited(s)
      PROVE  NeverWithoutKiller' /\ KillerFirst'
  BY <1>3 DEF ForwardingFails, StartFails, Registered, Waited
<1>4. ASSUME NEW s \in Sess, Started(s), ~ panicked PROVE NeverWithoutKiller' /\ KillerFirst'
  <2>1. /\ pc[s] = "begun" /\ killer'[s] \in {killer[s], "waiting"}
        /\ pc'[s] = "drain" => kind[s] = "exec" /\ ~ pty[s] /\ killer'[s] = killer[s]
        /\ kind[s] = "exec" /\ pty[s] => killer'[s] = "waiting"
        /\ pc'[s] \in {"register", "drain", "wait"}
    <3>1. CASE kind[s] = "exec" /\ ~ pty[s]
      BY <1>4, <3>1 DEF Started, AfterStart, KillerAt
    <3>2. CASE kind[s] = "exec" /\ pty[s]
      BY <1>4, <3>2 DEF Started, AfterStart, KillerAt
    <3>3. CASE kind[s] # "exec"
      BY <1>4, <3>3 DEF Started, AfterStart, KillerAt
    <3> QED BY <3>1, <3>2, <3>3
  <2>2. \A t \in Sess : t # s =>
          pc'[t] = pc[t] /\ proc'[t] = proc[t] /\ killer'[t] = killer[t]
    BY <1>4 DEF Started, KillerAt
  <2>3. proc'[s] = "running" /\ UNCHANGED <<kind, pty, panicked>>
    BY <1>4 DEF Started
  <2> QED BY <1>4, <2>1, <2>2, <2>3
<1>5. ASSUME NEW s \in Sess, Drained(s) PROVE NeverWithoutKiller' /\ KillerFirst'
  BY <1>5 DEF Drained, KillerAt
<1>6. ASSUME NEW s \in Sess, ~ panicked, Killed(s) PROVE NeverWithoutKiller' /\ KillerFirst'
  BY <1>6 DEF Killed, KilledBy
<1>7. CASE Closes
  BY <1>7 DEF Closes
<1>8. CASE Callback
  BY <1>8 DEF Callback, KilledBy
<1>9. ASSUME NEW s \in Sess, MapMisused(s) \/ Copied(s) \/ Writes(s) \/ ClosesOutput(s)
      PROVE  NeverWithoutKiller' /\ KillerFirst'
  BY <1>9 DEF MapMisused, Copied, Writes, ClosesOutput
<1>10. ASSUME NEW s \in Sess, Ends(s) \/ Blocks(s) PROVE NeverWithoutKiller' /\ KillerFirst'
  BY <1>10 DEF Ends, Blocks
<1>11. CASE UNCHANGED vars
  BY <1>11 DEF vars
<1> QED
  BY <1>1, <1>2, <1>3, <1>4, <1>5, <1>6, <1>7, <1>8, <1>9, <1>10, <1>11 DEF Next, Handler

\* The safety part of EndsWithConnection: there is no moment, from the start of
\* such a process to its end, in which nobody would kill it
\* (agent/pkg/agent/server/modes/host/sessioner.go:111-150, 180-215).
THEOREM NobodyEscapesKiller == Spec => []NeverWithoutKiller
<1>1. Init => NeverWithoutKiller /\ KillerFirst
  BY SessionerAssumption DEF Init, NeverWithoutKiller, KillerFirst, Alive
<1> QED BY <1>1, KillerStep, SessionerInvariant, PTL DEF Spec

=============================================================================

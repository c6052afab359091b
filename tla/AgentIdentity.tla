--------------------------- MODULE AgentIdentity ---------------------------
(***************************************************************************)
(* How the agent library comes by its identity: Initialize                 *)
(* (agent/pkg/agent/agent.go) with the key file (agent/pkg/agent/pkg/keygen *)
(* /keygen.go), over the restarts of the process.  The device is known to  *)
(* the server by the public key it authorizes with; the private key is     *)
(* made once, if there is no file for it.                                  *)
(*                                                                         *)
(* The process may stop between any two steps: a step of Initialize fails, *)
(* or the process is killed.  The file is written in several pieces after  *)
(* it was created, so it may be left torn.  A power failure, which could   *)
(* take back what was not synced, is left out.                             *)
(***************************************************************************)

CONSTANTS Keys,    \* the keys that rsa.GenerateKey may return
          None, Absent, Torn

ASSUME IdentityAssumption == {None, Absent, Torn} \cap Keys = {} /\ Absent # Torn

VARIABLES
  phase,      \* where Initialize is; down: no process, ready: it has returned
  file,       \* the key file
  generated,  \* the keys that were generated
  key,        \* the key that GeneratePrivateKey is writing
  pubKey,     \* a.pubKey
  registered  \* the keys the server has been asked to register the device with

identityVars == <<phase, file, generated, key, pubKey, registered>>

IdentityTypeOK ==
  /\ phase \in {"down", "stat", "generate", "encode", "sync", "read", "probe", "authorize",
                "ready"}
  /\ file \in Keys \cup {Absent, Torn}
  /\ generated \subseteq Keys /\ registered \subseteq generated
  /\ key \in Keys \cup {None} /\ pubKey \in Keys \cup {None}
  /\ phase \in {"probe", "authorize", "ready"} <=> pubKey # None

IdentityInit ==
  /\ phase = "down" /\ file = Absent /\ generated = {} /\ key = None /\ pubKey = None
  /\ registered = {}

-----------------------------------------------------------------------------
\* Initialize makes the HTTP client and the device's identity and information.
Initialize ==
  /\ phase = "down"
  /\ phase' = "stat"
  /\ UNCHANGED <<file, generated, key, pubKey, registered>>

StatForgotten ==
  /\ phase = "stat"
  /\ phase' = "generate"
  /\ UNCHANGED <<file, generated, key, pubKey, registered>>

\* generatePrivateKey: only if there is no file.
Stat ==
  /\ phase = "stat"
  /\ phase' = IF file = Absent THEN "generate" ELSE "read"
  /\ UNCHANGED <<file, generated, key, pubKey, registered>>

\* GeneratePrivateKey: the key is made and the file created.
Create(k) ==
  /\ phase = "generate" /\ k \notin generated
  /\ generated' = generated \cup {k} /\ key' = k /\ file' = Torn
  /\ phase' = "encode"
  /\ UNCHANGED <<pubKey, registered>>

\* ... the key is written to it,
Encode ==
  /\ phase = "encode"
  /\ file' = key /\ phase' = "sync"
  /\ UNCHANGED <<generated, key, pubKey, registered>>

\* ... and Sync returns.
Sync ==
  /\ phase = "sync"
  /\ phase' = "read" /\ key' = None
  /\ UNCHANGED <<file, generated, pubKey, registered>>

\* ReadPublicKey fails on what pem.Decode or the parser does not take.
ReadPublicKey ==
  /\ phase = "read" /\ file \in Keys
  /\ pubKey' = file /\ phase' = "probe"
  /\ UNCHANGED <<file, generated, key, registered>>

ProbeServerInfo ==
  /\ phase = "probe"
  /\ phase' = "authorize"
  /\ UNCHANGED <<file, generated, key, pubKey, registered>>

\* The request reaches the server; its answer may not come back.
Authorize ==
  /\ phase = "authorize"
  /\ registered' = registered \cup {pubKey}
  /\ \/ phase' = "ready" /\ UNCHANGED pubKey
     \/ phase' = "down" /\ pubKey' = None
  /\ UNCHANGED <<file, generated, key>>

\* A step fails and Initialize returns its error, or the process ends or is killed.
Stops ==
  /\ phase # "down"
  /\ phase' = "down" /\ key' = None /\ pubKey' = None
  /\ UNCHANGED <<file, generated, registered>>

Starts ==
  \/ Initialize \/ Stat \/ (\E k \in Keys : Create(k)) \/ Encode \/ Sync
  \/ ReadPublicKey \/ ProbeServerInfo \/ Authorize

-----------------------------------------------------------------------------
\* Whenever its process was stopped and started again, the agent has presented
\* itself to the server with one key only, and it still has that key on disk.
StableIdentity == \A k \in registered : file = k

=============================================================================

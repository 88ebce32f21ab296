------------------------------ MODULE ClientRun ------------------------------
(***************************************************************************)
(* censprobe-client: client/main.py, _async_main with the retry wrapper    *)
(* _pinned_get_with_retry around every request.  One client fetches the    *)
(* credentials, probes, posts /stop and polls /snapshot.                   *)
(***************************************************************************)
EXTENDS CredServer

CONSTANTS
  FetchAttempts,      \* _FETCH_MAX_ATTEMPTS
  SnapshotAttempts    \* max_attempts of _fetch_snapshot

ASSUME ClientRunAssumption ==
  /\ FetchAttempts \in 1..MaxAttempts
  /\ SnapshotAttempts \in 1..MaxAttempts

VARIABLES
  clPc,        \* the client's phase
  attempt,     \* the retry loop's counter
  inFlight,    \* an attempt has been sent and not been answered
  stopAcked,   \* the client read a 202 from /stop
  gotSnapshot, \* the snapshot the client read
  measured     \* the protocols the client measured a throughput for

clientVars == <<clPc, attempt, inFlight, stopAcked, gotSnapshot, measured>>

ClientStates == {"start", "creds", "probing", "stop", "snapshot", "finished", "gave_up"}

(* The client holds the credentials: it passed _fetch_creds_or_exit.       *)
HasCreds(c) == clPc[c] \in {"probing", "stop", "snapshot", "finished"}

ClientRunTypeOK ==
  /\ clPc \in [Clients -> ClientStates]
  /\ attempt \in [Clients -> 1..MaxAttempts]
  /\ inFlight \in [Clients -> BOOLEAN]
  /\ stopAcked \in [Clients -> BOOLEAN]
  /\ gotSnapshot \in [Clients -> Snapshots \cup {NoSnapshots}]
  /\ measured \in [Clients -> SUBSET Protocols]

ClientRunInit ==
  /\ clPc = [c \in Clients |-> "start"]
  /\ attempt = [c \in Clients |-> 1]
  /\ inFlight = [c \in Clients |-> FALSE]
  /\ stopAcked = [c \in Clients |-> FALSE]
  /\ gotSnapshot = [c \in Clients |-> NoSnapshots]
  /\ measured = [c \in Clients |-> {}]

Conn(c) == <<c, clPc[c], attempt[c]>>
Attempts(route) == IF route = "snapshot" THEN SnapshotAttempts ELSE FetchAttempts

(* Where a client goes when a request has failed for good: without         *)
(* credentials it exits, a failed /stop or /snapshot is only logged.       *)
AfterFailure == [creds |-> "gave_up", stop |-> "snapshot", snapshot |-> "finished"]

(* The attempt is over: the client closes its socket and whatever was on   *)
(* the way to it is dropped.                                               *)
HangUp(c) ==
  /\ hungUp' = hungUp \cup {Conn(c)}
  /\ reply' = [reply EXCEPT ![Conn(c)] = "none"]
  /\ inFlight' = [inFlight EXCEPT ![c] = FALSE]
  /\ UNCHANGED body

EnterPhase(c, phase) ==
  /\ clPc' = [clPc EXCEPT ![c] = phase]
  /\ attempt' = [attempt EXCEPT ![c] = 1]

-----------------------------------------------------------------------------
LaunchClient(c) ==
  /\ clPc[c] = "start"
  /\ EnterPhase(c, "creds")
  /\ UNCHANGED <<handler, wireVars, inFlight, stopAcked, gotSnapshot, measured>>

(* _pinned_get opens a connection; it reaches the listening socket, or is  *)
(* refused or lost.                                                        *)
SendRequest(c) ==
  /\ clPc[c] \in Routes /\ ~inFlight[c]
  /\ inFlight' = [inFlight EXCEPT ![c] = TRUE]
  /\ \/ UNCHANGED handler
     \/ serving /\ handler' = [handler EXCEPT ![Conn(c)] = "queued"]
  /\ UNCHANGED <<wireVars, clPc, attempt, stopAcked, gotSnapshot, measured>>

(* Mutant: the retry loop never runs out of attempts.                       *)
TransientErrorUnbounded(c) ==
  /\ inFlight[c]
  /\ HangUp(c)
  /\ UNCHANGED <<handler, clPc, attempt, stopAcked, gotSnapshot, measured>>

(* _TransientEndpointError: an I/O error or a timeout, at any moment, or a  *)
(* 503.  Another attempt, or the last error is raised.                      *)
TransientError(c) ==
  /\ inFlight[c]
  /\ IF attempt[c] < Attempts(clPc[c])
     THEN attempt' = [attempt EXCEPT ![c] = attempt[c] + 1] /\ UNCHANGED clPc
     ELSE EnterPhase(c, AfterFailure[clPc[c]])
  /\ HangUp(c)
  /\ UNCHANGED <<handler, stopAcked, gotSnapshot, measured>>

(* _PermanentEndpointError: a 410, or the end of the stream before a status *)
(* line because the listener process is gone.  Never retried.               *)
PermanentError(c) ==
  /\ inFlight[c]
  /\ \/ reply[Conn(c)] = "exhausted"
     \/ ~procUp /\ handler[Conn(c)] = "done" /\ reply[Conn(c)] = "none"
  /\ EnterPhase(c, AfterFailure[clPc[c]])
  /\ HangUp(c)
  /\ UNCHANGED <<handler, stopAcked, gotSnapshot, measured>>

(* parse_protocols_yaml; a body that it does not parse ends the client, and *)
(* the serve is spent.                                                      *)
ReceiveCreds(c) ==
  /\ clPc[c] = "creds" /\ inFlight[c] /\ reply[Conn(c)] = "creds"
  /\ \E next \in {"probing", "gave_up"} : EnterPhase(c, next)
  /\ HangUp(c)
  /\ UNCHANGED <<handler, stopAcked, gotSnapshot, measured>>

(* _run_probe_loop ends; the rows with a positive throughput go into the    *)
(* body of /stop.                                                           *)
FinishProbes(c) ==
  /\ clPc[c] = "probing"
  /\ \E m \in SUBSET Protocols : measured' = [measured EXCEPT ![c] = m]
  /\ EnterPhase(c, "stop")
  /\ UNCHANGED <<handler, wireVars, inFlight, stopAcked, gotSnapshot>>

ReceiveAck(c) ==
  /\ clPc[c] = "stop" /\ inFlight[c] /\ reply[Conn(c)] = "ack"
  /\ stopAcked' = [stopAcked EXCEPT ![c] = TRUE]
  /\ EnterPhase(c, "snapshot")
  /\ HangUp(c)
  /\ UNCHANGED <<handler, gotSnapshot, measured>>

ReceiveSnapshot(c) ==
  /\ clPc[c] = "snapshot" /\ inFlight[c] /\ reply[Conn(c)] = "snapshot"
  /\ gotSnapshot' = [gotSnapshot EXCEPT ![c] = body[Conn(c)]]
  /\ EnterPhase(c, "finished")
  /\ HangUp(c)
  /\ UNCHANGED <<handler, stopAcked, measured>>

ClientRunStep(c) ==
  \/ LaunchClient(c) \/ SendRequest(c) \/ TransientError(c) \/ PermanentError(c)
  \/ ReceiveCreds(c) \/ FinishProbes(c) \/ ReceiveAck(c) \/ ReceiveSnapshot(c)
=============================================================================

---------------------------- MODULE ListenerMain ----------------------------
(***************************************************************************)
(* The listener's main coroutine: listener/main.py, _async_main and the    *)
(* helpers it awaits.  It runs beside the threads of CredServer; between   *)
(* two of its steps any handler thread may run.                            *)
(*                                                                         *)
(* A responder is reduced to what the session tells apart: whether it      *)
(* runs, whether its stop() ran to the end or was cancelled, and whether   *)
(* its data counter has seen traffic.                                      *)
(***************************************************************************)
EXTENDS CredServer

CONSTANTS
  Latched,      \* protocols whose stop() freezes the counter (WG, AWG, OpenVPN)
  MaxSignals,   \* bound on the SIGINT/SIGTERM the operator sends
  NoReport      \* no report file has been written

ASSUME ListenerMainAssumption ==
  /\ Latched \subseteq Protocols
  /\ MaxSignals \in Nat
  /\ NoReport \notin [connected : BOOLEAN, results : [Protocols -> BOOLEAN],
                       throughput : SUBSET Protocols]

VARIABLES
  mainPc,      \* where _async_main stands
  responder,   \* state of each protocol's responder
  saw,         \* the responder's data counter has ticked
  gotSignal,   \* signal_event of _wait_for_shutdown_signal
  signals,     \* signals sent so far
  readIp,      \* the local client_ip
  draft,       \* the ListenerReport being put together
  report       \* the ListenerReport on disk

mainVars == <<mainPc, responder, saw, gotSignal, signals, readIp, draft, report>>

MainStates == {"booting", "starting", "binding", "rewake", "waiting",
               "stopping", "snapshotting", "echo", "draining",
               "closing", "finalizing", "saving", "done", "exited", "dead"}

(* The states in which the listener process no longer exists.              *)
Ended == {"done", "exited", "dead"}

(* The states after _wait_for_shutdown_signal has returned.                *)
Teardown == {"stopping", "snapshotting", "echo", "draining",
             "closing", "finalizing", "saving", "done"}

ResponderStates == {"off", "running", "stopped", "cancelled"}

Reports == [connected : BOOLEAN, results : [Protocols -> BOOLEAN],
            throughput : SUBSET Protocols]

ListenerMainTypeOK ==
  /\ mainPc \in MainStates
  /\ responder \in [Protocols -> ResponderStates]
  /\ saw \in [Protocols -> BOOLEAN]
  /\ gotSignal \in BOOLEAN
  /\ signals \in 0..MaxSignals
  /\ readIp \in Clients \cup {NoClient}
  /\ draft \in Reports \cup {NoReport}
  /\ report \in Reports \cup {NoReport}

ListenerMainInit ==
  /\ mainPc = "booting"
  /\ responder = [p \in Protocols |-> "off"]
  /\ saw = [p \in Protocols |-> FALSE]
  /\ gotSignal = FALSE
  /\ signals = 0
  /\ readIp = NoClient
  /\ draft = NoReport /\ report = NoReport

Started == {p \in Protocols : responder[p] # "off"}

(* One read of a responder's counter.  A stop() that was cancelled leaves  *)
(* its capture half done, and its two readers (live_snapshot and the       *)
(* properties the report uses) may then see anything.                      *)
Reading(p) == IF responder[p] = "cancelled" THEN BOOLEAN ELSE {saw[p]}

-----------------------------------------------------------------------------
(* _start_cred_server_or_exit: the port opens, or it is taken and the      *)
(* process exits.                                                          *)
StartCredServer ==
  /\ mainPc = "booting"
  /\ \/ mainPc' = "starting" /\ OpenPort
     \/ mainPc' = "exited" /\ EndProcess
  /\ UNCHANGED <<responder, saw, gotSignal, signals, readIp, draft, report>>

(* _start_responders: each one starts or raises; with none left the        *)
(* listener stops the endpoint and exits.                                  *)
StartResponders ==
  /\ mainPc = "starting"
  /\ \E up \in SUBSET Protocols :
       /\ responder' = [p \in Protocols |-> IF p \in up THEN "running" ELSE "off"]
       /\ IF up = {}
          THEN mainPc' = "exited" /\ stalled = {} /\ EndProcess
          ELSE mainPc' = "binding" /\ UNCHANGED serverVars
  /\ UNCHANGED <<saw, gotSignal, signals, readIp, draft, report>>

(* Mutant: the result of bind_stop_event is not looked at.                  *)
BindStopAlwaysWakes ==
  /\ mainPc = "binding"
  /\ BindStopEvent
  /\ mainPc' = "rewake"
  /\ UNCHANGED <<responder, saw, gotSignal, signals, readIp, draft, report>>

(* bind_stop_event, called once the self-tests are over.                   *)
BindStop ==
  /\ mainPc = "binding"
  /\ BindStopEvent
  /\ mainPc' = IF stopRequested THEN "rewake" ELSE "waiting"
  /\ UNCHANGED <<responder, saw, gotSignal, signals, readIp, draft, report>>

RewakeAfterBind ==
  /\ mainPc = "rewake"
  /\ WakeFromBind
  /\ mainPc' = "waiting"
  /\ UNCHANGED <<responder, saw, gotSignal, signals, readIp, draft, report>>

(* Mutant: the wait has a timeout.                                          *)
WaitReturnsAnyway ==
  /\ mainPc = "waiting"
  /\ mainPc' = "stopping"
  /\ UNCHANGED <<serverVars, responder, saw, gotSignal, signals, readIp, draft, report>>

(* _wait_for_shutdown_signal returns on the first of the two events.       *)
WaitReturns ==
  /\ mainPc = "waiting"
  /\ remoteStop \/ gotSignal
  /\ mainPc' = "stopping"
  /\ UNCHANGED <<serverVars, responder, saw, gotSignal, signals, readIp, draft, report>>

(* _stop_responders: one responder's stop() ends, in any order; at the     *)
(* deadline the ones still inside stop() are cancelled.                    *)
StopResponder(p) ==
  /\ mainPc = "stopping" /\ responder[p] = "running"
  /\ responder' = [responder EXCEPT ![p] = "stopped"]
  /\ UNCHANGED <<serverVars, mainPc, saw, gotSignal, signals, readIp, draft, report>>

StopDeadline ==
  /\ mainPc = "stopping"
  /\ \E p \in Protocols : responder[p] = "running"
  /\ responder' = [p \in Protocols |->
                     IF responder[p] = "running" THEN "cancelled" ELSE responder[p]]
  /\ UNCHANGED <<serverVars, mainPc, saw, gotSignal, signals, readIp, draft, report>>

(* Mutant: stop() is started and not awaited.                               *)
AllStoppedUnawaited ==
  /\ mainPc = "stopping"
  /\ mainPc' = "snapshotting"
  /\ UNCHANGED <<serverVars, responder, saw, gotSignal, signals, readIp, draft, report>>

(* Mutant: a cancelled stop() is waited for.                                *)
AllStoppedCleanly ==
  /\ mainPc = "stopping"
  /\ \A p \in Protocols : responder[p] \in {"off", "stopped"}
  /\ mainPc' = "snapshotting"
  /\ UNCHANGED <<serverVars, responder, saw, gotSignal, signals, readIp, draft, report>>

AllStopped ==
  /\ mainPc = "stopping"
  /\ \A p \in Protocols : responder[p] # "running"
  /\ mainPc' = "snapshotting"
  /\ UNCHANGED <<serverVars, responder, saw, gotSignal, signals, readIp, draft, report>>

(* _build_final_snapshots and commit_final_snapshots.  A live_snapshot()   *)
(* that raises becomes an "error" entry.                                   *)
CommitSnapshots ==
  /\ mainPc = "snapshotting"
  /\ \E seen \in [Protocols -> BOOLEAN], broken \in SUBSET Started :
       /\ \A p \in Protocols : seen[p] \in Reading(p)
       /\ CommitFinalSnapshots([p \in Protocols |->
            IF p \in broken THEN "error" ELSE IF seen[p] THEN "seen" ELSE "unseen"])
  /\ mainPc' = "echo"
  /\ UNCHANGED <<responder, saw, gotSignal, signals, readIp, draft, report>>

(* echo_server.stop() ends, or its 5 s are over; then main.py takes         *)
(* client_ip = cred_server.client_ip.                                       *)
StopEchoReadClientIp ==
  /\ mainPc = "echo"
  /\ readIp' = clientIp
  /\ mainPc' = "draining"
  /\ UNCHANGED <<serverVars, responder, saw, gotSignal, signals, draft, report>>

(* wait_snapshot_drained returns: a /snapshot was served, or the timeout.  *)
(* Nothing after it depends on which.                                      *)
DrainEnds ==
  /\ mainPc = "draining"
  /\ mainPc' = "closing"
  /\ UNCHANGED <<serverVars, responder, saw, gotSignal, signals, readIp, draft, report>>

StopCredServer ==
  /\ mainPc = "closing"
  /\ ClosePort
  /\ mainPc' = "finalizing"
  /\ UNCHANGED <<responder, saw, gotSignal, signals, readIp, draft, report>>

(* client_throughput() and _finalize_session_results.                      *)
FinalizeResults ==
  /\ mainPc = "finalizing"
  /\ \E seen \in [Protocols -> BOOLEAN] :
       /\ \A p \in Protocols : seen[p] \in Reading(p)
       /\ draft' = [connected |-> readIp # NoClient,
                    results |-> seen,
                    throughput |-> clientThroughput \cap Started]
  /\ mainPc' = "saving"
  /\ UNCHANGED <<serverVars, responder, saw, gotSignal, signals, readIp, report>>

(* The enrichment of client_ip, a web request, then _save_listener_report;  *)
(* the coroutine returns and the process ends.                              *)
SaveReport ==
  /\ mainPc = "saving"
  /\ report' = draft
  /\ EndProcess
  /\ mainPc' = "done"
  /\ UNCHANGED <<responder, saw, gotSignal, signals, readIp, draft>>

-----------------------------------------------------------------------------
(* SIGINT or SIGTERM.  Only while _wait_for_shutdown_signal is waiting is   *)
(* there a handler for it: the first one asks for a graceful stop, the      *)
(* second is os._exit(130).  Before and after, the default action ends the  *)
(* process without a report.                                                *)
Signal ==
  /\ mainPc \notin Ended /\ signals < MaxSignals
  /\ signals' = signals + 1
  /\ IF mainPc = "waiting" /\ ~gotSignal
     THEN gotSignal' = TRUE /\ UNCHANGED <<mainPc, serverVars>>
     ELSE mainPc' = "dead" /\ EndProcess /\ UNCHANGED gotSignal
  /\ UNCHANGED <<responder, saw, readIp, draft, report>>

(* Mutant: stop() does not freeze the counter.                              *)
TickAfterStop(p) ==
  /\ mainPc \notin Ended
  /\ responder[p] # "off"
  /\ saw' = [saw EXCEPT ![p] = TRUE]
  /\ UNCHANGED <<serverVars, mainPc, responder, gotSignal, signals, readIp, draft, report>>

(* A counter ticks.  A stopped responder that latches its counter no longer *)
(* ticks; one that reads the echo server still does until the echo server   *)
(* has been stopped, and a cancelled one until the process ends.            *)
Tick(p) ==
  /\ mainPc \notin Ended
  /\ \/ responder[p] \in {"running", "cancelled"}
     \/ /\ responder[p] = "stopped" /\ p \notin Latched
        /\ mainPc \in {"stopping", "snapshotting", "echo"}
  /\ saw' = [saw EXCEPT ![p] = TRUE]
  /\ UNCHANGED <<serverVars, mainPc, responder, gotSignal, signals, readIp, draft, report>>

MainStep ==
  \/ StartCredServer \/ StartResponders \/ BindStop \/ RewakeAfterBind
  \/ WaitReturns \/ AllStopped \/ StopDeadline \/ CommitSnapshots \/ StopEchoReadClientIp
  \/ DrainEnds \/ StopCredServer \/ FinalizeResults \/ SaveReport
  \/ \E p \in Protocols : StopResponder(p)
=============================================================================

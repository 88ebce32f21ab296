------------------------------- MODULE Session -------------------------------
(***************************************************************************)
(* One probe session: the listener's main coroutine, the threads of its    *)
(* credentials endpoint, the clients and the operator, interleaved.        *)
(***************************************************************************)
EXTENDS ListenerMain, ClientRun

vars == <<serverVars, mainVars, clientVars>>

TypeOK == CredServerTypeOK /\ ListenerMainTypeOK /\ ClientRunTypeOK

Init == CredServerInit /\ ListenerMainInit /\ ClientRunInit

ServerThread(k) ==
  \/ Accept(k) \/ StallInHandshake(k)
  \/ HandlerStep(k, measured[Client(k)])

ServerStep == /\ \E k \in Conns : ServerThread(k)
              /\ UNCHANGED <<mainVars, clientVars>>

ListenerStep == MainStep /\ UNCHANGED clientVars

ClientStep(c) ==
  ClientRunStep(c) /\ UNCHANGED <<mainVars, sockVars, credVars, stopVars, snapVars>>

Environment == /\ Signal \/ \E p \in Protocols : Tick(p)
               /\ UNCHANGED clientVars

(* The session is over: the process is gone and every client has finished. *)
Over == /\ mainPc \in Ended
        /\ \A c \in Clients : clPc[c] \in {"start", "finished", "gave_up"}
        /\ UNCHANGED vars

Next == \/ ServerStep \/ ListenerStep \/ Environment \/ Over
        \/ \E c \in Clients : ClientStep(c)

Spec == Init /\ [][Next]_vars

(* Every thread of the listener runs when it can; an accepted connection's *)
(* handshake ends unless the peer vanished; a client's socket timeouts     *)
(* fire and its probes are bounded.  Nothing obliges a client to be        *)
(* started, the operator to press Ctrl+C, or traffic to arrive.            *)
ServerProgress(k) == ServerThread(k) /\ UNCHANGED <<mainVars, clientVars>>
ClientProgress(c) == clPc[c] # "start" /\ ClientStep(c)

Fairness ==
  /\ WF_vars(ListenerStep)
  /\ \A k \in Conns : WF_vars(ServerProgress(k))
  /\ \A c \in Clients : WF_vars(ClientProgress(c))

FairSpec == Spec /\ Fairness

-----------------------------------------------------------------------------
(* Safety.                                                                  *)

(* The token is single-use: however retries, lost replies and parallel      *)
(* handlers interleave, no more than _MAX_SERVES clients ever come to hold  *)
(* the credentials.                                                         *)
SingleUse == Cardinality({c \in Clients : HasCreds(c)}) <= MaxServes

(* The responders are torn down under a client that is still probing only   *)
(* when the operator asked for it: a /stop can only come from the one       *)
(* client that holds the credentials, after its own probes.                 *)
NoTeardownUnderProbes ==
  mainPc \in Teardown /\ ~gotSignal =>
    \A c \in Clients : clPc[c] # "probing"

(* A client never reads a snapshot before the responders are down, and what *)
(* it reads is the dict that was committed, never a mid-session view.       *)
SnapshotIsFinal ==
  \A c \in Clients : gotSnapshot[c] # NoSnapshots =>
    /\ gotSnapshot[c] = finalSnapshots
    /\ \A p \in Protocols : responder[p] # "running"

(* For a protocol whose stop() ran to its end and latched the counter, the  *)
(* snapshot the client cross-checks against and the JSON report say the     *)
(* same thing, although they are read at different moments.                 *)
LatchedViewsAgree ==
  report # NoReport =>
    \A p \in Latched :
      /\ responder[p] = "stopped"
      /\ finalSnapshots[p] # "error"
      => (finalSnapshots[p] = "seen") = report.results[p]

(* When it was a client that ended the session, the numbers that client     *)
(* posted are in the report, even if the acknowledgement was lost and the   *)
(* client gave the request up.                                              *)
RemoteStopKeepsThroughput ==
  report # NoReport /\ ~gotSignal =>
    \A c \in Clients : HasCreds(c) => measured[c] \cap Started \subseteq report.throughput

(* A session that a client ended is never reported as one no client ever    *)
(* reached: client_ip, read before the endpoint is closed, names the client *)
(* whose /stop woke the listener.                                           *)
RemoteStopMeansConnected ==
  report # NoReport /\ ~gotSignal => report.connected

(* The session as its operator and its clients see it.                      *)
Mode == IF mainPc \in Ended THEN "over" ELSE IF mainPc \in Teardown THEN "closing" ELSE "open"
Settled == {p \in Latched : responder[p] = "stopped"}
Holders == {c \in Clients : HasCreds(c)}
PastProbes == {"stop", "snapshot", "finished"}
Probed == {c \in Clients : clPc[c] \in PastProbes}

Promise == INSTANCE ProbeSession WITH
  mode <- Mode, asked <- gotSignal, started <- Started, settled <- Settled,
  holders <- Holders, probed <- Probed, view <- finalSnapshots, read <- gotSnapshot

(* Every step of the listener, its threads, the clients and the operator is *)
(* one that the session promises, or changes nothing of it: what was        *)
(* granted, published, read and saved is so once and for all, in that order *)
(* and by those who may.                                                    *)
ImplementsProbeSession == Promise!Spec

-----------------------------------------------------------------------------
(* Liveness.                                                                *)

(* After the operator's first signal the report is saved, unless the        *)
(* operator insists and the process dies, or a peer has fallen silent in    *)
(* its handshake.                                                           *)
SignalSavesReport == gotSignal ~> (mainPc \in {"done", "dead"} \/ stalled # {})

(* A client that was started always comes to an end, whatever the network   *)
(* and the listener do.                                                     *)
ClientsFinish ==
  \A c \in Clients : (clPc[c] = "creds") ~> (clPc[c] \in {"finished", "gave_up"})

(* A /stop handler that found the event bound ends the wait.                *)
BoundStopEndsWait ==
  \A k \in Conns : (handler[k] = "set_bound") ~> (mainPc \in Teardown \cup Ended)

-----------------------------------------------------------------------------
(* What comments and docstrings say of the session, and the code does not   *)
(* keep.                                                                    *)

(* cred_server.py:203-206 and 511-514: a /stop that raced bind_stop_event   *)
(* is picked up, so a listener whose client got its 202 does not go on      *)
(* waiting for a second signal.                                             *)
AckedStopEndsWait ==
  \A c \in Clients : stopAcked[c] ~> (mainPc \in Teardown \cup Ended)

(* main.py:608-611: stopping the credentials endpoint is cheap and bounded. *)
EndpointStopIsBounded == (mainPc = "closing") ~> (mainPc # "closing")
=============================================================================

----------------------------- MODULE CredServer -----------------------------
(***************************************************************************)
(* The one-shot HTTPS endpoint of the listener: listener/cred_server.py.   *)
(*                                                                         *)
(* One thread accepts connections and runs their TLS handshake; one daemon *)
(* thread per connection runs a handler.  A handler is split at            *)
(* every point where another thread can see or change shared state: each   *)
(* `with srv._lock` block is one step, each write to the socket is one     *)
(* step, each `Event.set()` is one step.                                   *)
(*                                                                         *)
(* A connection is named by the client, the route and the attempt number,  *)
(* so the handler of an attempt the client has given up on keeps running   *)
(* beside the handler of the retry.                                        *)
(***************************************************************************)
EXTENDS Naturals, FiniteSets

CONSTANTS
  Clients,          \* client processes started with the printed command
  Protocols,        \* enabled protocols
  MaxServes,        \* _MAX_SERVES
  MaxAttempts,      \* bound on the attempts of one route by one client
  PeersMayVanish,   \* may the network swallow a TLS handshake half-way?
  NoClient,         \* _client_ip is None
  NoSnapshots       \* _final_snapshots is None

ASSUME CredServerAssumption ==
  /\ IsFiniteSet(Clients)
  /\ MaxServes \in Nat \ {0}
  /\ MaxAttempts \in Nat \ {0}
  /\ PeersMayVanish \in BOOLEAN
  /\ NoClient \notin Clients
  /\ NoSnapshots \notin [Protocols -> {"seen", "unseen", "error"}]

VARIABLES
  procUp,            \* the listener process is running
  serving,           \* the port is open and serve_forever is running
  stalled,           \* the connection whose handshake blocks the accept thread
  handler,           \* where each connection stands on the server
  reply,             \* the response each connection's client can read
  body,              \* the dict a /snapshot handler read under the lock
  hungUp,            \* connections the client has closed
  servesRemaining,   \* _serves_remaining
  clientIp,          \* _client_ip
  finalSnapshots,    \* _final_snapshots
  clientThroughput,  \* the protocols _client_throughput has a number for
  drained,           \* _snapshot_drained
  stopRequested,     \* _stop_requested
  eventBound,        \* _stop_asyncio_event and _stop_event_loop are set
  remoteStop         \* the asyncio Event main.py awaits

credVars == <<servesRemaining, clientIp>>
stopVars == <<clientThroughput, stopRequested, eventBound, remoteStop>>
snapVars == <<finalSnapshots, drained>>
sockVars == <<procUp, serving, stalled>>
wireVars == <<reply, body, hungUp>>
serverVars == <<sockVars, handler, wireVars, credVars, stopVars, snapVars>>

Routes == {"creds", "stop", "snapshot"}
Conns == Clients \X Routes \X (1..MaxAttempts)
Client(k) == k[1]
Route(k) == k[2]

(* What one protocol's entry of /snapshot says of its data counter.        *)
Snapshots == [Protocols -> {"seen", "unseen", "error"}]

HandlerStates ==
  {"none", "queued", "ready",                              \* transport
   "write_creds",                                          \* _serve_creds
   "write_snapshot", "mark_drained",                       \* _serve_snapshot
   "read_event", "ack_bound", "ack_unbound",               \* _serve_stop
   "set_bound", "set_unbound", "wake", "done"}

Replies == {"none", "creds", "exhausted", "snapshot", "not_final", "ack"}

CredServerTypeOK ==
  /\ procUp \in BOOLEAN /\ serving \in BOOLEAN
  /\ stalled \subseteq Conns /\ hungUp \subseteq Conns
  /\ handler \in [Conns -> HandlerStates]
  /\ reply \in [Conns -> Replies]
  /\ body \in [Conns -> Snapshots \cup {NoSnapshots}]
  /\ servesRemaining \in 0..MaxServes
  /\ clientIp \in Clients \cup {NoClient}
  /\ finalSnapshots \in Snapshots \cup {NoSnapshots}
  /\ clientThroughput \subseteq Protocols
  /\ drained \in BOOLEAN /\ stopRequested \in BOOLEAN
  /\ eventBound \in BOOLEAN /\ remoteStop \in BOOLEAN

CredServerInit ==
  /\ procUp = TRUE /\ serving = FALSE
  /\ stalled = {} /\ hungUp = {}
  /\ handler = [k \in Conns |-> "none"]
  /\ reply = [k \in Conns |-> "none"]
  /\ body = [k \in Conns |-> NoSnapshots]
  /\ servesRemaining = MaxServes
  /\ clientIp = NoClient
  /\ finalSnapshots = NoSnapshots
  /\ clientThroughput = {}
  /\ drained = FALSE /\ stopRequested = FALSE
  /\ eventBound = FALSE /\ remoteStop = FALSE

-----------------------------------------------------------------------------
(* The accept thread.  The listening socket is wrapped, so SSLSocket.accept *)
(* runs the handshake inside serve_forever, before a handler thread exists. *)
(* The handshake succeeds, or fails with an error the accept loop swallows  *)
(* and the connection is dropped; that it takes a while only delays it.     *)
Accept(k) ==
  /\ procUp /\ serving
  /\ stalled = {} /\ handler[k] = "queued"
  /\ \E next \in {"ready", "none"} : handler' = [handler EXCEPT ![k] = next]
  /\ UNCHANGED <<sockVars, wireVars, credVars, stopVars, snapVars>>

(* The peer falls silent half-way and no reset ever arrives.  The accepted  *)
(* socket has no timeout: the accept thread never returns to its loop, and  *)
(* no other connection is accepted.                                         *)
StallInHandshake(k) ==
  /\ PeersMayVanish /\ procUp /\ serving
  /\ stalled = {} /\ handler[k] = "queued"
  /\ stalled' = {k}
  /\ UNCHANGED <<procUp, serving, handler, wireVars, credVars, stopVars, snapVars>>

-----------------------------------------------------------------------------
(* Writing a response.  The write may return and the bytes still be lost on *)
(* the way, or find the client's end closed; or it may raise because the    *)
(* peer is gone, which ends the handler thread there and then.              *)
Write(k, response, next) ==
  \/ /\ k \notin hungUp
     /\ reply' = [reply EXCEPT ![k] = response]
     /\ handler' = [handler EXCEPT ![k] = next]
     /\ UNCHANGED <<body, hungUp>>
  \/ /\ \E h \in {next, "done"} : handler' = [handler EXCEPT ![k] = h]
     /\ UNCHANGED wireVars

At(k, route, state) == procUp /\ Route(k) = route /\ handler[k] = state

(* _serve_creds, the lock block: refuse when exhausted (the 410 is written  *)
(* while the lock is held), else take one serve and record the first peer.  *)
RefuseCreds(k) ==
  /\ At(k, "creds", "ready")
  /\ servesRemaining <= 0
  /\ Write(k, "exhausted", "done")
  /\ UNCHANGED <<sockVars, credVars, stopVars, snapVars>>

(* Mutant: the counter is not tested under the lock.                        *)
TakeServeUnchecked(k) ==
  /\ At(k, "creds", "ready")
  /\ servesRemaining' = servesRemaining - 1
  /\ clientIp' = IF clientIp = NoClient THEN Client(k) ELSE clientIp
  /\ handler' = [handler EXCEPT ![k] = "write_creds"]
  /\ UNCHANGED <<sockVars, wireVars, stopVars, snapVars>>

(* Mutant: the peer is not recorded.                                        *)
TakeServeAnonymous(k) ==
  /\ At(k, "creds", "ready")
  /\ servesRemaining > 0
  /\ servesRemaining' = servesRemaining - 1
  /\ handler' = [handler EXCEPT ![k] = "write_creds"]
  /\ UNCHANGED <<sockVars, wireVars, clientIp, stopVars, snapVars>>

TakeServe(k) ==
  /\ At(k, "creds", "ready")
  /\ servesRemaining > 0
  /\ servesRemaining' = servesRemaining - 1
  /\ clientIp' = IF clientIp = NoClient THEN Client(k) ELSE clientIp
  /\ handler' = [handler EXCEPT ![k] = "write_creds"]
  /\ UNCHANGED <<sockVars, wireVars, stopVars, snapVars>>

(* _serve_creds after the lock: the 200 with the YAML.                      *)
WriteCreds(k) ==
  /\ At(k, "creds", "write_creds")
  /\ Write(k, "creds", "done")
  /\ UNCHANGED <<sockVars, credVars, stopVars, snapVars>>

(* _serve_snapshot: 503 until the final dict is committed.                  *)
RefuseSnapshot(k) ==
  /\ At(k, "snapshot", "ready")
  /\ finalSnapshots = NoSnapshots
  /\ Write(k, "not_final", "done")
  /\ UNCHANGED <<sockVars, credVars, stopVars, snapVars>>

ReadSnapshot(k) ==
  /\ At(k, "snapshot", "ready")
  /\ finalSnapshots # NoSnapshots
  /\ body' = [body EXCEPT ![k] = finalSnapshots]
  /\ handler' = [handler EXCEPT ![k] = "write_snapshot"]
  /\ UNCHANGED <<sockVars, reply, hungUp, credVars, stopVars, snapVars>>

WriteSnapshot(k) ==
  /\ At(k, "snapshot", "write_snapshot")
  /\ Write(k, "snapshot", "mark_drained")
  /\ UNCHANGED <<sockVars, credVars, stopVars, snapVars>>

MarkDrained(k) ==
  /\ At(k, "snapshot", "mark_drained")
  /\ drained' = TRUE
  /\ handler' = [handler EXCEPT ![k] = "done"]
  /\ UNCHANGED <<sockVars, wireVars, credVars, stopVars, finalSnapshots>>

(* Mutant: the posted numbers are parsed and dropped.                       *)
MergeThroughputDropped(k, posted) ==
  /\ At(k, "stop", "ready")
  /\ handler' = [handler EXCEPT ![k] = "read_event"]
  /\ UNCHANGED <<sockVars, wireVars, credVars, snapVars, stopVars>>

(* _serve_stop: merge the posted numbers under the lock ...                 *)
MergeThroughput(k, posted) ==
  /\ At(k, "stop", "ready")
  /\ clientThroughput' = clientThroughput \cup posted
  /\ handler' = [handler EXCEPT ![k] = "read_event"]
  /\ UNCHANGED <<sockVars, wireVars, credVars, snapVars, stopRequested, eventBound, remoteStop>>

(* ... read the event and the loop under the lock, into locals ...          *)
ReadStopEvent(k) ==
  /\ At(k, "stop", "read_event")
  /\ handler' = [handler EXCEPT ![k] = IF eventBound THEN "ack_bound" ELSE "ack_unbound"]
  /\ UNCHANGED <<sockVars, wireVars, credVars, stopVars, snapVars>>

(* ... answer 202 before anything else ...                                  *)
AckStop(k) ==
  /\ \/ At(k, "stop", "ack_bound") /\ Write(k, "ack", "set_bound")
     \/ At(k, "stop", "ack_unbound") /\ Write(k, "ack", "set_unbound")
  /\ UNCHANGED <<sockVars, credVars, stopVars, snapVars>>

(* Mutant: the handler counts on the main loop polling _stop_requested.     *)
SetStopRequestedOnly(k) ==
  /\ At(k, "stop", "set_bound") \/ At(k, "stop", "set_unbound")
  /\ handler' = [handler EXCEPT ![k] = "done"]
  /\ stopRequested' = TRUE
  /\ UNCHANGED <<sockVars, wireVars, credVars, snapVars, clientThroughput, eventBound, remoteStop>>

(* ... then set the threading.Event, which takes no lock ...                *)
SetStopRequested(k) ==
  /\ \/ /\ At(k, "stop", "set_bound")
        /\ handler' = [handler EXCEPT ![k] = "wake"]
     \/ /\ At(k, "stop", "set_unbound")
        /\ handler' = [handler EXCEPT ![k] = "done"]
  /\ stopRequested' = TRUE
  /\ UNCHANGED <<sockVars, wireVars, credVars, snapVars, clientThroughput, eventBound, remoteStop>>

(* ... and wake the main loop if the local copy of the event was not None.  *)
WakeMainLoop(k) ==
  /\ At(k, "stop", "wake")
  /\ remoteStop' = TRUE
  /\ handler' = [handler EXCEPT ![k] = "done"]
  /\ UNCHANGED <<sockVars, wireVars, credVars, snapVars, clientThroughput, stopRequested, eventBound>>

HandlerStep(k, posted) ==
  \/ RefuseCreds(k) \/ TakeServe(k) \/ WriteCreds(k)
  \/ RefuseSnapshot(k) \/ ReadSnapshot(k) \/ WriteSnapshot(k) \/ MarkDrained(k)
  \/ MergeThroughput(k, posted) \/ ReadStopEvent(k) \/ AckStop(k)
  \/ SetStopRequested(k) \/ WakeMainLoop(k)

-----------------------------------------------------------------------------
(* Calls main.py makes on the CredServer object.                            *)

(* start(): bind, wrap, start the accept thread.                            *)
OpenPort ==
  /\ serving' = TRUE
  /\ UNCHANGED <<procUp, stalled, handler, wireVars, credVars, stopVars, snapVars>>

(* bind_stop_event(), the lock block.  What it read of _stop_requested is   *)
(* returned to the caller, which acts on it after the lock is released.     *)
BindStopEvent ==
  /\ eventBound' = TRUE
  /\ UNCHANGED <<sockVars, handler, wireVars, credVars, snapVars,
                 clientThroughput, stopRequested, remoteStop>>

(* bind_stop_event(), `if already_set: call_soon_threadsafe(ev.set)`.       *)
WakeFromBind ==
  /\ remoteStop' = TRUE
  /\ UNCHANGED <<sockVars, handler, wireVars, credVars, snapVars,
                 clientThroughput, stopRequested, eventBound>>

(* commit_final_snapshots().                                                *)
CommitFinalSnapshots(snapshots) ==
  /\ finalSnapshots' = snapshots
  /\ UNCHANGED <<sockVars, handler, wireVars, credVars, stopVars, drained>>

(* stop(): shutdown() returns only once the accept thread is back in its    *)
(* loop; handler threads are daemons and are not waited for.                *)
ClosePort ==
  /\ stalled = {}
  /\ serving' = FALSE
  /\ UNCHANGED <<procUp, stalled, handler, wireVars, credVars, stopVars, snapVars>>

(* The process ends, and its threads and sockets with it: a connection that *)
(* had reached it gets no further.                                          *)
EndProcess ==
  /\ procUp' = FALSE /\ serving' = FALSE /\ stalled' = {}
  /\ handler' = [k \in Conns |-> IF handler[k] \in {"none", "queued"} THEN "none" ELSE "done"]
  /\ UNCHANGED <<wireVars, credVars, stopVars, snapVars>>
=============================================================================

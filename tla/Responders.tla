----------------------------- MODULE Responders -----------------------------
(***************************************************************************)
(* The responders of a listener over several runs of the process on one    *)
(* host: preflight's clean-up, start(), the self-test, the traffic of the  *)
(* client and of strangers, the parallel stop() under a deadline, and the  *)
(* two readings of their counters, for /snapshot and for the report.       *)
(*                                                                         *)
(* The responders differ in what they count and in the order of their      *)
(* stop():                                                                 *)
(*   socks      SubprocessResponder: log lines, bytes at the echo server   *)
(*   mtg        MTProxyResponder: log lines, packets of an iptables rule   *)
(*   mtorig     MTProxyOrigResponder: packets of an iptables rule only     *)
(*   openvpn    OpenVPNResponder: the daemon's status file and a rule      *)
(*   wireguard  WireGuardResponder, AmneziaWGResponder: wg show            *)
(***************************************************************************)
EXTENDS IptablesCounter, Verdicts

CONSTANTS
  Resp,           \* the enabled protocols
  KindsInUse,     \* the kinds they may be of
  MaxRuns,        \* bound on the runs of the listener
  MaxFaults,      \* bound on host commands that fail or time out
  MaxStrangers    \* bound on scanner connections per responder and run

Kinds == {"socks", "mtg", "mtorig", "openvpn", "wireguard"}
CounterKinds == {"mtg", "mtorig", "openvpn"}   \* uses_iptables_counter
TunKinds == {"openvpn", "wireguard"}
MinDataPackets == 2                            \* _MIN_OVPN_DATA_PACKETS

ASSUME RespondersAssumption ==
  /\ IsFiniteSet(Resp) /\ KindsInUse \subseteq Kinds
  /\ MaxRuns \in Nat \ {0} /\ MaxFaults \in Nat /\ MaxStrangers \in Nat

VARIABLES
  kind, permitted,    \* configuration: the kinds, and CAP_NET_ADMIN
  rules, iface,       \* the host: rules of each comment and family, interfaces
  runs, phase, exit,  \* the listener process
  faults, faulted,    \* failed commands so far, and whether one was in this run
  countersOk, dcOk,   \* preflight: iptables-cap and telegram-dc-reach
  pc,                 \* where each responder is in start() and stop()
  installed,          \* installed_families, less those remove_counter is done with
  pipe, count,        \* lines of the daemon's stdout to come, connection_count
  bytes,              \* the daemon's own counter, see Levels
  statusFile,         \* OpenVPN: the Auth bytes in the status file
  latched,            \* OpenVPN: _max_auth_bytes_seen
  captured,           \* what stop() captured
  snapshot, report,   \* the committed snapshot and the verdict of the report
  reached, moved,     \* history: the client's handshake and data got through
  settled,            \* history: its exchange with a running responder
  inherited,          \* history: responders that count on an old rule
  strangers,          \* history: scanner connections
  selfTested,         \* history: responders that answered the self-test
  fronted             \* history: mtg handed a stranger to its fronting host

hostVars == <<kind, permitted, rules, iface>>
runVars == <<runs, phase, exit, countersOk, dcOk>>
faultVars == <<faults, faulted>>
daemonVars == <<pipe, bytes, statusFile>>
readVars == <<count, latched, captured>>
outVars == <<snapshot, report>>
creditVars == <<inherited, selfTested, fronted>>
trafficVars == <<reached, moved, settled, strangers>>
vars == <<hostVars, runVars, faultVars, pc, installed, daemonVars, readVars,
          outVars, trafficVars, creditVars>>

(* 0: nothing.  1: a handshake (OpenVPN: some authenticated bytes).         *)
(* 2: more than the threshold for data (socks: data_ok's 64 bytes at the    *)
(* echo server, wg: _MIN_ECHO_BYTES received, OpenVPN: 1500 bytes).         *)
Levels == 0..2
Higher(a, b) == IF a >= b THEN a ELSE b

Pcs == {"off", "spawned", "installed", "up", "skipped", "failed",
        "unbind", "read", "remove", "terminate", "stopped", "cancelled", "unreaped"}
Lines == {"start", "fail"}
Captures == [taken : BOOLEAN, handshakes : 0..1, packets : Counts, bytes : Levels]
NothingCaptured == [taken |-> FALSE, handshakes |-> 0, packets |-> 0, bytes |-> 0]
Snapshots == [handshook : BOOLEAN, dataOk : BOOLEAN]
NoSnapshot == [handshook |-> FALSE, dataOk |-> FALSE]   \* LiveSnapshot()
NoReport == "not written"
Unread == [r \in Resp |-> 0]

TypeOK ==
  /\ kind \in [Resp -> KindsInUse] /\ permitted \in BOOLEAN
  /\ rules \in [Resp -> [Families -> Chains]] /\ iface \in [Resp -> BOOLEAN]
  /\ runs \in 0..MaxRuns /\ faults \in 0..MaxFaults /\ faulted \in BOOLEAN
  /\ phase \in {"preflight", "starting", "testing", "serving", "stopping", "committing",
                "draining", "done", "down"}
  /\ exit \in {"running", "graceful", "nothing started", "killed"}
  /\ countersOk \in BOOLEAN /\ dcOk \in BOOLEAN
  /\ pc \in [Resp -> Pcs] /\ installed \in [Resp -> SUBSET Families]
  /\ pipe \in [Resp -> Seq(Lines)] /\ count \in [Resp -> Nat]
  /\ bytes \in [Resp -> Levels] /\ statusFile \in [Resp -> Levels]
  /\ latched \in [Resp -> Levels]
  /\ captured \in [Resp -> Captures]
  /\ snapshot \in [Resp -> Snapshots]
  /\ report \in [Resp -> Verdict \cup {NoReport}]
  /\ reached \in [Resp -> BOOLEAN] /\ moved \in [Resp -> BOOLEAN]
  /\ settled \in [Resp -> {"no", "unwritten", "yes"}]
  /\ inherited \subseteq Resp /\ selfTested \subseteq Resp /\ fronted \subseteq Resp
  /\ strangers \in [Resp -> 0..MaxStrangers]

Init ==
  /\ kind \in [Resp -> KindsInUse] /\ permitted \in BOOLEAN
  /\ rules = [r \in Resp |-> NoRules] /\ iface = [r \in Resp |-> FALSE]
  /\ runs = 1 /\ faults = 0
  /\ phase = "preflight" /\ exit = "running" /\ faulted = FALSE
  /\ countersOk = FALSE /\ dcOk = FALSE
  /\ pc = [r \in Resp |-> "off"] /\ installed = [r \in Resp |-> {}]
  /\ pipe = [r \in Resp |-> <<>>] /\ count = Unread
  /\ bytes = Unread /\ statusFile = Unread /\ latched = Unread
  /\ captured = [r \in Resp |-> NothingCaptured]
  /\ snapshot = [r \in Resp |-> NoSnapshot] /\ report = [r \in Resp |-> NoReport]
  /\ reached = [r \in Resp |-> FALSE] /\ moved = [r \in Resp |-> FALSE]
  /\ settled = [r \in Resp |-> "no"]
  /\ inherited = {} /\ selfTested = {} /\ fronted = {} /\ strangers = Unread

(* A host command fails or runs into its timeout.                           *)
Fault == /\ faults < MaxFaults
         /\ faults' = faults + 1 /\ faulted' = TRUE
NoFault == UNCHANGED faultVars
FaultIf(failed) == IF failed THEN Fault ELSE NoFault

-----------------------------------------------------------------------------
(* run_preflight.  iptables -S lists the rules of both families and each of *)
(* ours is deleted; a command that fails leaves what it was for, and the    *)
(* listener goes on.  The capability check may fail for want of the         *)
(* capability or because it timed out.                                      *)
Leftovers == {c \in Resp \X Families : rules[c[1]][c[2]] # <<>>}

(* Mutant: nothing is deleted.                                              *)
CleanedNever(left) == rules
Cleaned(left) ==
  [r \in Resp |-> [f \in Families |-> IF <<r, f>> \in left THEN rules[r][f] ELSE <<>>]]

Preflight ==
  /\ phase = "preflight"
  /\ \E left \in SUBSET Leftovers, checked \in {permitted, FALSE} :
       /\ rules' = Cleaned(left)
       /\ countersOk' = checked
       /\ FaultIf(left # {} \/ checked # permitted)
  /\ dcOk' \in BOOLEAN
  /\ phase' = "starting"
  /\ UNCHANGED <<kind, permitted, iface, runs, exit, pc, installed, daemonVars,
                 readVars, outVars, trafficVars, creditVars>>

-----------------------------------------------------------------------------
(* _start_responders: one after the other.                                  *)
Starting(r) ==
  /\ phase = "starting"
  /\ \A s \in Resp \ {r} : pc[s] \notin {"spawned", "installed"}

SpawnedFrom(r) == IF kind[r] = "mtorig" THEN "installed" ELSE "off"

(* The daemon is up after its settling time.  A stale interface has been    *)
(* deleted before.  WireGuard has no rule and is up at once; MTProxyOrig    *)
(* has installed its rule already.                                          *)
Spawn(r) ==
  /\ Starting(r) /\ pc[r] = SpawnedFrom(r)
  /\ pc' = [pc EXCEPT ![r] = IF kind[r] \in {"mtorig", "wireguard"} THEN "up" ELSE "spawned"]
  /\ iface' = [iface EXCEPT ![r] = kind[r] \in TunKinds]
  /\ UNCHANGED <<kind, permitted, rules, runVars, faultVars, installed, daemonVars,
                 readVars, outVars, trafficVars, creditVars>>

(* Mutant: the rule installed before is forgotten.                          *)
RetractedNever(r, stuck) == rules[r]
Retracted(r, stuck) ==
  [f \in Families |-> IF f \in installed[r] \ stuck THEN DeleteOne(rules[r][f]) ELSE rules[r][f]]

(* start() raises: the responder is dropped without a stop().  MTProxyOrig  *)
(* takes its rule out itself; a WireGuard interface stays if the commands   *)
(* after `ip link add` were the ones that failed.                           *)
SpawnFails(r) ==
  /\ Starting(r) /\ pc[r] = SpawnedFrom(r)
  /\ pc' = [pc EXCEPT ![r] = "failed"]
  /\ \E added \in {FALSE, kind[r] = "wireguard"} : iface' = [iface EXCEPT ![r] = added]
  /\ \E stuck \in SUBSET installed[r] :
       /\ rules' = [rules EXCEPT ![r] = Retracted(r, stuck)]
       /\ FaultIf(stuck # {})
  /\ installed' = [installed EXCEPT ![r] = {}]
  /\ UNCHANGED <<kind, permitted, runVars, daemonVars, readVars, outVars, trafficVars, creditVars>>

(* install_counter in every family.                                         *)
Install(r) ==
  /\ Starting(r) /\ kind[r] # "wireguard"
  /\ pc[r] = IF kind[r] = "mtorig" THEN "off" ELSE "spawned"
  /\ pc' = [pc EXCEPT ![r] = IF kind[r] = "mtorig" THEN "installed" ELSE "up"]
  /\ \E failing \in SUBSET Families :
     \E out \in PerFamily([f \in Families |->
                         InstallOutcomes(rules[r][f], permitted, f \in failing)]) :
       /\ rules' = [rules EXCEPT ![r] = [f \in Families |-> out[f][1]]]
       /\ installed' = [installed EXCEPT ![r] = {f \in Families : out[f][2]}]
       /\ FaultIf(failing # {})
  /\ inherited' = IF rules[r] # NoRules THEN inherited \cup {r} ELSE inherited
  /\ UNCHANGED <<kind, permitted, iface, runVars, daemonVars, readVars, outVars, trafficVars,
                 selfTested, fronted>>

(* MTProxyOrig with no upstream within reach marks itself unavailable.      *)
Skip(r) ==
  /\ Starting(r) /\ kind[r] = "mtorig" /\ pc[r] = "off"
  /\ pc' = [pc EXCEPT ![r] = "skipped"]
  /\ UNCHANGED <<hostVars, runVars, faultVars, installed, daemonVars, readVars,
                 outVars, trafficVars, creditVars>>

(* Every factory has been tried; with no responder at all the process ends. *)
StartupDone ==
  /\ phase = "starting" /\ \A r \in Resp : pc[r] \in {"up", "skipped", "failed"}
  /\ IF \A r \in Resp : pc[r] = "failed"
     THEN phase' = "down" /\ exit' = "nothing started"
     ELSE phase' = "testing" /\ UNCHANGED exit
  /\ UNCHANGED <<hostVars, runs, countersOk, dcOk, faultVars, pc, installed, daemonVars,
                 readVars, outVars, trafficVars, creditVars>>

(* _run_post_responder_self_tests: MTProxyOrig is probed over the loopback, *)
(* and a rule of the OUTPUT chain counts its answer like any other.         *)
SelfTest ==
  /\ phase = "testing"
  /\ phase' = "serving"
  /\ \E answered \in SUBSET {r \in Resp : kind[r] = "mtorig" /\ pc[r] = "up"}, f \in Families :
       /\ selfTested' = selfTested \cup answered
       /\ rules' = [r \in Resp |-> IF r \in answered
                                    THEN [rules[r] EXCEPT ![f] = Tick(@, 1)] ELSE rules[r]]
  /\ UNCHANGED <<kind, permitted, iface, runs, exit, countersOk, dcOk, faultVars, pc, installed,
                 daemonVars, readVars, outVars, trafficVars, inherited, fronted>>

-----------------------------------------------------------------------------
(* Traffic.  The credentials are served before the responders start, so it  *)
(* may come as soon as a daemon is there, before its rule; and go on for as *)
(* long as the daemon lives.                                                *)
Alive(r) ==
  /\ phase # "down"
  /\ pc[r] \in {"spawned", "installed", "up", "unbind", "read", "remove", "terminate",
                "cancelled", "unreaped"}
  /\ kind[r] \in TunKinds => iface[r]

Raise(r, level) == [bytes EXCEPT ![r] = Higher(@, level)]
Ticked(r, f, packets) == [rules EXCEPT ![r][f] = Tick(@, packets)]

(* The client's handshake gets through: a line in the log, authenticated    *)
(* bytes, a peer in wg show.  mtg answers with its WelcomePacket, which the *)
(* rule counts.                                                             *)
Handshake(r, f) ==
  /\ Alive(r) /\ ~reached[r]
  /\ reached' = [reached EXCEPT ![r] = TRUE]
  /\ IF kind[r] \in {"socks", "mtg"}
     THEN pipe' = [pipe EXCEPT ![r] = Append(@, "start")] ELSE UNCHANGED pipe
  /\ IF kind[r] \in TunKinds THEN bytes' = Raise(r, 1) ELSE UNCHANGED bytes
  /\ IF kind[r] = "mtg" THEN rules' = Ticked(r, f, 1) ELSE UNCHANGED rules
  /\ UNCHANGED <<kind, permitted, iface, runVars, faultVars, pc, installed, statusFile,
                 readVars, outVars, moved, settled, strangers, creditVars>>

(* The client's data gets through.  A short exchange over OpenVPN stays     *)
(* below its threshold of bytes, and is two packets of a data packet's      *)
(* length.                                                                  *)
Exchange(r, f) ==
  /\ Alive(r) /\ reached[r]
  /\ moved' = [moved EXCEPT ![r] = TRUE]
  /\ settled' = [settled EXCEPT ![r] =
        IF pc[r] # "up" \/ @ = "yes" THEN @ ELSE IF kind[r] = "openvpn" THEN "unwritten" ELSE "yes"]
  /\ IF kind[r] \in CounterKinds
     THEN rules' = Ticked(r, f, IF kind[r] = "openvpn" THEN MinDataPackets ELSE 1)
     ELSE UNCHANGED rules
  /\ \E level \in {1, 2} :
       /\ kind[r] # "openvpn" => level = 2
       /\ bytes' = IF kind[r] \in {"mtg", "mtorig"} THEN bytes ELSE Raise(r, level)
  /\ UNCHANGED <<kind, permitted, iface, runVars, faultVars, pc, installed, pipe, statusFile,
                 readVars, outVars, reached, strangers, creditVars>>

(* A scanner on the port.  mtg logs the start and the failure of its stream *)
(* or, when it is over its limit of connections, only the failure; a TLS    *)
(* client without the secret it hands to its fronting host, and the rule    *)
(* counts what comes back.  A datagram of a data packet's length ticks      *)
(* OpenVPN's rule.                                                          *)
Scan(r, f) ==
  /\ Alive(r) /\ strangers[r] < MaxStrangers
  /\ strangers' = [strangers EXCEPT ![r] = @ + 1]
  /\ \/ /\ kind[r] = "mtg"
        /\ \E lines \in {<<"start", "fail">>, <<"fail">>} : pipe' = [pipe EXCEPT ![r] = @ \o lines]
        /\ UNCHANGED <<rules, fronted>>
     \/ /\ kind[r] = "mtg"
        /\ pipe' = [pipe EXCEPT ![r] = @ \o <<"start", "fail">>]
        /\ rules' = Ticked(r, f, 1)
        /\ fronted' = fronted \cup {r}
     \/ /\ kind[r] = "openvpn"
        /\ rules' = Ticked(r, f, 1)
        /\ UNCHANGED <<pipe, fronted>>
  /\ UNCHANGED <<kind, permitted, iface, runVars, faultVars, pc, installed, bytes, statusFile,
                 readVars, outVars, reached, moved, settled, inherited, selfTested>>

(* _monitor_output reads one line.  The task is started with the responder; *)
(* SubprocessResponder cancels it first in its stop(), mtg last.            *)
Monitored(r) ==
  \/ kind[r] = "socks" /\ pc[r] \in {"spawned", "up"}
  \/ kind[r] = "mtg" /\ pc[r] \in {"spawned", "up", "read", "remove", "cancelled"}

(* A failure takes the start before it back.                                *)
(* Mutant: below zero, when its start was never logged.                     *)
CountedUnfloored(n, line) == IF line = "start" THEN n + 1 ELSE n - 1
Counted(n, line) == IF line = "start" THEN n + 1 ELSE IF n = 0 THEN 0 ELSE n - 1

Monitor(r) ==
  /\ phase # "down" /\ Monitored(r) /\ pipe[r] # <<>>
  /\ pipe' = [pipe EXCEPT ![r] = Tail(@)]
  /\ count' = [count EXCEPT ![r] = Counted(@, Head(pipe[r]))]
  /\ UNCHANGED <<hostVars, runVars, faultVars, pc, installed, bytes, statusFile, latched,
                 captured, outVars, trafficVars, creditVars>>

(* OpenVPN rewrites its status file every five seconds.                     *)
WriteStatus(r) ==
  /\ kind[r] = "openvpn" /\ Alive(r)
  /\ statusFile[r] # bytes[r] \/ settled[r] = "unwritten"
  /\ statusFile' = [statusFile EXCEPT ![r] = bytes[r]]
  /\ settled' = [settled EXCEPT ![r] = IF @ = "unwritten" /\ pc[r] = "up" THEN "yes" ELSE @]
  /\ UNCHANGED <<hostVars, runVars, faultVars, pc, installed, pipe, bytes, readVars, outVars,
                 reached, moved, strangers, creditVars>>

(* _latch_auth_bytes, every three seconds.                                  *)
Latch(r) ==
  /\ kind[r] = "openvpn" /\ pc[r] = "up" /\ phase # "down"
  /\ latched[r] < statusFile[r]
  /\ latched' = [latched EXCEPT ![r] = statusFile[r]]
  /\ UNCHANGED <<hostVars, runVars, faultVars, pc, installed, daemonVars, count, captured,
                 outVars, trafficVars, creditVars>>

(* keepalive 10 60: after a minute of silence OpenVPN forgets the peer and  *)
(* its Auth bytes start from zero.  In that minute the file was written and *)
(* read many times.                                                         *)
ForgetPeer(r) ==
  /\ kind[r] = "openvpn" /\ Alive(r) /\ bytes[r] > 0 /\ latched[r] >= bytes[r]
  /\ bytes' = [bytes EXCEPT ![r] = 0]
  /\ UNCHANGED <<hostVars, runVars, faultVars, pc, installed, pipe, statusFile, readVars,
                 outVars, trafficVars, creditVars>>

-----------------------------------------------------------------------------
(* What the counters say now.                                               *)
Shown(r) == IF Alive(r) THEN bytes[r] ELSE 0                    \* wg show
(* Mutant: the latch is not consulted.                                      *)
AuthUnlatched(r) == statusFile[r]
Auth(r) == Higher(latched[r], statusFile[r])
Packets(r) == Total(rules[r], Families)

(* _stop_responders: every stop() at once.  Before its first await that of  *)
(* SubprocessResponder ends the monitor, that of OpenVPN the latching, and  *)
(* that of WireGuard captures `wg show`, or zeros when that fails.          *)
FirstStep(r) ==
  IF kind[r] \in TunKinds THEN "unbind" ELSE IF kind[r] = "socks" THEN "remove" ELSE "read"

BeginStop ==
  /\ phase = "serving"
  /\ phase' = "stopping"
  /\ pc' = [r \in Resp |-> IF pc[r] = "up" THEN FirstStep(r)
                           ELSE IF pc[r] = "skipped" THEN "stopped" ELSE pc[r]]
  /\ \E deaf \in SUBSET {r \in Resp : kind[r] = "wireguard" /\ pc[r] = "up"} :
       /\ captured' = [r \in Resp |->
            IF kind[r] = "wireguard" /\ pc[r] = "up"
            THEN LET level == IF r \in deaf THEN 0 ELSE Shown(r)
                 IN  [taken |-> TRUE, handshakes |-> IF level > 0 THEN 1 ELSE 0, packets |-> 0, bytes |-> level]
            ELSE captured[r]]
       /\ FaultIf(deaf # {})
  /\ UNCHANGED <<hostVars, runs, exit, countersOk, dcOk, installed, daemonVars, count, latched,
                 outVars, trafficVars, creditVars>>

Stopping(r, step) == phase = "stopping" /\ pc[r] = step

(* remove_tun_bind.                                                         *)
Unbind(r) ==
  /\ Stopping(r, "unbind")
  /\ pc' = [pc EXCEPT ![r] = IF kind[r] = "openvpn" THEN "read" ELSE "terminate"]
  /\ UNCHANGED <<hostVars, runVars, faultVars, installed, daemonVars, readVars, outVars,
                 trafficVars, creditVars>>

(* read_counter, after OpenVPN's status.  A listing that fails counts as    *)
(* zero.                                                                    *)
Read(r) ==
  /\ Stopping(r, "read")
  /\ pc' = [pc EXCEPT ![r] = "remove"]
  /\ \E heard \in SUBSET Families :
       /\ FaultIf(permitted /\ heard # Families)
       /\ IF kind[r] = "mtorig"
          THEN /\ count' = [count EXCEPT ![r] = Higher(@, Total(rules[r], heard))]
               /\ UNCHANGED captured
          ELSE /\ captured' = [captured EXCEPT ![r] =
                    [taken |-> FALSE, packets |-> Total(rules[r], heard), bytes |-> Auth(r),
                     handshakes |-> IF Auth(r) > 0 THEN 1 ELSE 0]]
               /\ UNCHANGED count
  /\ UNCHANGED <<hostVars, runVars, installed, daemonVars, latched, outVars, trafficVars, creditVars>>

(* remove_counter, one family: -D, which may time out.                      *)
RemoveRule(r, f) ==
  /\ Stopping(r, "remove") /\ f \in installed[r]
  /\ installed' = [installed EXCEPT ![r] = @ \ {f}]
  /\ \/ rules' = [rules EXCEPT ![r][f] = DeleteOne(@)] /\ NoFault
     \/ Fault /\ UNCHANGED rules
  /\ UNCHANGED <<kind, permitted, iface, runVars, pc, daemonVars, readVars, outVars,
                 trafficVars, creditVars>>

(* The rules are out.  OpenVPN marks its snapshot as taken.                 *)
(* Mutant: it does not.                                                     *)
SealedNever(r) == captured[r].taken
Sealed(r) == captured[r].taken \/ kind[r] = "openvpn"

Removed(r) ==
  /\ Stopping(r, "remove") /\ installed[r] = {}
  /\ pc' = [pc EXCEPT ![r] = "terminate"]
  /\ captured' = [captured EXCEPT ![r].taken = Sealed(r)]
  /\ UNCHANGED <<hostVars, runVars, faultVars, installed, daemonVars, count, latched, outVars,
                 trafficVars, creditVars>>

(* The daemon is gone, and with it or after it the interface.  Nobody looks *)
(* at what the deletion of a WireGuard interface returned.                  *)
Terminate(r) ==
  /\ Stopping(r, "terminate")
  /\ pc' = [pc EXCEPT ![r] = "stopped"]
  /\ \E left \in {FALSE, kind[r] = "wireguard"} :
       /\ iface' = [iface EXCEPT ![r] = left]
       /\ FaultIf(left)
  /\ UNCHANGED <<kind, permitted, rules, runVars, installed, daemonVars, readVars, outVars,
                 trafficVars, creditVars>>

AllStopped ==
  /\ phase = "stopping" /\ \A r \in Resp : pc[r] \in {"stopped", "failed"}
  /\ phase' = "committing"
  /\ UNCHANGED <<hostVars, runs, exit, countersOk, dcOk, faultVars, pc, installed, daemonVars,
                 readVars, outVars, trafficVars, creditVars>>

(* _STOP_TIMEOUT_SEC: whoever is still inside stop() is cancelled where it  *)
(* is, which leaves a daemon running or unreaped.  A thread that is deleting *)
(* a WireGuard interface goes on, and the deletion succeeds or fails.       *)
Deadline ==
  /\ phase = "stopping"
  /\ LET late == {r \in Resp : pc[r] \notin {"stopped", "failed"}}
     IN  /\ late # {}
         /\ pc' = [r \in Resp |-> IF r \notin late THEN pc[r]
                                  ELSE IF pc[r] = "terminate" THEN "unreaped" ELSE "cancelled"]
         /\ iface' \in {i \in [Resp -> BOOLEAN] :
                          \A r \in Resp : i[r] # iface[r] =>
                            kind[r] = "wireguard" /\ pc[r] = "terminate" /\ ~i[r]}
  /\ phase' = "committing"
  /\ UNCHANGED <<kind, permitted, rules, runs, exit, countersOk, dcOk, faultVars, installed,
                 daemonVars, readVars, outVars, trafficVars, creditVars>>

-----------------------------------------------------------------------------
(* The two readings.  connection_count and data_transfer_ok, for the        *)
(* report:                                                                  *)
HandshakeSeen(r) ==
  \/ kind[r] \in {"socks", "mtg", "mtorig"} /\ count[r] > 0
  \/ kind[r] = "openvpn" /\ IF captured[r].taken THEN captured[r].handshakes > 0 ELSE Auth(r) > 0
  \/ kind[r] = "wireguard" /\ captured[r].handshakes > 0

(* Mutant: without the handshake.                                           *)
OpenVPNDataUnauthenticated(handshook, packets, level) == packets >= MinDataPackets \/ level = 2
OpenVPNData(handshook, packets, level) == handshook /\ (packets >= MinDataPackets \/ level = 2)

DataTransferOk(r) ==
  \/ kind[r] = "socks" /\ bytes[r] = 2
  \/ kind[r] = "mtg" /\ captured[r].packets > 0
  \/ kind[r] = "mtorig" /\ count[r] > 0
  \/ /\ kind[r] = "openvpn"
     /\ IF captured[r].taken
        THEN OpenVPNData(captured[r].handshakes > 0, captured[r].packets, captured[r].bytes)
        ELSE statusFile[r] = 2
  \/ kind[r] = "wireguard" /\ captured[r].bytes = 2

(* live_snapshot, for /snapshot.  The MTProto responders read the rules     *)
(* unless their daemon has been reaped, OpenVPN unless its own snapshot has *)
(* been taken.                                                              *)
LiveSnapshot(r) ==
  LET live == \/ kind[r] \in {"mtg", "mtorig"} /\ pc[r] # "stopped"
              \/ kind[r] = "openvpn" /\ ~captured[r].taken
      passed == IF kind[r] = "openvpn" THEN OpenVPNData(Auth(r) > 0, Packets(r), Auth(r))
                                       ELSE Packets(r) > 0
  IN  [handshook |-> IF live /\ kind[r] = "mtorig" THEN passed ELSE HandshakeSeen(r),
       dataOk |-> IF live THEN passed ELSE DataTransferOk(r)]

(* _data_counters_available, and the cap for an mtg listener that cannot    *)
(* reach Telegram.                                                          *)
CountersAvailable(r) == kind[r] \notin CounterKinds \/ countersOk
CapAt(r) == IF kind[r] = "mtg" /\ ~dcOk THEN "HANDSHAKE_ONLY" ELSE NoCap

(* The client's _listener_verdict.                                          *)
ListenerVerdict(r) ==
  Finalize(snapshot[r].handshook, snapshot[r].dataOk, CountersAvailable(r), CapAt(r))

Started(r) == pc[r] \in {"stopped", "cancelled", "unreaped"}

(* _build_final_snapshots and commit_final_snapshots.                       *)
CommitSnapshots ==
  /\ phase = "committing"
  /\ phase' = "draining"
  /\ snapshot' = [r \in Resp |-> IF Started(r) THEN LiveSnapshot(r) ELSE NoSnapshot]
  /\ UNCHANGED <<hostVars, runs, exit, countersOk, dcOk, faultVars, pc, installed, daemonVars,
                 readVars, report, trafficVars, creditVars>>

(* _finalize_session_results, after the echo server has stopped and the     *)
(* client has read its snapshot, or a minute after.                         *)
FinalizeResults ==
  /\ phase = "draining"
  /\ phase' = "done"
  /\ report' = [r \in Resp |->
       IF Started(r)
       THEN Finalize(HandshakeSeen(r), DataTransferOk(r), CountersAvailable(r), CapAt(r))
       ELSE NoReport]
  /\ UNCHANGED <<hostVars, runs, exit, countersOk, dcOk, faultVars, pc, installed, daemonVars,
                 readVars, snapshot, trafficVars, creditVars>>

(* The process ends and its daemons with it.  OpenVPN's interface goes with *)
(* the daemon or stays; WireGuard's stays.                                  *)
EndOfProcess ==
  /\ phase' = "down"
  /\ iface' \in {i \in [Resp -> BOOLEAN] :
                  \A r \in Resp : i[r] # iface[r] => kind[r] = "openvpn" /\ ~i[r]}
  /\ UNCHANGED <<kind, permitted, rules, runs, countersOk, dcOk, faultVars, pc, installed,
                 daemonVars, readVars, outVars, trafficVars, creditVars>>

Exit == phase = "done" /\ exit' = "graceful" /\ EndOfProcess

(* SIGKILL, or the host goes down for the container.                        *)
Crash == phase # "down" /\ exit' = "killed" /\ EndOfProcess

(* The operator starts the listener again: a process with nothing of its    *)
(* own on a host with whatever was left.                                    *)
NextRun ==
  /\ phase = "down" /\ runs < MaxRuns
  /\ runs' = runs + 1
  /\ phase' = "preflight" /\ exit' = "running" /\ faulted' = FALSE
  /\ countersOk' = FALSE /\ dcOk' = FALSE
  /\ pc' = [r \in Resp |-> "off"] /\ installed' = [r \in Resp |-> {}]
  /\ pipe' = [r \in Resp |-> <<>>] /\ count' = Unread
  /\ bytes' = Unread /\ statusFile' = Unread /\ latched' = Unread
  /\ captured' = [r \in Resp |-> NothingCaptured]
  /\ snapshot' = [r \in Resp |-> NoSnapshot] /\ report' = [r \in Resp |-> NoReport]
  /\ reached' = [r \in Resp |-> FALSE] /\ moved' = [r \in Resp |-> FALSE]
  /\ settled' = [r \in Resp |-> "no"]
  /\ inherited' = {} /\ selfTested' = {} /\ fronted' = {} /\ strangers' = Unread
  /\ UNCHANGED <<hostVars, faults>>

Over == phase = "down" /\ runs = MaxRuns /\ UNCHANGED vars

-----------------------------------------------------------------------------
Startup(r) == Spawn(r) \/ SpawnFails(r) \/ Install(r) \/ Skip(r)

Traffic(r) ==
  \/ \E f \in Families : Handshake(r, f) \/ Exchange(r, f) \/ Scan(r, f)
  \/ Monitor(r) \/ WriteStatus(r) \/ Latch(r) \/ ForgetPeer(r)

Stop(r) ==
  \/ Unbind(r) \/ Read(r) \/ Removed(r) \/ Terminate(r)
  \/ \E f \in Families : RemoveRule(r, f)

Next ==
  \/ Preflight \/ StartupDone \/ SelfTest \/ BeginStop \/ AllStopped \/ Deadline
  \/ CommitSnapshots \/ FinalizeResults \/ Exit \/ Crash \/ NextRun \/ Over
  \/ \E r \in Resp : Startup(r) \/ Traffic(r) \/ Stop(r)

Spec == Init /\ [][Next]_vars

-----------------------------------------------------------------------------
(* Properties.                                                              *)
Reported(r) == phase = "done" /\ report[r] # NoReport
Whole(r) == pc[r] \notin {"cancelled", "unreaped"}

(* No false OK: a report says OK only where the client got through in this  *)
(* very run, whatever crashes before, timeouts and scanners did.  Four      *)
(* exceptions are in the code: a listener that could not check its counters *)
(* believes the log alone; a rule that preflight failed to remove is        *)
(* counted on; so is the answer to the self-test; and so is what mtg's      *)
(* fronting host answers a stranger.                                        *)
Earned(r) == reached[r] /\ (kind[r] \in {"socks", "wireguard"} => moved[r])
Excepted(r) == r \in inherited \cup selfTested \cup fronted

OkIsEarned ==
  \A r \in Resp : Reported(r) /\ report[r] = "OK" =>
    ~CountersAvailable(r) \/ Excepted(r) \/ Earned(r)

(* What a crash left behind is never counted on, unless a host command      *)
(* failed in this run (preflight._cleanup_orphan_rules before _start_       *)
(* responders).                                                             *)
CountersStartFresh == inherited # {} => faulted

(* No false BLOCKED: an exchange with a responder that was up, and that     *)
(* OpenVPN has written to its status file, is reported as OK, however long  *)
(* before the end it was.                                                   *)
Undisturbed(r) == Whole(r) /\ ~faulted /\ (kind[r] \in CounterKinds => permitted)

ExchangeIsOk ==
  \A r \in Resp : Reported(r) /\ settled[r] = "yes" /\ Undisturbed(r) =>
    report[r] = Finalize(TRUE, TRUE, TRUE, CapAt(r))

(* The client's cross-verification, from the snapshot, and the report, made *)
(* up to a minute later, come to the same verdict for every responder that  *)
(* finished its stop().                                                     *)
SnapshotIsReport ==
  \A r \in Resp : Reported(r) /\ Whole(r) => ListenerVerdict(r) = report[r]

(* A listener that ends by itself and whose commands worked leaves the host *)
(* as it found it: no rule, and no interface of a responder that came up.   *)
HostLeftClean ==
  phase = "down" /\ exit # "killed" /\ ~faulted =>
    \A r \in Resp : Whole(r) =>
      rules[r] = NoRules /\ (pc[r] # "failed" => ~iface[r])

(* mtproto_orig_responder.py:392: the rule counts "a data-bearing response  *)
(* from mtproto-proxy back to the client".  It counts the answer to the     *)
(* listener's own self-test as well, and one packet is enough for OK.       *)
OkNeedsTheClient ==
  \A r \in Resp : Reported(r) /\ report[r] = "OK" =>
    ~CountersAvailable(r) \/ r \in inherited \cup fronted \/ Earned(r)
=============================================================================

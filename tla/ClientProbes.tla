---------------------------- MODULE ClientProbes ----------------------------
(***************************************************************************)
(* The probes of censprobe-client: main.py's loop over the protocols, the  *)
(* probe of each kind in protocol_probes.py with the processes and devices *)
(* it creates on the client's host, and the cross-verification of the      *)
(* results with the listener's snapshot.                                   *)
(*                                                                         *)
(* A protocol is a sequence of exchanges with the listener, and the path   *)
(* carries the first so many of them:                                      *)
(*   openvpn, wireguard, amneziawg, socks    handshake, data               *)
(*   mtg       (probe_mtproto_proxy)   connect, welcome, length, body      *)
(*   mtorig    (probe_mtproto_orig)    connect, length, body               *)
(* where socks is Shadowsocks, VLESS+Reality and Hysteria 2.               *)
(***************************************************************************)
EXTENDS Verdicts, FiniteSets

CONSTANTS
  Protos,      \* what the listener advertised
  KindsInUse,  \* the kinds they may be of
  MaxRuns,     \* bound on the launches of the client
  MaxFaults    \* bound on what goes wrong on the client's own host

Kinds == {"openvpn", "wireguard", "amneziawg", "socks", "mtg", "mtorig"}
TunKinds == {"openvpn", "wireguard", "amneziawg"}
WgKinds == {"wireguard", "amneziawg"}
MtKinds == {"mtg", "mtorig"}

ASSUME ClientProbesAssumption ==
  /\ IsFiniteSet(Protos) /\ "none" \notin Protos /\ KindsInUse \subseteq Kinds
  /\ MaxRuns \in Nat \ {0} /\ MaxFaults \in Nat

VARIABLES
  kind, world,   \* configuration: the kinds, and what is between the two ends
  runs, faults,  \* launches and local faults so far
  phase,         \* "probing", "killed" or "done"
  todo, at, pc,  \* the probes to come, the one that runs and where it is
  devices,       \* host: interfaces and control sockets of each protocol
  child,         \* host: tunnel processes that run
  coalesced,     \* the record with resPQ's length carried more than that
  heard,         \* the last exchange the listener saw
  result,        \* ProbeResult of each protocol
  row,           \* _print_cross_verification: a row of the table
  troubled       \* history: probes of this launch hit by a local fault

configVars == <<kind, world>>
hostVars == <<devices, child>>
outVars == <<row, phase>>
vars == <<kind, world, runs, faults, phase, todo, at, pc, devices, child, coalesced,
          heard, result, row, troubled>>

(* What is between the two ends.  A path that stops carrying drops packets, *)
(* ends the stream or resets it, on the way out or on the way back.  In the *)
(* listener's place may be nobody or, for mtg, a host that speaks TLS and   *)
(* lacks the secret.  Some client hosts answer a ping themselves.           *)
Worlds == [carried : 0..4, manner : {"silent", "fin", "rst"}, way : {"out", "back"},
           peer : {"ours", "fronting", "absent"}, dcReach : BOOLEAN,
           spoofs : BOOLEAN, counters : BOOLEAN]
Exchanges(k) == CASE k = "mtg" -> 4 [] k = "mtorig" -> 3 [] OTHER -> 2
Ordinary(k, w) ==
  /\ k \notin MtKinds => w.dcReach
  /\ k \notin MtKinds \cup {"openvpn"} => w.counters
  /\ w.peer = "fronting" => k = "mtg"
  /\ w.spoofs => k \in TunKinds
  /\ w.carried <= Exchanges(k)
  /\ k \notin MtKinds => w.manner = "silent"

NoProto == "none"
Stages == {"idle", "preclean", "bringup", "port", "handshake", "ping", "transfer", "curl",
           "connect", "welcome", "length", "body", "bulk", "down"}
LocalErrors == {"bad credentials", "start failed", "raised"}
Errors == LocalErrors \cup ASYMMETRIC_DPI_ERROR_MARKERS
          \cup {NoError, "refused", "write_failed", "welcome_invalid", "handshake_log"}
Results ==
  {r \in [verdict : Verdict, handshake : BOOLEAN, data : BOOLEAN, error : Errors,
          mbps : {"none", "measured", "throttled"}] :
     r.handshake <=> r.verdict \in {"OK", "HANDSHAKE_ONLY"}}
ProbeResult == [verdict |-> "BLOCKED", handshake |-> FALSE, data |-> FALSE,
                error |-> NoError, mbps |-> "none"]
NoRow == [final |-> "none", note |-> ""]
Rows == [final : Verdict, note : Notes] \cup {NoRow}

TypeOK ==
  /\ kind \in [Protos -> KindsInUse] /\ world \in [Protos -> Worlds]
  /\ runs \in 1..MaxRuns /\ faults \in 0..MaxFaults
  /\ phase \in {"probing", "killed", "done"}
  /\ todo \subseteq Protos /\ at \in Protos \cup {NoProto} /\ pc \in Stages
  /\ devices \in [Protos -> SUBSET {"iface", "socket"}]
  /\ child \subseteq Protos /\ coalesced \in BOOLEAN
  /\ heard \in [Protos -> 0..4] /\ result \in [Protos -> Results]
  /\ row \in [Protos -> Rows] /\ troubled \subseteq Protos

Init ==
  /\ kind \in [Protos -> KindsInUse]
  /\ world \in [Protos -> Worlds] /\ \A p \in Protos : Ordinary(kind[p], world[p])
  /\ runs = 1 /\ faults = 0 /\ phase = "probing"
  /\ todo = Protos /\ at = NoProto /\ pc = "idle"
  /\ devices = [p \in Protos |-> {}] /\ child = {} /\ coalesced = FALSE
  /\ heard = [p \in Protos |-> 0]
  /\ result = [p \in Protos |-> ProbeResult]
  /\ row = [p \in Protos |-> NoRow] /\ troubled = {}

-----------------------------------------------------------------------------
(* The other end.                                                           *)
Carries(p, i) == world[p].peer # "absent" /\ i <= world[p].carried
Exchanged(p, i) == Carries(p, i) /\ world[p].peer = "ours"

(* The listener takes part in an exchange, and may count one whose answer   *)
(* is lost; a connection whose SYN-ACK is lost is not one.                  *)
Hears(p, i) ==
  \E h \in {heard[p], i} :
    /\ heard' = [heard EXCEPT ![p] = h]
    /\ Exchanged(p, i) => h = i
    /\ h # heard[p] /\ ~Exchanged(p, i) =>
         /\ world[p].peer = "ours" /\ world[p].way = "back" /\ i = world[p].carried + 1
         /\ kind[p] \in MtKinds => i > 1

(* A fault of the client's own host.                                        *)
Fault(p) ==
  /\ faults < MaxFaults
  /\ faults' = faults + 1 /\ troubled' = troubled \cup {p}
NoFault == UNCHANGED <<faults, troubled>>
FaultIf(p, failed) == IF failed THEN Fault(p) ELSE NoFault

-----------------------------------------------------------------------------
(* _run_probe_loop: one after the other, in shuffled order.                 *)
FirstStage(k) ==
  IF k \in TunKinds THEN "preclean" ELSE IF k = "socks" THEN "bringup" ELSE "connect"

NextProbe(p) ==
  /\ phase = "probing" /\ at = NoProto /\ p \in todo
  /\ todo' = todo \ {p} /\ at' = p /\ pc' = FirstStage(kind[p])
  /\ result' = [result EXCEPT ![p] = ProbeResult]
  /\ UNCHANGED <<configVars, runs, faults, hostVars, coalesced, heard, outVars, troubled>>

Running(p, stage) == phase = "probing" /\ at = p /\ pc = stage
Goto(stage) == pc' = stage /\ UNCHANGED at
Return == pc' = "idle" /\ at' = NoProto
(* Mutant: the flags are forgotten.                                         *)
SetVerdictOnly(p, verdict, handshake, data, error) ==
  result' = [result EXCEPT ![p] = [@ EXCEPT !.verdict = verdict, !.error = error]]
Set(p, verdict, handshake, data, error) ==
  result' = [result EXCEPT ![p] = [@ EXCEPT !.verdict = verdict, !.handshake = handshake,
                                            !.data = data, !.error = error]]
Blocked(p, error) == Set(p, "BLOCKED", FALSE, FALSE, error)

(* Credentials that cannot be right end the probe before it does anything:  *)
(* ERROR from the MTProto probes, the default BLOCKED from the others.      *)
RefuseCredentials(p) ==
  /\ phase = "probing" /\ at = p /\ pc = FirstStage(kind[p])
  /\ kind[p] # "socks"
  /\ Fault(p) /\ Return
  /\ Set(p, IF kind[p] \in MtKinds THEN "ERROR" ELSE "BLOCKED", FALSE, FALSE, "bad credentials")
  /\ UNCHANGED <<configVars, runs, todo, hostVars, coalesced, heard, outVars>>

(* The binary is not there: _run_one_probe turns the exception into ERROR.  *)
Raised(p) == Set(p, "ERROR", FALSE, FALSE, "raised")

BinaryMissing(p) ==
  /\ Running(p, "bringup")
  /\ Fault(p) /\ Raised(p) /\ Return
  /\ UNCHANGED <<configVars, runs, todo, hostVars, coalesced, heard, outVars>>

(* Removing what an earlier launch left.  A removal that times out is not   *)
(* noticed.                                                                 *)
(* Mutant: an earlier launch is not thought of.                             *)
PreCleanNothing(p) ==
  /\ Running(p, "preclean") /\ Goto("bringup")
  /\ UNCHANGED <<configVars, runs, faults, todo, hostVars, coalesced, heard, result, outVars, troubled>>
PreClean(p) ==
  /\ Running(p, "preclean") /\ Goto("bringup")
  /\ \E left \in SUBSET devices[p] :
       /\ devices' = [devices EXCEPT ![p] = left]
       /\ FaultIf(p, left # {})
  /\ UNCHANGED <<configVars, runs, todo, child, coalesced, heard, result, outVars>>

(* The tunnel of the kinds with a device of their own.  It does not come up *)
(* over what is still there; wg-quick then fails at once, the probe scrubs  *)
(* what there is and returns; OpenVPN may yet say what is wrong.            *)
DevicesOf(k) == IF k = "amneziawg" THEN {"iface", "socket"} ELSE {"iface"}

BringUpTun(p) ==
  /\ Running(p, "bringup") /\ kind[p] \in TunKinds /\ devices[p] = {}
  /\ Goto("handshake")
  /\ devices' = [devices EXCEPT ![p] = DevicesOf(kind[p])]
  /\ child' = IF kind[p] = "openvpn" THEN child \cup {p} ELSE child
  /\ UNCHANGED <<configVars, runs, faults, todo, coalesced, heard, result, outVars, troubled>>

TunFails(p) ==
  /\ Running(p, "bringup") /\ kind[p] \in TunKinds
  /\ IF kind[p] = "openvpn"
     THEN /\ Goto("down") /\ Blocked(p, "handshake_log") /\ UNCHANGED devices
          /\ FaultIf(p, devices[p] = {})
     ELSE /\ Return /\ Blocked(p, "start failed")
          /\ \E left \in SUBSET DevicesOf(kind[p]) :
               /\ devices' = [devices EXCEPT ![p] = left]
               /\ FaultIf(p, devices[p] = {} \/ left # {})
  /\ UNCHANGED <<configVars, runs, todo, child, coalesced, heard, outVars>>

(* _poll_wg_handshake, or OpenVPN's "Initialization Sequence Completed",    *)
(* for PROBE_TIMEOUT.                                                       *)
Handshake(p) ==
  /\ Running(p, "handshake") /\ Hears(p, 1)
  /\ IF Exchanged(p, 1)
     THEN Goto("ping") /\ Set(p, "HANDSHAKE_ONLY", TRUE, FALSE, NoError)
     ELSE /\ Goto("down")
          /\ Blocked(p, IF kind[p] = "openvpn" THEN "handshake_log" ELSE NoError)
  /\ UNCHANGED <<configVars, runs, faults, todo, hostVars, coalesced, outVars, troubled>>

(* ping_echo: two answers of three.  OpenVPN believes them.                 *)
Ping(p) ==
  /\ Running(p, "ping") /\ Hears(p, 2)
  /\ IF Exchanged(p, 2) \/ world[p].spoofs
     THEN IF kind[p] = "openvpn"
          THEN Goto("bulk") /\ Set(p, "OK", TRUE, TRUE, NoError)
          ELSE Goto("transfer") /\ UNCHANGED result
     ELSE Goto("down") /\ UNCHANGED result
  /\ UNCHANGED <<configVars, runs, faults, todo, hostVars, coalesced, outVars, troubled>>

(* _wg_peer_rx_bytes: a spoofed ping raises no counter of the tunnel, but   *)
(* the peer's handshake response has raised it already.                     *)
ReceivedBytes(p) == Exchanged(p, 1)

Transfer(p) ==
  /\ Running(p, "transfer")
  /\ \E listed \in BOOLEAN :
       /\ FaultIf(p, ~listed)
       /\ IF listed /\ ReceivedBytes(p)
          THEN Goto("bulk") /\ Set(p, "OK", TRUE, TRUE, NoError)
          ELSE Goto("down") /\ UNCHANGED result
  /\ UNCHANGED <<configVars, runs, todo, hostVars, coalesced, heard, outVars>>

-----------------------------------------------------------------------------
(* sing-box, xray and hysteria with a local SOCKS port.                     *)
Spawn(p) ==
  /\ Running(p, "bringup") /\ kind[p] = "socks"
  /\ Goto("port")
  /\ child' = child \cup {p}
  /\ UNCHANGED <<configVars, runs, faults, todo, devices, coalesced, heard, result, outVars, troubled>>

(* _wait_port_listening.  A binary that has died by then is an error with   *)
(* the default verdict; one that is late is probed all the same.            *)
PortOpens(p) ==
  /\ Running(p, "port") /\ Goto("curl")
  /\ UNCHANGED <<configVars, runs, faults, todo, hostVars, coalesced, heard, result, outVars, troubled>>

PortNeverOpens(p) ==
  /\ Running(p, "port") /\ Fault(p)
  /\ \/ Goto("down") /\ Blocked(p, "start failed") /\ child' = child \ {p}
     \/ Goto("curl") /\ UNCHANGED <<child, result>>
  /\ UNCHANGED <<configVars, runs, todo, devices, coalesced, heard, outVars>>

(* proxy_echo, then _classify_proxy_outcome over the log that was drained   *)
(* meanwhile: a success marker counts unless there is a failure marker too. *)
(* A tunnel that logs a success before its peer has answered logs the       *)
(* failure as well.                                                         *)
(* Mutant: the first marker settles it.                                     *)
ClassifiedBySuccess(log) == "success" \in log
Classified(log) == "success" \in log /\ "failure" \notin log

Logs(p) == {log \in SUBSET {"success", "failure"} :
              log = {"success"} => Exchanged(p, 1)}

Curl(p) ==
  /\ Running(p, "curl")
  /\ \E failed \in {~Exchanged(p, 2), p \in troubled} :
       IF failed
       THEN /\ Goto("down")
            /\ \E log \in Logs(p) :
                 Set(p, IF Classified(log) THEN "HANDSHAKE_ONLY" ELSE "BLOCKED",
                     Classified(log), FALSE, NoError)
       ELSE Goto("bulk") /\ Exchanged(p, 2) /\ Set(p, "OK", TRUE, TRUE, NoError)
  /\ IF Exchanged(p, 1) THEN Hears(p, 2) ELSE Hears(p, 1)
  /\ UNCHANGED <<configVars, runs, faults, todo, hostVars, coalesced, outVars, troubled>>

(* proxy_throughput and tunnel_throughput: a figure, curl's timeout or      *)
(* nothing; never a verdict.  Nothing comes through a path that is cut.     *)
Mbps(p) == {"none", "throttled"} \cup (IF Exchanged(p, 2) THEN {"measured"} ELSE {})

Bulk(p) ==
  /\ Running(p, "bulk") /\ Goto("down")
  /\ \E mbps \in Mbps(p) : result' = [result EXCEPT ![p].mbps = mbps]
  /\ UNCHANGED <<configVars, runs, faults, todo, hostVars, coalesced, heard, outVars, troubled>>

(* The finally of a tunnel: the process is reaped and the devices deleted.  *)
(* Mutant: only the process is.                                             *)
TornDownProcess(p) == UNCHANGED devices /\ child' = child \ {p} /\ NoFault
TornDown(p) ==
  /\ child' = child \ {p}
  /\ \E left \in SUBSET devices[p] :
       /\ devices' = [devices EXCEPT ![p] = left]
       /\ FaultIf(p, left # {})

Down(p) ==
  /\ Running(p, "down") /\ Return /\ TornDown(p)
  /\ UNCHANGED <<configVars, runs, todo, coalesced, heard, result, outVars>>

-----------------------------------------------------------------------------
(* The MTProto probes.                                                      *)
Connect(p) ==
  /\ Running(p, "connect")
  /\ Hears(p, 1)
  /\ IF Carries(p, 1)
     THEN Goto(IF kind[p] = "mtg" THEN "welcome" ELSE "length") /\ UNCHANGED result
     ELSE Return /\ Blocked(p, "refused")
  /\ UNCHANGED <<configVars, runs, faults, todo, hostVars, coalesced, outVars, troubled>>

(* Nothing more is read.  The end of the stream is an answer of a kind; a   *)
(* reset is caught where the probe writes, and where it reads it raises.    *)
NothingRead(p, timedOut, ended) ==
  CASE world[p].manner = "silent" -> timedOut
    [] world[p].manner = "fin" -> ended
    [] world[p].manner = "rst" -> Raised(p)
NothingReadAfterWrite(p, timedOut, ended) ==
  \/ NothingRead(p, timedOut, ended)
  \/ world[p].manner = "rst" /\ Blocked(p, "write_failed")

(* The ClientHello, and the three records of mtg's WelcomePacket.  Another  *)
(* TLS server's answer has the wrong records or fails the HMAC.             *)
ReadWelcome(p) ==
  /\ Running(p, "welcome") /\ Hears(p, 2)
  /\ IF Exchanged(p, 2) THEN Goto("length") /\ UNCHANGED result
     ELSE /\ Return
          /\ IF Carries(p, 2) THEN Blocked(p, "welcome_invalid")
             ELSE NothingReadAfterWrite(p, Blocked(p, "welcome_read_timeout"),
                                        Blocked(p, "welcome_invalid"))
  /\ UNCHANGED <<configVars, runs, faults, todo, hostVars, coalesced, outVars, troubled>>

(* _exchange_obfuscated2_respq: resPQ comes from the DC behind the proxy,   *)
(* its length, then its body.  mtg cuts the stream into TLS records of any  *)
(* size: the record of the length may hold more or not, and one that stops  *)
(* in the middle is taken for a body's.                                     *)
LengthAt(p) == IF kind[p] = "mtg" THEN 3 ELSE 2
Relayed(p, i) == Exchanged(p, i) /\ world[p].dcReach
HearsRelayed(p, i) == IF world[p].dcReach THEN Hears(p, i) ELSE UNCHANGED heard
BodyTimedOut(p) == Set(p, "ERROR", FALSE, FALSE, "resPQ_body_timeout")
LengthTimedOut(p) ==
  \/ Blocked(p, "resPQ_len_timeout")
  \/ kind[p] = "mtg" /\ BodyTimedOut(p)

(* Mutant: the read has no timeout.                                         *)
LengthReadForever(p) ==
  /\ Running(p, "length") /\ HearsRelayed(p, LengthAt(p))
  /\ IF Relayed(p, LengthAt(p))
     THEN Goto("body") /\ coalesced' \in {kind[p] = "mtg", FALSE}
     ELSE UNCHANGED <<at, pc, coalesced>>
  /\ UNCHANGED <<configVars, runs, faults, todo, hostVars, result, outVars, troubled>>
ReadLength(p) ==
  /\ Running(p, "length") /\ HearsRelayed(p, LengthAt(p))
  /\ IF Relayed(p, LengthAt(p))
     THEN Goto("body") /\ coalesced' \in {kind[p] = "mtg", FALSE} /\ UNCHANGED result
     ELSE /\ Return /\ UNCHANGED coalesced
          /\ NothingReadAfterWrite(p, LengthTimedOut(p), Blocked(p, "resPQ_truncated"))
  /\ UNCHANGED <<configVars, runs, faults, todo, hostVars, outVars, troubled>>

(* A body that does not come: ERROR, unless the demuxer's buffer is empty,  *)
(* which _TlsRecordReader takes for a length that did not come.             *)
ReadBody(p) ==
  /\ Running(p, "body") /\ HearsRelayed(p, LengthAt(p) + 1)
  /\ Return
  /\ IF Relayed(p, LengthAt(p) + 1) THEN Set(p, "OK", TRUE, FALSE, NoError)
     ELSE NothingRead(p, IF kind[p] = "mtg" /\ ~coalesced THEN LengthTimedOut(p)
                         ELSE BodyTimedOut(p),
                      Blocked(p, "resPQ_truncated"))
  /\ UNCHANGED <<configVars, runs, faults, todo, hostVars, coalesced, outVars, troubled>>

-----------------------------------------------------------------------------
(* What the listener's snapshot says of a protocol, from its counters.      *)
Handshook(p) == kind[p] # "mtorig" /\ heard[p] >= 1
DcLost(p) == kind[p] = "mtg" /\ ~world[p].dcReach
DataSeen(p) == heard[p] >= 2 /\ world[p].counters
ListenerSays(p) ==
  Finalize(Handshook(p), DataSeen(p), world[p].counters,
           IF DcLost(p) THEN "HANDSHAKE_ONLY" ELSE NoCap)

(* _print_cross_verification.  A protocol the snapshot lacks, or one whose  *)
(* entry does not validate, is read as LiveSnapshot(), all zeros; without a *)
(* snapshot there is no table.                                              *)
Combined(p) == Agreed(result[p].verdict, ListenerSays(p), result[p].error, DcLost(p))
LiveSnapshot == Finalize(FALSE, FALSE, TRUE, NoCap)

(* Mutant: what the listener does not list is left to the client.           *)
CrossRowTrustsClient(p, listed) ==
  IF listed THEN Combined(p) ELSE [final |-> result[p].verdict, note |-> ""]
CrossRow(p, listed) ==
  IF listed THEN Combined(p)
  ELSE Agreed(result[p].verdict, LiveSnapshot, result[p].error, FALSE)

CrossVerify ==
  /\ phase = "probing" /\ todo = {} /\ at = NoProto
  /\ phase' = "done"
  /\ \/ \E lost \in SUBSET Protos :
          /\ row' = [p \in Protos |-> CrossRow(p, p \notin lost)]
          /\ IF lost = {} THEN NoFault
             ELSE faults < MaxFaults /\ faults' = faults + 1 /\ troubled' = troubled \cup lost
     \/ UNCHANGED row /\ faults < MaxFaults /\ faults' = faults + 1 /\ troubled' = Protos
  /\ UNCHANGED <<configVars, runs, todo, at, pc, hostVars, coalesced, heard, result>>

(* The client is killed between two steps, and launched again.  Its         *)
(* processes end with its container; what it had created on the host stays. *)
(* The listener may be another one by then.                                 *)
Kill ==
  /\ phase = "probing" /\ runs < MaxRuns
  /\ phase' = "killed" /\ child' = {}
  /\ UNCHANGED <<configVars, runs, faults, todo, at, pc, devices, coalesced, heard, result, row, troubled>>

Relaunch ==
  /\ phase = "killed"
  /\ phase' = "probing" /\ runs' = runs + 1
  /\ todo' = Protos /\ at' = NoProto /\ pc' = "idle"
  /\ heard' \in {heard, [p \in Protos |-> 0]}
  /\ result' = [p \in Protos |-> ProbeResult] /\ troubled' = {}
  /\ UNCHANGED <<configVars, faults, hostVars, coalesced, row>>

Over == phase = "done" /\ UNCHANGED vars

TunnelStep(p) ==
  \/ PreClean(p) \/ BringUpTun(p) \/ TunFails(p) \/ Handshake(p) \/ Ping(p) \/ Transfer(p)
ProxyStep(p) ==
  \/ BinaryMissing(p) \/ Spawn(p) \/ PortOpens(p) \/ PortNeverOpens(p) \/ Curl(p)
MtprotoStep(p) == Connect(p) \/ ReadWelcome(p) \/ ReadLength(p) \/ ReadBody(p)
ProbeStep(p) ==
  \/ NextProbe(p) \/ RefuseCredentials(p) \/ TunnelStep(p) \/ ProxyStep(p) \/ MtprotoStep(p)
  \/ Bulk(p) \/ Down(p)

Next ==
  \/ \E p \in Protos : ProbeStep(p)
  \/ CrossVerify \/ Kill \/ Relaunch \/ Over

Spec == Init /\ [][Next]_vars

(* Every wait of a probe has a timeout, so the loop goes on.                *)
FairSpec ==
  /\ Spec
  /\ WF_vars(\E p \in Protos : ProbeStep(p)) /\ WF_vars(CrossVerify)

-----------------------------------------------------------------------------
Probed(p) == phase # "killed" /\ p \notin todo /\ at # p
WholePath(p) ==
  /\ Exchanged(p, Exchanges(kind[p]))
  /\ kind[p] \in MtKinds => world[p].dcReach

(* A probe of the client says OK only when every exchange of the protocol   *)
(* came through, and HANDSHAKE_ONLY only when the first one did.  On a host *)
(* that answers its own pings a tunnel's OK is worth its handshake.         *)
VerdictIsEarned ==
  \A p \in Protos :
    /\ result[p].verdict = "OK" =>
         IF world[p].spoofs THEN Exchanged(p, 1) ELSE WholePath(p)
    /\ result[p].verdict = "HANDSHAKE_ONLY" => Exchanged(p, 1)

(* Where the path is open and nothing failed on the client's host in this   *)
(* launch, a probe says OK, and so does the final verdict unless mtorig had *)
(* no counter to count on: no launch is misled by what a killed one left.   *)
OpenPathIsOk ==
  \A p \in Protos \ troubled :
    Probed(p) /\ WholePath(p) =>
      /\ result[p].verdict = "OK"
      /\ kind[p] # "mtorig" \/ world[p].counters => row[p].final \in {"none", "OK"}

(* Whatever the client took for an answer, a protocol is finally OK only    *)
(* where data or, without counters, a handshake reached the listener.       *)
FinalOkReachedListener ==
  \A p \in Protos :
    row[p].final = "OK" => heard[p] >= IF world[p].counters THEN 2 ELSE 1

(* An MTProto protocol whose answers are silently dropped somewhere is not  *)
(* finally OK, however much the listener counted; unless the stream stopped *)
(* where the probe waits for the rest of a body or of a record.  That is an *)
(* ERROR to the probe, and the listener's OK then stands.                   *)
DroppedAnswersAreNotOk ==
  \A p \in Protos \ troubled :
    /\ kind[p] \in MtKinds /\ world[p].manner = "silent" /\ ~WholePath(p)
    /\ result[p].error # "resPQ_body_timeout"
    => row[p].final # "OK"

(* Between two probes of a launch, and after the last, nothing is left of   *)
(* the ones that ran, unless taking it down failed.                         *)
NothingLeftBehind ==
  \A p \in Protos \ troubled : Probed(p) => devices[p] = {} /\ p \notin child

(* A launch that is not killed gets to its table, whatever the path does.   *)
LoopFinishes == phase = "probing" ~> phase \in {"done", "killed"}
=============================================================================

------------------------ MODULE ClientProbes_proofs ------------------------
(***************************************************************************)
(* Proofs about ClientProbes: for any number of protocols of any kinds,    *)
(* over any paths, and any number of launches and local faults.            *)
(***************************************************************************)
EXTENDS ClientProbes, TLAPS

(* The stages a probe of each kind passes.                                  *)
StagesOf(k) ==
  IF k \in WgKinds THEN {"preclean", "bringup", "handshake", "ping", "transfer", "bulk", "down"}
  ELSE IF k = "openvpn" THEN {"preclean", "bringup", "handshake", "ping", "bulk", "down"}
  ELSE IF k = "socks" THEN {"bringup", "port", "curl", "bulk", "down"}
  ELSE IF k = "mtg" THEN {"connect", "welcome", "length", "body"}
  ELSE {"connect", "length", "body"}

StageInv ==
  /\ at = NoProto => pc = "idle"
  /\ at \in Protos => pc \in StagesOf(kind[at]) /\ at \notin todo
  /\ phase = "done" => todo = {} /\ at = NoProto
  /\ phase = "killed" => runs < MaxRuns

-----------------------------------------------------------------------------
(* Types.                                                                   *)

RecordTypes == [verdict : Verdict, handshake : BOOLEAN, data : BOOLEAN, error : Errors,
                mbps : {"none", "measured", "throttled"}]
Good == {"OK", "HANDSHAKE_ONLY"}

(* The default verdict, and the verdict of an early return.                 *)
LEMMA DefaultResult == ProbeResult \in Results
BY DEF ProbeResult, Results, Verdict, Errors

(* What Set does: it gives the result of p a verdict and an error.          *)
LEMMA SetResult ==
  ASSUME TypeOK, NEW p \in Protos, NEW v \in Verdict, NEW h \in BOOLEAN, NEW d \in BOOLEAN,
         NEW e \in Errors, h <=> v \in Good, Set(p, v, h, d, e)
  PROVE  /\ result' \in [Protos -> Results]
         /\ result'[p].verdict = v /\ result'[p].error = e
         /\ \A q \in Protos \ {p} : result'[q] = result[q]
<1>1. result \in [Protos -> Results] /\ result[p] \in RecordTypes
  BY DEF TypeOK, Results, RecordTypes
<1> DEFINE r == [result[p] EXCEPT !.verdict = v, !.handshake = h, !.data = d, !.error = e]
<1>2. /\ r \in RecordTypes /\ r.verdict = v /\ r.handshake = h /\ r.error = e
  BY <1>1 DEF RecordTypes
<1>3. r \in Results
  BY <1>2 DEF Results, RecordTypes, Good
<1>4. result' = [result EXCEPT ![p] = r]
  BY DEF Set
<1> HIDE DEF r
<1> QED
  BY <1>1, <1>2, <1>3, <1>4

(* Hears: the listener's last exchange is still one, and the one of the     *)
(* step if it was carried.                                                  *)
LEMMA HearsTyped ==
  ASSUME TypeOK, NEW p \in Protos, NEW i \in 1..4, Hears(p, i)
  PROVE  /\ heard' \in [Protos -> 0..4]
         /\ \A q \in Protos \ {p} : heard'[q] = heard[q]
         /\ heard'[p] \in {heard[p], i}
         /\ Exchanged(p, i) => heard'[p] = i
<1>1. PICK h \in {heard[p], i} :
        /\ heard' = [heard EXCEPT ![p] = h]
        /\ Exchanged(p, i) => h = i
  BY DEF Hears
<1>2. heard \in [Protos -> 0..4] /\ h \in 0..4
  BY DEF TypeOK
<1> QED
  BY <1>1, <1>2

(* A local fault is counted and remembered.                                 *)
LEMMA FaultTyped ==
  ASSUME TypeOK, NEW p \in Protos, NEW failed \in BOOLEAN, FaultIf(p, failed)
  PROVE  /\ faults' \in 0..MaxFaults /\ troubled' \subseteq Protos
         /\ troubled' = IF failed THEN troubled \cup {p} ELSE troubled
<1>1. faults \in 0..MaxFaults /\ troubled \subseteq Protos /\ MaxFaults \in Nat
  BY ClientProbesAssumption DEF TypeOK
<1> QED
  BY <1>1 DEF FaultIf, Fault, NoFault

-----------------------------------------------------------------------------
(* The inductive invariant, protocol by protocol.                           *)

(* What has been exchanged by the stage the probe of p is in.               *)
Way(p) ==
  at = p =>
    /\ pc \in {"ping", "transfer"} => Exchanged(p, 1)
    /\ pc = "transfer" => Exchanged(p, 2) \/ world[p].spoofs

Earned(p) ==
  /\ result[p].verdict = "OK" => IF world[p].spoofs THEN Exchanged(p, 1) ELSE WholePath(p)
  /\ result[p].verdict = "HANDSHAKE_ONLY" => Exchanged(p, 1)

(* An MTProto listener hears nothing over a path that carries nothing.      *)
HeardInv(p) == kind[p] \in MtKinds /\ heard[p] >= 1 => Exchanged(p, 1)

Stripped == {"handshake", "ping", "transfer", "port", "curl", "bulk", "down"}
CleanInv(p) ==
  /\ devices[p] # {} => kind[p] \in TunKinds
  /\ p \in child => phase = "probing" /\ at = p /\ pc \in Stripped /\ kind[p] \notin WgKinds
  /\ p \notin troubled /\ (Probed(p) \/ (at = p /\ pc = "bringup")) => devices[p] = {}

OpenInv(p) ==
  p \notin troubled /\ WholePath(p) =>
    /\ Probed(p) \/ (at = p /\ pc \in {"bulk", "down"}) => result[p].verdict = "OK"
    /\ Probed(p) \/ (at = p /\ pc \in {"transfer", "bulk", "down"}) => heard[p] >= 2

DroppedInv(p) ==
  /\ p \notin troubled /\ kind[p] \in MtKinds /\ world[p].manner = "silent"
  /\ Probed(p) /\ ~ WholePath(p) /\ result[p].error # "resPQ_body_timeout"
  => /\ result[p].verdict = "BLOCKED"
     /\ result[p].error \in ASYMMETRIC_DPI_ERROR_MARKERS \/ ~ Exchanged(p, 1)

ProtoInv(p) ==
  Way(p) /\ Earned(p) /\ HeardInv(p) /\ CleanInv(p) /\ OpenInv(p) /\ DroppedInv(p)

(* The rows of the table, once there is one.                                *)
RowInv(p) ==
  /\ phase # "done" => row[p] = NoRow
  /\ row[p].final = "OK" => heard[p] >= IF world[p].counters THEN 2 ELSE 1
  /\ p \notin troubled /\ WholePath(p) /\ (kind[p] # "mtorig" \/ world[p].counters) =>
       row[p].final \in {"none", "OK"}
  /\ /\ p \notin troubled /\ kind[p] \in MtKinds /\ world[p].manner = "silent"
     /\ ~ WholePath(p) /\ result[p].error # "resPQ_body_timeout"
     => row[p].final # "OK"

IInv ==
  /\ TypeOK /\ StageInv
  /\ \A p \in Protos : ProtoInv(p) /\ RowInv(p)

(* A step of the probe of p leaves the other protocols alone.               *)
Touches(p) ==
  /\ UNCHANGED <<kind, world, runs, phase, row>> /\ phase = "probing"
  /\ {at, at'} \subseteq {p, NoProto}
  /\ \A q \in Protos \ {p} :
       /\ result'[q] = result[q] /\ heard'[q] = heard[q] /\ devices'[q] = devices[q]
       /\ q \in child' <=> q \in child
       /\ q \in todo' <=> q \in todo
       /\ q \in troubled' <=> q \in troubled
After(p) == TypeOK' /\ StageInv' /\ Touches(p) /\ ProtoInv(p)'

LEMMA NoProtoIsNone == NoProto \notin Protos
BY ClientProbesAssumption DEF NoProto

(* What holds of the other protocols stays.                                 *)
LEMMA OthersStay ==
  ASSUME NEW p \in Protos, Touches(p), NEW q \in Protos \ {p}, ProtoInv(q)
  PROVE  ProtoInv(q)'
<1>1. /\ at # q /\ at' # q
      /\ kind' = kind /\ world' = world /\ phase' = phase
      /\ result'[q] = result[q] /\ heard'[q] = heard[q] /\ devices'[q] = devices[q]
      /\ q \in child' <=> q \in child
      /\ q \in todo' <=> q \in todo
      /\ q \in troubled' <=> q \in troubled
  BY NoProtoIsNone DEF Touches
<1>2. (Exchanged(q, 1) <=> Exchanged(q, 1)') /\ (WholePath(q) <=> WholePath(q)')
  BY <1>1 DEF Exchanged, Carries, WholePath
<1>3. Probed(q) <=> Probed(q)'
  BY <1>1 DEF Probed
<1>4. Way(q)'
  BY <1>1 DEF Way
<1>5. Earned(q)' /\ HeardInv(q)' /\ DroppedInv(q)'
  BY <1>1, <1>2, <1>3 DEF ProtoInv, Earned, HeardInv, DroppedInv
<1>6. CleanInv(q)'
  BY <1>1, <1>3 DEF ProtoInv, CleanInv
<1>7. OpenInv(q)'
  BY <1>1, <1>2, <1>3 DEF ProtoInv, OpenInv
<1> QED
  BY <1>4, <1>5, <1>6, <1>7 DEF ProtoInv

(* While the loop runs there are no rows, and a step that ends there leaves *)
(* the invariant standing.                                                  *)
LEMMA AfterIsEnough ==
  ASSUME IInv, NEW p \in Protos, After(p)
  PROVE  IInv'
<1>1. \A q \in Protos : ProtoInv(q)'
  BY OthersStay DEF After, IInv
<1>2. phase = "probing" /\ phase' = "probing" /\ row' = row
  BY DEF After, Touches
<1>3. \A q \in Protos : row'[q] = NoRow
  BY <1>2 DEF IInv, RowInv
<1>4. ASSUME NEW q \in Protos PROVE RowInv(q)'
  <2>1. NoRow.final = "none"
    BY DEF NoRow
  <2>2. row'[q] = NoRow /\ row'[q].final = "none" /\ row'[q].final # "OK"
    BY <1>3, <2>1
  <2> QED
    BY <2>2, Zenon DEF RowInv
<1> QED
  BY <1>1, <1>4 DEF After, IInv

-----------------------------------------------------------------------------
(* Kinds and paths.                                                         *)

LEMMA KindOf ==
  ASSUME TypeOK, NEW p \in Protos
  PROVE  /\ kind[p] \in Kinds /\ world[p] \in Worlds
         /\ kind[p] \in TunKinds <=> kind[p] \in WgKinds \/ kind[p] = "openvpn"
BY ClientProbesAssumption DEF TypeOK, Kinds, TunKinds, WgKinds

(* The configuration does not change, so neither does what a path carries.  *)
LEMMA PathFixed ==
  ASSUME kind' = kind, world' = world, NEW q \in Protos
  PROVE  /\ WholePath(q)' <=> WholePath(q)
         /\ \A i \in 1..4 : Exchanged(q, i)' <=> Exchanged(q, i)
BY DEF WholePath, Exchanged, Carries

(* A path that carries an exchange carries the ones before it.              *)
LEMMA Earlier ==
  ASSUME TypeOK, NEW p \in Protos, NEW i \in 1..4, NEW j \in 1..i, Exchanged(p, i)
  PROVE  Exchanged(p, j)
<1>1. world[p].carried \in 0..4
  BY KindOf DEF Worlds
<1> QED
  BY <1>1 DEF Exchanged, Carries

LEMMA WholeCarries ==
  ASSUME TypeOK, NEW p \in Protos, WholePath(p)
  PROVE  /\ Exchanged(p, 1) /\ Exchanged(p, 2)
         /\ kind[p] \in MtKinds => Exchanged(p, 3) /\ world[p].dcReach
         /\ kind[p] = "mtg" => Exchanged(p, 4)
<1>1. Exchanges(kind[p]) \in 2..4 /\ Exchanged(p, Exchanges(kind[p]))
  BY KindOf DEF Exchanges, WholePath, Kinds
<1>2. Exchanged(p, 1) /\ Exchanged(p, 2)
  <2>1. 1 \in 1..Exchanges(kind[p]) /\ 2 \in 1..Exchanges(kind[p]) /\ Exchanges(kind[p]) \in 1..4
    BY <1>1
  <2> QED
    BY <1>1, <2>1, Earlier
<1>3. kind[p] \in MtKinds => Exchanged(p, 3) /\ world[p].dcReach
  <2>1. kind[p] \in MtKinds => 3 \in 1..Exchanges(kind[p]) /\ Exchanges(kind[p]) \in 1..4
    BY DEF Exchanges, MtKinds
  <2> QED
    BY <1>1, <2>1, Earlier DEF WholePath
<1> QED
  BY <1>1, <1>2, <1>3 DEF Exchanges

LEMMA WholeIf ==
  ASSUME TypeOK, NEW p \in Protos
  PROVE  /\ kind[p] \notin MtKinds /\ Exchanged(p, 2) => WholePath(p)
         /\ kind[p] = "mtg" /\ Exchanged(p, 4) /\ world[p].dcReach => WholePath(p)
         /\ kind[p] = "mtorig" /\ Exchanged(p, 3) /\ world[p].dcReach => WholePath(p)
BY KindOf DEF Exchanges, WholePath, Kinds, MtKinds

(* Where the probe is when it runs.                                         *)
LEMMA RunningAt ==
  ASSUME IInv, NEW p \in Protos, phase = "probing", at = p
  PROVE  /\ pc \in StagesOf(kind[p]) /\ p \notin todo /\ at # NoProto
BY NoProtoIsNone DEF IInv, StageInv

-----------------------------------------------------------------------------
(* The steps of a probe.                                                    *)

LEMMA NextProbeStep ==
  ASSUME IInv, NEW p \in Protos, NextProbe(p)
  PROVE  After(p)
<1>1. /\ phase = "probing" /\ phase' = phase /\ at = NoProto /\ at' = p /\ p \in todo
      /\ todo' = todo \ {p} /\ pc' = FirstStage(kind[p])
      /\ result' = [result EXCEPT ![p] = ProbeResult]
      /\ UNCHANGED <<kind, world, runs, faults, devices, child, coalesced, heard, row, troubled>>
  BY DEF NextProbe, configVars, hostVars, outVars
<1>2. result \in [Protos -> Results] /\ todo \subseteq Protos
  BY DEF IInv, TypeOK
<1>3. pc' \in StagesOf(kind[p]) /\ pc' \in {"preclean", "bringup", "connect"}
      /\ (pc' = "bringup" => kind[p] \notin TunKinds)
  BY <1>1, KindOf DEF IInv, FirstStage, StagesOf, Kinds, TunKinds, WgKinds
<1>4. TypeOK'
  BY <1>1, <1>2, <1>3, DefaultResult DEF IInv, TypeOK, Stages
<1>5. StageInv' /\ Touches(p)
  BY <1>1, <1>2, <1>3, NoProtoIsNone DEF StageInv, Touches
<1>6. p \notin child /\ (pc' = "bringup" => devices[p] = {}) /\ (devices[p] # {} => kind[p] \in TunKinds)
  BY <1>1, <1>3, NoProtoIsNone DEF IInv, ProtoInv, CleanInv
<1>7. ~ Probed(p)' /\ result'[p].verdict = "BLOCKED"
  BY <1>1, <1>2 DEF Probed, ProbeResult
<1>8. Way(p)' /\ Earned(p)' /\ OpenInv(p)' /\ DroppedInv(p)'
  BY <1>1, <1>3, <1>7 DEF Way, Earned, OpenInv, DroppedInv
<1>9. HeardInv(p)' /\ CleanInv(p)'
  BY <1>1, <1>6, <1>7, PathFixed DEF IInv, ProtoInv, HeardInv, CleanInv
<1> QED
  BY <1>4, <1>5, <1>8, <1>9 DEF After, ProtoInv

(* A step of the probe that runs: where it goes, and what it may change.    *)
Local(p) ==
  /\ phase = "probing" /\ at = p
  /\ UNCHANGED <<kind, world, runs, phase, todo, row>>
  /\ \/ at' = p /\ pc' \in StagesOf(kind[p])
     \/ at' = NoProto /\ pc' = "idle"
  /\ faults' \in 0..MaxFaults /\ troubled' \in {troubled, troubled \cup {p}}
  /\ devices' \in [Protos -> SUBSET {"iface", "socket"}]
  /\ child' \subseteq Protos /\ coalesced' \in BOOLEAN
  /\ heard' \in [Protos -> 0..4] /\ result' \in [Protos -> Results]
  /\ \A q \in Protos \ {p} :
       /\ result'[q] = result[q] /\ heard'[q] = heard[q] /\ devices'[q] = devices[q]
       /\ q \in child' <=> q \in child

LEMMA LocalKeeps ==
  ASSUME IInv, NEW p \in Protos, Local(p)
  PROVE  TypeOK' /\ StageInv' /\ Touches(p)
<1>1. pc' \in Stages
  BY KindOf DEF Local, StagesOf, Stages, IInv
<1>2. TypeOK'
  BY <1>1 DEF Local, IInv, TypeOK
<1>3. StageInv'
  BY NoProtoIsNone DEF Local, IInv, StageInv
<1>4. Touches(p)
  BY DEF Local, Touches
<1> QED
  BY <1>2, <1>3, <1>4

(* Types of what a step leaves alone.                                       *)
LEMMA Kept ==
  ASSUME IInv
  PROVE  /\ faults \in 0..MaxFaults
         /\ devices \in [Protos -> SUBSET {"iface", "socket"}]
         /\ child \subseteq Protos /\ coalesced \in BOOLEAN
         /\ heard \in [Protos -> 0..4] /\ result \in [Protos -> Results]
BY DEF IInv, TypeOK

LEMMA RefuseCredentialsStep ==
  ASSUME IInv, NEW p \in Protos, RefuseCredentials(p)
  PROVE  After(p)
<1>1. /\ phase = "probing" /\ phase' = phase /\ at = p /\ at' = NoProto /\ pc' = "idle"
      /\ pc = FirstStage(kind[p]) /\ kind[p] # "socks"
      /\ UNCHANGED <<kind, world, runs, todo, devices, child, coalesced, heard, row>>
      /\ FaultIf(p, TRUE)
  BY DEF RefuseCredentials, Return, FaultIf, configVars, hostVars, outVars
<1>2. troubled' = troubled \cup {p} /\ faults' \in 0..MaxFaults
  BY <1>1, FaultTyped DEF IInv
<1>3. PICK v \in {"ERROR", "BLOCKED"} : Set(p, v, FALSE, FALSE, "bad credentials")
  BY DEF RefuseCredentials
<1>4. /\ result' \in [Protos -> Results] /\ result'[p].verdict \in {"ERROR", "BLOCKED"}
      /\ \A q \in Protos \ {p} : result'[q] = result[q]
  <2>1. v \in Verdict /\ "bad credentials" \in Errors /\ (FALSE <=> v \in Good)
    BY DEF Verdict, Errors, LocalErrors, Good
  <2>2. TypeOK
    BY DEF IInv
  <2>3. /\ result' \in [Protos -> Results] /\ result'[p].verdict = v
        /\ \A q \in Protos \ {p} : result'[q] = result[q]
    BY <1>3, <2>1, <2>2, SetResult
  <2> QED BY <2>3
<1>5. Local(p)
  BY <1>1, <1>2, <1>4, Kept DEF Local
<1>6. pc \notin Stripped
  BY <1>1, KindOf DEF FirstStage, Stripped, IInv
<1>7. p \notin child /\ (devices[p] # {} => kind[p] \in TunKinds)
  BY <1>6 DEF IInv, ProtoInv, CleanInv
<1>8. Way(p)' /\ Earned(p)' /\ OpenInv(p)' /\ DroppedInv(p)' /\ CleanInv(p)'
  BY <1>1, <1>2, <1>4, <1>7 DEF Way, Earned, OpenInv, DroppedInv, CleanInv
<1>9. HeardInv(p)'
  BY <1>1, PathFixed DEF IInv, ProtoInv, HeardInv
<1> QED
  BY <1>5, <1>8, <1>9, LocalKeeps DEF After, ProtoInv

LEMMA BinaryMissingStep ==
  ASSUME IInv, NEW p \in Protos, BinaryMissing(p)
  PROVE  After(p)
<1>1. /\ phase = "probing" /\ phase' = phase /\ at = p /\ at' = NoProto
      /\ pc = "bringup" /\ pc' = "idle"
      /\ UNCHANGED <<kind, world, runs, todo, devices, child, coalesced, heard, row>>
      /\ FaultIf(p, TRUE) /\ Set(p, "ERROR", FALSE, FALSE, "raised")
  BY DEF BinaryMissing, Running, Raised, Return, FaultIf, configVars, hostVars, outVars
<1>2. troubled' = troubled \cup {p} /\ faults' \in 0..MaxFaults
  BY <1>1, FaultTyped DEF IInv
<1>4. /\ result' \in [Protos -> Results] /\ result'[p].verdict = "ERROR"
      /\ \A q \in Protos \ {p} : result'[q] = result[q]
  BY <1>1, SetResult DEF IInv, Verdict, Errors, LocalErrors, Good
<1>5. Local(p)
  BY <1>1, <1>2, <1>4, Kept DEF Local
<1>7. p \notin child /\ (devices[p] # {} => kind[p] \in TunKinds)
  BY <1>1 DEF IInv, ProtoInv, CleanInv, Stripped
<1>8. Way(p)' /\ Earned(p)' /\ OpenInv(p)' /\ DroppedInv(p)' /\ CleanInv(p)'
  BY <1>1, <1>2, <1>4, <1>7 DEF Way, Earned, OpenInv, DroppedInv, CleanInv
<1>9. HeardInv(p)'
  BY <1>1, PathFixed DEF IInv, ProtoInv, HeardInv
<1> QED
  BY <1>5, <1>8, <1>9, LocalKeeps DEF After, ProtoInv

LEMMA PreCleanStep ==
  ASSUME IInv, NEW p \in Protos, PreClean(p)
  PROVE  After(p)
<1>1. /\ phase = "probing" /\ phase' = phase /\ at = p /\ at' = p
      /\ pc = "preclean" /\ pc' = "bringup"
      /\ UNCHANGED <<kind, world, runs, todo, child, coalesced, heard, result, row>>
  BY DEF PreClean, Running, Goto, configVars, outVars
<1>2. PICK left \in SUBSET devices[p] :
        /\ devices' = [devices EXCEPT ![p] = left]
        /\ FaultIf(p, left # {})
  BY DEF PreClean
<1>3. /\ faults' \in 0..MaxFaults
      /\ troubled' = IF left # {} THEN troubled \cup {p} ELSE troubled
  BY <1>2, FaultTyped DEF IInv
<1>4. /\ devices' \in [Protos -> SUBSET {"iface", "socket"}]
      /\ \A q \in Protos \ {p} : devices'[q] = devices[q]
      /\ devices'[p] = left
  BY <1>2, Kept
<1>5. kind[p] \in TunKinds /\ pc' \in StagesOf(kind[p])
  BY <1>1, RunningAt, KindOf DEF StagesOf, TunKinds, WgKinds, IInv
<1>6. Local(p)
  BY <1>1, <1>3, <1>4, <1>5, Kept DEF Local
<1>7. p \notin child /\ ~ Probed(p)'
  BY <1>1 DEF IInv, ProtoInv, CleanInv, Stripped, Probed
<1>8. CleanInv(p)'
  BY <1>1, <1>3, <1>4, <1>5, <1>7 DEF CleanInv
<1>9. Way(p)' /\ OpenInv(p)' /\ DroppedInv(p)'
  BY <1>1, <1>7 DEF Way, OpenInv, DroppedInv
<1>10. HeardInv(p)' /\ Earned(p)'
  BY <1>1, PathFixed DEF IInv, ProtoInv, HeardInv, Earned
<1> QED
  BY <1>6, <1>8, <1>9, <1>10, LocalKeeps DEF After, ProtoInv

LEMMA BringUpTunStep ==
  ASSUME IInv, NEW p \in Protos, BringUpTun(p)
  PROVE  After(p)
<1>1. /\ phase = "probing" /\ phase' = phase /\ at = p /\ at' = p
      /\ pc = "bringup" /\ pc' = "handshake" /\ kind[p] \in TunKinds
      /\ devices' = [devices EXCEPT ![p] = DevicesOf(kind[p])]
      /\ child' = IF kind[p] = "openvpn" THEN child \cup {p} ELSE child
      /\ UNCHANGED <<kind, world, runs, faults, todo, coalesced, heard, result, row, troubled>>
  BY DEF BringUpTun, Running, Goto, configVars, outVars
<1>2. DevicesOf(kind[p]) \subseteq {"iface", "socket"}
  BY DEF DevicesOf
<1>3. /\ devices' \in [Protos -> SUBSET {"iface", "socket"}]
      /\ \A q \in Protos \ {p} : devices'[q] = devices[q]
  BY <1>1, <1>2, Kept
<1>4. pc' \in StagesOf(kind[p])
  BY <1>1 DEF StagesOf, TunKinds, WgKinds
<1>5. Local(p)
  BY <1>1, <1>3, <1>4, Kept DEF Local
<1>6. p \in child' => kind[p] \notin WgKinds
  BY <1>1 DEF IInv, ProtoInv, CleanInv, Stripped, WgKinds
<1>7. ~ Probed(p)'
  BY <1>1 DEF Probed
<1>8. CleanInv(p)'
  BY <1>1, <1>6, <1>7 DEF CleanInv, Stripped
<1>9. Way(p)' /\ OpenInv(p)' /\ DroppedInv(p)'
  BY <1>1, <1>7 DEF Way, OpenInv, DroppedInv
<1>10. HeardInv(p)' /\ Earned(p)'
  BY <1>1, PathFixed DEF IInv, ProtoInv, HeardInv, Earned
<1> QED
  BY <1>5, <1>8, <1>9, <1>10, LocalKeeps DEF After, ProtoInv

LEMMA TunFailsStep ==
  ASSUME IInv, NEW p \in Protos, TunFails(p)
  PROVE  After(p)
<1>1. /\ phase = "probing" /\ phase' = phase /\ at = p
      /\ pc = "bringup" /\ kind[p] \in TunKinds
      /\ UNCHANGED <<kind, world, runs, todo, child, coalesced, heard, row>>
  BY DEF TunFails, Running, configVars, outVars
<1>2. \/ /\ kind[p] = "openvpn" /\ at' = p /\ pc' = "down" /\ devices' = devices
         /\ Blocked(p, "handshake_log") /\ FaultIf(p, devices[p] = {})
      \/ /\ kind[p] # "openvpn" /\ at' = NoProto /\ pc' = "idle"
         /\ Blocked(p, "start failed")
         /\ \E left \in SUBSET DevicesOf(kind[p]) :
              /\ devices' = [devices EXCEPT ![p] = left]
              /\ FaultIf(p, devices[p] = {} \/ left # {})
  BY <1>1 DEF TunFails, Goto, Return
\* Over clean ground only a fault makes it fail.
<1>3. /\ p \in troubled' /\ troubled' \in {troubled, troubled \cup {p}}
      /\ faults' \in 0..MaxFaults
  <2>1. p \in troubled \/ devices[p] = {}
    BY <1>1 DEF IInv, ProtoInv, CleanInv
  <2>2. CASE FaultIf(p, devices[p] = {})
    BY <2>1, <2>2, FaultTyped DEF IInv
  <2>3. CASE \E left \in SUBSET DevicesOf(kind[p]) : FaultIf(p, devices[p] = {} \/ left # {})
    <3>1. PICK left \in SUBSET DevicesOf(kind[p]) : FaultIf(p, devices[p] = {} \/ left # {})
      BY <2>3
    <3> QED
      BY <2>1, <3>1, FaultTyped DEF IInv
  <2> QED
    BY <1>2, <2>2, <2>3
<1>4. /\ result' \in [Protos -> Results] /\ result'[p].verdict = "BLOCKED"
      /\ \A q \in Protos \ {p} : result'[q] = result[q]
  BY <1>2, SetResult DEF IInv, Verdict, Errors, LocalErrors, Good, Blocked
<1>5. /\ devices' \in [Protos -> SUBSET {"iface", "socket"}]
      /\ \A q \in Protos \ {p} : devices'[q] = devices[q]
  <2>1. DevicesOf(kind[p]) \subseteq {"iface", "socket"}
    BY DEF DevicesOf
  <2>2. \/ devices' = devices
        \/ \E left \in SUBSET {"iface", "socket"} : devices' = [devices EXCEPT ![p] = left]
    BY <1>2, <2>1
  <2> QED
    BY <2>2, Kept
<1>6. \/ at' = p /\ pc' \in StagesOf(kind[p])
      \/ at' = NoProto /\ pc' = "idle"
  BY <1>2 DEF StagesOf, WgKinds
<1>7. Local(p)
  BY <1>1, <1>3, <1>4, <1>5, <1>6, Kept DEF Local
<1>8. p \notin child
  BY <1>1 DEF IInv, ProtoInv, CleanInv, Stripped
<1>9. CleanInv(p)'
  BY <1>1, <1>3, <1>8 DEF CleanInv
<1>10. Way(p)' /\ Earned(p)' /\ OpenInv(p)' /\ DroppedInv(p)'
  BY <1>2, <1>3, <1>4, NoProtoIsNone DEF Way, Earned, OpenInv, DroppedInv
<1>11. HeardInv(p)'
  BY <1>1, PathFixed DEF IInv, ProtoInv, HeardInv
<1> QED
  BY <1>7, <1>9, <1>10, <1>11, LocalKeeps DEF After, ProtoInv

(* An exchange keeps the invariant on what was heard.                       *)
LEMMA HearsKeeps ==
  ASSUME IInv, NEW p \in Protos, NEW i \in 1..4, Hears(p, i), kind' = kind, world' = world
  PROVE  HeardInv(p)'
<1>1. PICK h \in {heard[p], i} :
        /\ heard' = [heard EXCEPT ![p] = h]
        /\ h # heard[p] /\ ~ Exchanged(p, i) =>
             /\ world[p].peer = "ours" /\ i = world[p].carried + 1
             /\ kind[p] \in MtKinds => i > 1
  BY DEF Hears
<1>2. heard' [p] = h
  BY <1>1, Kept
<1>3. CASE h = heard[p]
  BY <1>2, <1>3, PathFixed DEF IInv, ProtoInv, HeardInv
<1>4. CASE Exchanged(p, i)
  <2>1. Exchanged(p, 1)
    BY <1>4, Earlier DEF IInv
  <2> QED
    BY <2>1, PathFixed DEF HeardInv
<1>5. CASE kind[p] \in MtKinds /\ h # heard[p] /\ ~ Exchanged(p, i)
  <2>1. world[p].carried \in 0..4
    BY KindOf DEF IInv, Worlds
  <2>2. world[p].carried >= 1 /\ world[p].peer = "ours"
    BY <1>1, <1>5, <2>1
  <2>3. Exchanged(p, 1)
    BY <2>1, <2>2 DEF Exchanged, Carries
  <2> QED
    BY <2>3, PathFixed DEF HeardInv
<1>6. CASE kind[p] \notin MtKinds
  BY <1>6 DEF HeardInv
<1> QED
  BY <1>1, <1>3, <1>4, <1>5, <1>6

LEMMA HandshakeStep ==
  ASSUME IInv, NEW p \in Protos, Handshake(p)
  PROVE  After(p)
<1>1. /\ phase = "probing" /\ phase' = phase /\ at = p /\ at' = p /\ pc = "handshake"
      /\ UNCHANGED <<kind, world, runs, faults, todo, devices, child, coalesced, row, troubled>>
      /\ Hears(p, 1)
  BY DEF Handshake, Running, Goto, configVars, hostVars, outVars
<1>2. \/ Exchanged(p, 1) /\ pc' = "ping" /\ Set(p, "HANDSHAKE_ONLY", TRUE, FALSE, NoError)
      \/ /\ ~ Exchanged(p, 1) /\ pc' = "down"
         /\ \E e \in {"handshake_log", NoError} : Set(p, "BLOCKED", FALSE, FALSE, e)
  BY DEF Handshake, Goto, Blocked
<1>3. /\ heard' \in [Protos -> 0..4] /\ \A q \in Protos \ {p} : heard'[q] = heard[q]
  BY <1>1, HearsTyped DEF IInv
<1>4. /\ result' \in [Protos -> Results] /\ \A q \in Protos \ {p} : result'[q] = result[q]
      /\ \/ Exchanged(p, 1) /\ pc' = "ping" /\ result'[p].verdict = "HANDSHAKE_ONLY"
         \/ ~ Exchanged(p, 1) /\ pc' = "down" /\ result'[p].verdict = "BLOCKED"
  BY <1>2, SetResult DEF IInv, Verdict, Errors, LocalErrors, Good
<1>5. kind[p] \in TunKinds /\ pc' \in StagesOf(kind[p])
  BY <1>1, <1>4, RunningAt, KindOf DEF StagesOf, TunKinds, WgKinds, IInv
<1>6. Local(p)
  BY <1>1, <1>3, <1>4, <1>5, Kept DEF Local
<1>7. CleanInv(p)'
  BY <1>1, <1>4 DEF IInv, ProtoInv, CleanInv, Stripped, Probed
<1>8. Way(p)' /\ Earned(p)'
  BY <1>1, <1>4, PathFixed DEF Way, Earned
<1>9. OpenInv(p)' /\ DroppedInv(p)'
  BY <1>1, <1>4, PathFixed, WholeCarries DEF OpenInv, DroppedInv, Probed, IInv
<1> QED
  BY <1>1, <1>6, <1>7, <1>8, <1>9, LocalKeeps, HearsKeeps DEF After, ProtoInv

LEMMA PingStep ==
  ASSUME IInv, NEW p \in Protos, Ping(p)
  PROVE  After(p)
<1>1. /\ phase = "probing" /\ phase' = phase /\ at = p /\ at' = p /\ pc = "ping"
      /\ UNCHANGED <<kind, world, runs, faults, todo, devices, child, coalesced, row, troubled>>
      /\ Hears(p, 2)
  BY DEF Ping, Running, Goto, configVars, hostVars, outVars
<1>2. \/ /\ Exchanged(p, 2) \/ world[p].spoofs
         /\ \/ /\ kind[p] = "openvpn" /\ pc' = "bulk" /\ Set(p, "OK", TRUE, TRUE, NoError)
            \/ /\ kind[p] # "openvpn" /\ pc' = "transfer" /\ result' = result
      \/ ~ Exchanged(p, 2) /\ pc' = "down" /\ result' = result
  BY DEF Ping, Goto
<1>3. /\ heard' \in [Protos -> 0..4] /\ \A q \in Protos \ {p} : heard'[q] = heard[q]
      /\ Exchanged(p, 2) => heard'[p] = 2
  BY <1>1, HearsTyped DEF IInv
<1>4. /\ result' \in [Protos -> Results] /\ \A q \in Protos \ {p} : result'[q] = result[q]
      /\ \/ /\ Exchanged(p, 2) \/ world[p].spoofs
            /\ \/ kind[p] = "openvpn" /\ pc' = "bulk" /\ result'[p].verdict = "OK"
               \/ kind[p] # "openvpn" /\ pc' = "transfer" /\ result' = result
         \/ ~ Exchanged(p, 2) /\ pc' = "down" /\ result' = result
  BY <1>2, SetResult, Kept DEF IInv, Verdict, Errors, LocalErrors, Good
<1>5. kind[p] \in TunKinds /\ kind[p] \notin MtKinds /\ pc' \in StagesOf(kind[p])
  BY <1>1, <1>4, RunningAt, KindOf DEF StagesOf, TunKinds, WgKinds, MtKinds, IInv
<1>6. Local(p)
  BY <1>1, <1>3, <1>4, <1>5, Kept DEF Local
<1>7. CleanInv(p)'
  BY <1>1, <1>4 DEF IInv, ProtoInv, CleanInv, Stripped, Probed
<1>8. Exchanged(p, 1)
  BY <1>1 DEF IInv, ProtoInv, Way
<1>9. Way(p)'
  BY <1>1, <1>4, <1>8, PathFixed DEF Way
<1>10. Earned(p)'
  <2>1. result' = result => Earned(p)'
    BY <1>1, PathFixed DEF IInv, ProtoInv, Earned
  <2>2. Exchanged(p, 2) => WholePath(p)
    BY <1>5, WholeIf DEF IInv
  <2> QED
    BY <1>1, <1>4, <1>8, <2>1, <2>2, PathFixed DEF Earned
<1>11. OpenInv(p)' /\ DroppedInv(p)'
  BY <1>1, <1>3, <1>4, PathFixed, WholeCarries DEF OpenInv, DroppedInv, Probed, IInv
<1> QED
  BY <1>1, <1>6, <1>7, <1>9, <1>10, <1>11, LocalKeeps, HearsKeeps DEF After, ProtoInv

LEMMA TransferStep ==
  ASSUME IInv, NEW p \in Protos, Transfer(p)
  PROVE  After(p)
<1>1. /\ phase = "probing" /\ phase' = phase /\ at = p /\ at' = p /\ pc = "transfer"
      /\ UNCHANGED <<kind, world, runs, todo, devices, child, coalesced, heard, row>>
  BY DEF Transfer, Running, Goto, configVars, hostVars, outVars
<1>2. PICK listed \in BOOLEAN :
        /\ FaultIf(p, ~ listed)
        /\ \/ /\ listed /\ Exchanged(p, 1)
              /\ pc' = "bulk" /\ Set(p, "OK", TRUE, TRUE, NoError)
           \/ ~ (listed /\ Exchanged(p, 1)) /\ pc' = "down" /\ result' = result
  BY DEF Transfer, Goto, ReceivedBytes
<1>3. /\ faults' \in 0..MaxFaults
      /\ troubled' = IF ~ listed THEN troubled \cup {p} ELSE troubled
  BY <1>2, FaultTyped DEF IInv
<1>4. /\ result' \in [Protos -> Results] /\ \A q \in Protos \ {p} : result'[q] = result[q]
      /\ \/ listed /\ pc' = "bulk" /\ result'[p].verdict = "OK"
         \/ ~ (listed /\ Exchanged(p, 1)) /\ pc' = "down" /\ result' = result
  BY <1>2, SetResult, Kept DEF IInv, Verdict, Errors, LocalErrors, Good
<1>5. kind[p] \in WgKinds /\ kind[p] \notin MtKinds /\ pc' \in StagesOf(kind[p])
  BY <1>1, <1>4, RunningAt, KindOf DEF StagesOf, WgKinds, MtKinds, IInv
<1>6. Local(p)
  BY <1>1, <1>3, <1>4, <1>5, Kept DEF Local
<1>7. CleanInv(p)'
  BY <1>1, <1>4 DEF IInv, ProtoInv, CleanInv, Stripped, Probed
<1>8. Exchanged(p, 1) /\ (Exchanged(p, 2) \/ world[p].spoofs)
  BY <1>1 DEF IInv, ProtoInv, Way
<1>9. Way(p)'
  BY <1>1, <1>4 DEF Way
<1>10. Earned(p)'
  <2>1. result' = result => Earned(p)'
    BY <1>1, PathFixed DEF IInv, ProtoInv, Earned
  <2>2. Exchanged(p, 2) => WholePath(p)
    BY <1>5, WholeIf DEF IInv
  <2> QED
    BY <1>1, <1>4, <1>8, <2>1, <2>2, PathFixed DEF Earned
<1>11. DroppedInv(p)'
  BY <1>1, <1>4, <1>5 DEF DroppedInv
<1>12. OpenInv(p)'
  <2>1. p \notin troubled' => p \notin troubled /\ listed
    BY <1>3
  <2>2. p \notin troubled /\ WholePath(p) => heard[p] >= 2
    BY <1>1 DEF IInv, ProtoInv, OpenInv
  <2> QED
    BY <1>1, <1>4, <1>8, <2>1, <2>2, PathFixed DEF OpenInv, Probed
<1>13. HeardInv(p)'
  BY <1>1, PathFixed DEF IInv, ProtoInv, HeardInv
<1> QED
  BY <1>6, <1>7, <1>9, <1>10, <1>11, <1>12, <1>13, LocalKeeps DEF After, ProtoInv

LEMMA SpawnStep ==
  ASSUME IInv, NEW p \in Protos, Spawn(p)
  PROVE  After(p)
<1>1. /\ phase = "probing" /\ phase' = phase /\ at = p /\ at' = p
      /\ pc = "bringup" /\ pc' = "port" /\ kind[p] = "socks" /\ child' = child \cup {p}
      /\ UNCHANGED <<kind, world, runs, faults, todo, devices, coalesced, heard, result, row, troubled>>
  BY DEF Spawn, Running, Goto, configVars, outVars
<1>2. Local(p)
  BY <1>1, Kept DEF Local, StagesOf, WgKinds
<1>3. CleanInv(p)'
  BY <1>1 DEF IInv, ProtoInv, CleanInv, Stripped, Probed, WgKinds
<1>4. Way(p)' /\ OpenInv(p)' /\ DroppedInv(p)'
  BY <1>1 DEF Way, OpenInv, DroppedInv, Probed
<1>5. HeardInv(p)' /\ Earned(p)'
  BY <1>1, PathFixed DEF IInv, ProtoInv, HeardInv, Earned
<1> QED
  BY <1>2, <1>3, <1>4, <1>5, LocalKeeps DEF After, ProtoInv

LEMMA PortOpensStep ==
  ASSUME IInv, NEW p \in Protos, PortOpens(p)
  PROVE  After(p)
<1>1. /\ phase = "probing" /\ phase' = phase /\ at = p /\ at' = p /\ pc = "port" /\ pc' = "curl"
      /\ UNCHANGED <<kind, world, runs, faults, todo, devices, child, coalesced, heard, result, row, troubled>>
  BY DEF PortOpens, Running, Goto, configVars, hostVars, outVars
<1>2. kind[p] = "socks"
  BY <1>1, RunningAt, KindOf DEF StagesOf, WgKinds, Kinds, IInv
<1>3. Local(p)
  BY <1>1, <1>2, Kept DEF Local, StagesOf, WgKinds
<1>4. CleanInv(p)'
  BY <1>1 DEF IInv, ProtoInv, CleanInv, Stripped, Probed
<1>5. Way(p)' /\ OpenInv(p)' /\ DroppedInv(p)'
  BY <1>1 DEF Way, OpenInv, DroppedInv, Probed
<1>6. HeardInv(p)' /\ Earned(p)'
  BY <1>1, PathFixed DEF IInv, ProtoInv, HeardInv, Earned
<1> QED
  BY <1>3, <1>4, <1>5, <1>6, LocalKeeps DEF After, ProtoInv

LEMMA PortNeverOpensStep ==
  ASSUME IInv, NEW p \in Protos, PortNeverOpens(p)
  PROVE  After(p)
<1>1. /\ phase = "probing" /\ phase' = phase /\ at = p /\ at' = p
      /\ pc = "port" /\ FaultIf(p, TRUE)
      /\ UNCHANGED <<kind, world, runs, todo, devices, coalesced, heard, row>>
  BY DEF PortNeverOpens, Running, Goto, FaultIf, configVars, outVars
<1>2. \/ pc' = "down" /\ child' = child \ {p} /\ Set(p, "BLOCKED", FALSE, FALSE, "start failed")
      \/ pc' = "curl" /\ child' = child /\ result' = result
  BY DEF PortNeverOpens, Goto, Blocked
<1>3. troubled' = troubled \cup {p} /\ faults' \in 0..MaxFaults
  BY <1>1, FaultTyped DEF IInv
<1>4. /\ result' \in [Protos -> Results] /\ \A q \in Protos \ {p} : result'[q] = result[q]
      /\ result'[p].verdict = "BLOCKED" \/ result' = result
  BY <1>2, SetResult, Kept DEF IInv, Verdict, Errors, LocalErrors, Good
<1>5. kind[p] = "socks"
  BY <1>1, RunningAt, KindOf DEF StagesOf, WgKinds, Kinds, IInv
<1>6. Local(p)
  BY <1>1, <1>2, <1>3, <1>4, <1>5, Kept DEF Local, StagesOf, WgKinds
<1>7. CleanInv(p)'
  BY <1>1, <1>2, <1>3 DEF IInv, ProtoInv, CleanInv, Stripped
<1>8. Way(p)' /\ OpenInv(p)' /\ DroppedInv(p)'
  BY <1>2, <1>3 DEF Way, OpenInv, DroppedInv
<1>9. HeardInv(p)' /\ Earned(p)'
  BY <1>1, <1>4, PathFixed DEF IInv, ProtoInv, HeardInv, Earned
<1> QED
  BY <1>6, <1>7, <1>8, <1>9, LocalKeeps DEF After, ProtoInv

(* A success that counts was logged after the peer's answer.                *)
LEMMA ClassifiedHeard ==
  ASSUME NEW p \in Protos, NEW log \in Logs(p), Classified(log)
  PROVE  Exchanged(p, 1)
<1>1. log \in SUBSET {"success", "failure"} /\ (log = {"success"} => Exchanged(p, 1))
  BY DEF Logs
<1>2. log = {"success"}
  BY <1>1 DEF Classified
<1> QED
  BY <1>1, <1>2

LEMMA CurlStep ==
  ASSUME IInv, NEW p \in Protos, Curl(p)
  PROVE  After(p)
<1>1. /\ phase = "probing" /\ phase' = phase /\ at = p /\ at' = p /\ pc = "curl"
      /\ UNCHANGED <<kind, world, runs, faults, todo, devices, child, coalesced, row, troubled>>
      /\ IF Exchanged(p, 1) THEN Hears(p, 2) ELSE Hears(p, 1)
  BY DEF Curl, Running, Goto, configVars, hostVars, outVars
<1>2. PICK failed \in {~ Exchanged(p, 2), p \in troubled} :
        IF failed
        THEN /\ Goto("down")
             /\ \E log \in Logs(p) :
                  Set(p, IF Classified(log) THEN "HANDSHAKE_ONLY" ELSE "BLOCKED",
                      Classified(log), FALSE, NoError)
        ELSE Goto("bulk") /\ Exchanged(p, 2) /\ Set(p, "OK", TRUE, TRUE, NoError)
  BY DEF Curl
<1>3. \/ /\ ~ Exchanged(p, 2) \/ p \in troubled
         /\ pc' = "down"
         /\ \/ Exchanged(p, 1) /\ Set(p, "HANDSHAKE_ONLY", TRUE, FALSE, NoError)
            \/ Set(p, "BLOCKED", FALSE, FALSE, NoError)
      \/ pc' = "bulk" /\ Exchanged(p, 2) /\ Set(p, "OK", TRUE, TRUE, NoError)
  <2>1. CASE failed
    <3>1. PICK log \in Logs(p) :
            Set(p, IF Classified(log) THEN "HANDSHAKE_ONLY" ELSE "BLOCKED",
                Classified(log), FALSE, NoError)
      BY <1>2, <2>1
    <3>2. CASE Classified(log)
      <4>1. Classified(log) = TRUE
        BY <3>2 DEF Classified
      <4>2. Set(p, "HANDSHAKE_ONLY", TRUE, FALSE, NoError)
        BY <3>1, <4>1
      <4> QED
        BY <1>2, <2>1, <3>2, <4>2, ClassifiedHeard DEF Goto
    <3>3. CASE ~ Classified(log)
      <4>1. Classified(log) = FALSE
        BY <3>3 DEF Classified
      <4>2. Set(p, "BLOCKED", FALSE, FALSE, NoError)
        BY <3>1, <4>1
      <4> QED
        BY <1>2, <2>1, <4>2 DEF Goto
    <3> QED
      BY <3>2, <3>3
  <2>2. CASE ~ failed
    BY <1>2, <2>2 DEF Goto
  <2> QED
    BY <2>1, <2>2
<1>4. /\ heard' \in [Protos -> 0..4] /\ \A q \in Protos \ {p} : heard'[q] = heard[q]
      /\ Exchanged(p, 1) /\ Exchanged(p, 2) => heard'[p] = 2
  BY <1>1, HearsTyped DEF IInv
<1>5. /\ result' \in [Protos -> Results] /\ \A q \in Protos \ {p} : result'[q] = result[q]
      /\ \/ /\ ~ Exchanged(p, 2) \/ p \in troubled
            /\ pc' = "down"
            /\ \/ Exchanged(p, 1) /\ result'[p].verdict = "HANDSHAKE_ONLY"
               \/ result'[p].verdict = "BLOCKED"
         \/ pc' = "bulk" /\ Exchanged(p, 2) /\ result'[p].verdict = "OK"
  BY <1>3, SetResult DEF IInv, Verdict, Errors, Good
<1>6. kind[p] = "socks" /\ kind[p] \notin MtKinds
  BY <1>1, RunningAt, KindOf DEF StagesOf, WgKinds, Kinds, MtKinds, IInv
<1>7. Local(p)
  BY <1>1, <1>4, <1>5, <1>6, Kept DEF Local, StagesOf, WgKinds
<1>8. CleanInv(p)'
  BY <1>1, <1>5 DEF IInv, ProtoInv, CleanInv, Stripped, Probed
<1>9. Way(p)' /\ DroppedInv(p)'
  BY <1>1, <1>5, <1>6 DEF Way, DroppedInv
<1>10. Earned(p)'
  <2>1. Exchanged(p, 2) => WholePath(p) /\ Exchanged(p, 1)
    BY <1>6, WholeIf, Earlier DEF IInv
  <2> QED
    BY <1>1, <1>5, <2>1, PathFixed DEF Earned
<1>11. OpenInv(p)'
  <2>1. WholePath(p) => Exchanged(p, 1) /\ Exchanged(p, 2)
    BY WholeCarries DEF IInv
  <2> QED
    BY <1>1, <1>4, <1>5, <2>1, PathFixed DEF OpenInv, Probed
<1>12. HeardInv(p)'
  BY <1>1, <1>6 DEF HeardInv
<1> QED
  BY <1>7, <1>8, <1>9, <1>10, <1>11, <1>12, LocalKeeps DEF After, ProtoInv

LEMMA BulkStep ==
  ASSUME IInv, NEW p \in Protos, Bulk(p)
  PROVE  After(p)
<1>1. /\ phase = "probing" /\ phase' = phase /\ at = p /\ at' = p /\ pc = "bulk" /\ pc' = "down"
      /\ UNCHANGED <<kind, world, runs, faults, todo, devices, child, coalesced, heard, row, troubled>>
  BY DEF Bulk, Running, Goto, configVars, hostVars, outVars
<1>2. PICK mbps \in {"none", "measured", "throttled"} : result' = [result EXCEPT ![p].mbps = mbps]
  BY DEF Bulk, Mbps
<1>3. /\ result' \in [Protos -> Results] /\ \A q \in Protos \ {p} : result'[q] = result[q]
      /\ result'[p].verdict = result[p].verdict
  BY <1>2, Kept DEF Results
<1>4. kind[p] \notin MtKinds /\ pc' \in StagesOf(kind[p])
  BY <1>1, RunningAt, KindOf DEF StagesOf, MtKinds, WgKinds, IInv
<1>5. Local(p)
  BY <1>1, <1>3, <1>4, Kept DEF Local
<1>6. CleanInv(p)'
  BY <1>1 DEF IInv, ProtoInv, CleanInv, Stripped, Probed
<1>7. Way(p)' /\ DroppedInv(p)'
  BY <1>1, <1>4 DEF Way, DroppedInv
<1>8. HeardInv(p)' /\ Earned(p)'
  BY <1>1, <1>3, PathFixed DEF IInv, ProtoInv, HeardInv, Earned
<1>9. OpenInv(p)'
  BY <1>1, <1>3, PathFixed DEF IInv, ProtoInv, OpenInv, Probed
<1> QED
  BY <1>5, <1>6, <1>7, <1>8, <1>9, LocalKeeps DEF After, ProtoInv

LEMMA DownStep ==
  ASSUME IInv, NEW p \in Protos, Down(p)
  PROVE  After(p)
<1>1. /\ phase = "probing" /\ phase' = phase /\ at = p /\ at' = NoProto
      /\ pc = "down" /\ pc' = "idle" /\ child' = child \ {p}
      /\ UNCHANGED <<kind, world, runs, todo, coalesced, heard, result, row>>
  BY DEF Down, Running, Return, TornDown, configVars, outVars
<1>2. PICK left \in SUBSET devices[p] :
        devices' = [devices EXCEPT ![p] = left] /\ FaultIf(p, left # {})
  BY DEF Down, TornDown
<1>3. /\ faults' \in 0..MaxFaults
      /\ troubled' = IF left # {} THEN troubled \cup {p} ELSE troubled
  BY <1>2, FaultTyped DEF IInv
<1>4. /\ devices' \in [Protos -> SUBSET {"iface", "socket"}]
      /\ \A q \in Protos \ {p} : devices'[q] = devices[q]
      /\ devices'[p] = left
  BY <1>2, Kept
<1>5. Local(p)
  BY <1>1, <1>3, <1>4, Kept DEF Local
<1>6. kind[p] \notin MtKinds
  BY <1>1, RunningAt, KindOf DEF StagesOf, MtKinds, WgKinds, IInv
<1>7. CleanInv(p)'
  BY <1>1, <1>3, <1>4, NoProtoIsNone DEF IInv, ProtoInv, CleanInv
<1>8. Way(p)' /\ DroppedInv(p)'
  BY <1>1, <1>6, NoProtoIsNone DEF Way, DroppedInv
<1>9. HeardInv(p)' /\ Earned(p)'
  BY <1>1, PathFixed DEF IInv, ProtoInv, HeardInv, Earned
<1>10. OpenInv(p)'
  BY <1>1, <1>3, PathFixed, NoProtoIsNone DEF IInv, ProtoInv, OpenInv
<1> QED
  BY <1>5, <1>7, <1>8, <1>9, <1>10, LocalKeeps DEF After, ProtoInv

-----------------------------------------------------------------------------
(* The steps of an MTProto probe.  It goes on, gives up over a path that is *)
(* not whole, or succeeds over one that is.                                 *)
Fails(p) ==
  \E v \in {"BLOCKED", "ERROR"}, e \in Errors :
    /\ Set(p, v, FALSE, FALSE, e)
    /\ world[p].manner = "silent" /\ e # "resPQ_body_timeout" =>
         /\ v = "BLOCKED"
         /\ e \in ASYMMETRIC_DPI_ERROR_MARKERS \/ ~ Exchanged(p, 1)

MtStages == {"connect", "welcome", "length", "body"}
MtStep(p) ==
  /\ phase = "probing" /\ at = p /\ pc \in MtStages
  /\ UNCHANGED <<kind, world, runs, phase, faults, todo, devices, child, row, troubled>>
  /\ coalesced' \in BOOLEAN
  /\ heard' \in [Protos -> 0..4] /\ \A q \in Protos \ {p} : heard'[q] = heard[q]
  /\ HeardInv(p)'
  /\ \/ at' = p /\ pc' \in StagesOf(kind[p]) \cap MtStages /\ result' = result
     \/ at' = NoProto /\ pc' = "idle" /\ ~ WholePath(p) /\ Fails(p)
     \/ /\ at' = NoProto /\ pc' = "idle" /\ WholePath(p) /\ heard'[p] >= 2
        /\ Set(p, "OK", TRUE, FALSE, NoError)

LEMMA MtStepKeeps ==
  ASSUME IInv, NEW p \in Protos, MtStep(p)
  PROVE  After(p)
<1>1. /\ phase = "probing" /\ phase' = phase /\ at = p /\ pc \in MtStages
      /\ UNCHANGED <<kind, world, runs, faults, todo, devices, child, row, troubled>>
  BY DEF MtStep
<1>2. kind[p] \in MtKinds /\ kind[p] \notin TunKinds
  BY <1>1, RunningAt, KindOf DEF IInv, StagesOf, MtStages, MtKinds, TunKinds, WgKinds, Kinds
<1>3. \/ at' = p /\ pc' \in StagesOf(kind[p]) \cap MtStages /\ result' = result
      \/ /\ at' = NoProto /\ pc' = "idle" /\ ~ WholePath(p)
         /\ \E v \in {"BLOCKED", "ERROR"}, e \in Errors :
              /\ result' \in [Protos -> Results] /\ \A q \in Protos \ {p} : result'[q] = result[q]
              /\ result'[p].verdict = v /\ result'[p].error = e
              /\ world[p].manner = "silent" /\ e # "resPQ_body_timeout" =>
                   /\ v = "BLOCKED"
                   /\ e \in ASYMMETRIC_DPI_ERROR_MARKERS \/ ~ Exchanged(p, 1)
      \/ /\ at' = NoProto /\ pc' = "idle" /\ WholePath(p) /\ heard'[p] >= 2
         /\ result' \in [Protos -> Results] /\ \A q \in Protos \ {p} : result'[q] = result[q]
         /\ result'[p].verdict = "OK"
  <2>1. ASSUME Fails(p)
        PROVE  \E v \in {"BLOCKED", "ERROR"}, e \in Errors :
                 /\ result' \in [Protos -> Results] /\ \A q \in Protos \ {p} : result'[q] = result[q]
                 /\ result'[p].verdict = v /\ result'[p].error = e
                 /\ world[p].manner = "silent" /\ e # "resPQ_body_timeout" =>
                      /\ v = "BLOCKED"
                      /\ e \in ASYMMETRIC_DPI_ERROR_MARKERS \/ ~ Exchanged(p, 1)
    <3>1. PICK v \in {"BLOCKED", "ERROR"}, e \in Errors :
            /\ Set(p, v, FALSE, FALSE, e)
            /\ world[p].manner = "silent" /\ e # "resPQ_body_timeout" =>
                 /\ v = "BLOCKED"
                 /\ e \in ASYMMETRIC_DPI_ERROR_MARKERS \/ ~ Exchanged(p, 1)
      BY <2>1 DEF Fails
    <3>2. v \in Verdict /\ v \notin Good
      BY DEF Verdict, Good
    <3>3. /\ result' \in [Protos -> Results] /\ \A q \in Protos \ {p} : result'[q] = result[q]
          /\ result'[p].verdict = v /\ result'[p].error = e
      BY <3>1, <3>2, SetResult DEF IInv
    <3> QED
      BY <3>1, <3>3
  <2>2. ASSUME Set(p, "OK", TRUE, FALSE, NoError)
        PROVE  /\ result' \in [Protos -> Results] /\ \A q \in Protos \ {p} : result'[q] = result[q]
               /\ result'[p].verdict = "OK"
    BY <2>2, SetResult DEF IInv, Verdict, Errors, Good
  <2> QED
    BY <2>1, <2>2 DEF MtStep
<1>4. result' \in [Protos -> Results] /\ \A q \in Protos \ {p} : result'[q] = result[q]
  BY <1>3, Kept
<1>5. Local(p)
  BY <1>1, <1>3, <1>4, Kept DEF Local, MtStep
<1>6. devices[p] = {} /\ p \notin child
  BY <1>1, <1>2 DEF IInv, ProtoInv, CleanInv, MtStages, Stripped
<1>7. CleanInv(p)'
  BY <1>1, <1>6 DEF CleanInv
<1>8. Way(p)'
  BY <1>3, NoProtoIsNone DEF Way, MtStages
<1>9. Earned(p)'
  <2>1. result' = result => Earned(p)'
    BY <1>1, PathFixed DEF IInv, ProtoInv, Earned
  <2>2. WholePath(p) => Exchanged(p, 1)
    BY WholeCarries DEF IInv
  <2> QED
    BY <1>1, <1>3, <2>1, <2>2, PathFixed DEF Earned
<1>10. OpenInv(p)'
  BY <1>1, <1>3, PathFixed DEF OpenInv, Probed, MtStages
<1>11. DroppedInv(p)'
  BY <1>1, <1>3, PathFixed DEF DroppedInv, Probed
<1> QED
  BY <1>5, <1>7, <1>8, <1>9, <1>10, <1>11, LocalKeeps DEF After, ProtoInv, MtStep

(* What the listener hears of an exchange that goes through the DC.         *)
LEMMA HearsRelayedTyped ==
  ASSUME IInv, NEW p \in Protos, NEW i \in 1..4, HearsRelayed(p, i), kind' = kind, world' = world
  PROVE  /\ heard' \in [Protos -> 0..4] /\ \A q \in Protos \ {p} : heard'[q] = heard[q]
         /\ Relayed(p, i) => heard'[p] = i
         /\ HeardInv(p)'
<1>1. CASE world[p].dcReach
  BY <1>1, HearsTyped, HearsKeeps DEF HearsRelayed, IInv, Relayed
<1>2. CASE ~ world[p].dcReach
  BY <1>2, Kept, PathFixed DEF HearsRelayed, Relayed, IInv, ProtoInv, HeardInv
<1> QED
  BY <1>1, <1>2

(* Where nothing is read and the listener was asked for its answer, the     *)
(* probe fails with a marker, unless the stream ended.                      *)
LEMMA MannerOf ==
  ASSUME IInv, NEW p \in Protos
  PROVE  \/ world[p].manner = "silent"
         \/ world[p].manner = "fin"
         \/ world[p].manner = "rst"
BY KindOf DEF IInv, Worlds

LEMMA NothingReadFails ==
  ASSUME IInv, NEW p \in Protos, NEW e \in ASYMMETRIC_DPI_ERROR_MARKERS,
         NothingReadAfterWrite(p, Blocked(p, e) \/ BodyTimedOut(p), \E f \in Errors : Blocked(p, f))
  PROVE  Fails(p)
<1>1. \/ Blocked(p, e) \/ BodyTimedOut(p)
      \/ world[p].manner # "silent" /\ \E f \in Errors : Blocked(p, f)
      \/ world[p].manner # "silent" /\ Raised(p)
      \/ world[p].manner # "silent" /\ Blocked(p, "write_failed")
  BY MannerOf DEF NothingReadAfterWrite, NothingRead
<1>2. e \in Errors /\ {"resPQ_body_timeout", "raised", "write_failed"} \subseteq Errors
  BY DEF Errors, ASYMMETRIC_DPI_ERROR_MARKERS, LocalErrors
<1>3. CASE Blocked(p, e)
  BY <1>2, <1>3 DEF Fails, Blocked
<1>4. CASE BodyTimedOut(p)
  BY <1>2, <1>4 DEF Fails, BodyTimedOut
<1>5. CASE world[p].manner # "silent" /\ \E f \in Errors : Blocked(p, f)
  BY <1>5 DEF Fails, Blocked
<1>6. CASE world[p].manner # "silent" /\ Raised(p)
  BY <1>2, <1>6 DEF Fails, Raised
<1>7. CASE world[p].manner # "silent" /\ Blocked(p, "write_failed")
  BY <1>2, <1>7 DEF Fails, Blocked
<1> QED
  BY <1>1, <1>3, <1>4, <1>5, <1>6, <1>7

LEMMA ConnectStep ==
  ASSUME IInv, NEW p \in Protos, Connect(p)
  PROVE  After(p)
<1>1. /\ phase = "probing" /\ phase' = phase /\ at = p /\ pc = "connect"
      /\ UNCHANGED <<kind, world, runs, faults, todo, devices, child, coalesced, row, troubled>>
      /\ Hears(p, 1)
  BY DEF Connect, Running, configVars, hostVars, outVars
<1>2. kind[p] \in MtKinds
  BY <1>1, RunningAt, KindOf DEF IInv, StagesOf, MtKinds, WgKinds, Kinds
<1>3. heard' \in [Protos -> 0..4] /\ (\A q \in Protos \ {p} : heard'[q] = heard[q]) /\ HeardInv(p)'
  BY <1>1, HearsTyped, HearsKeeps DEF IInv
<1>4. CASE Carries(p, 1)
  <2>1. /\ at' = p /\ pc' = IF kind[p] = "mtg" THEN "welcome" ELSE "length"
        /\ result' = result
    BY <1>1, <1>4 DEF Connect, Goto
  <2>2. pc' \in StagesOf(kind[p]) \cap MtStages
    BY <1>2, <2>1 DEF StagesOf, MtStages, MtKinds, WgKinds
  <2>3. MtStep(p)
    BY <1>1, <1>3, <2>1, <2>2, Kept DEF MtStep, MtStages
  <2> QED
    BY <2>3, MtStepKeeps
<1>5. CASE ~ Carries(p, 1)
  <2>1. at' = NoProto /\ pc' = "idle" /\ Set(p, "BLOCKED", FALSE, FALSE, "refused")
    BY <1>5 DEF Connect, Return, Blocked
  <2>2. ~ Exchanged(p, 1) /\ ~ WholePath(p)
    BY <1>5, WholeCarries DEF Exchanged, IInv
  <2>3. Fails(p)
    BY <2>1, <2>2 DEF Fails, Errors
  <2>4. MtStep(p)
    BY <1>1, <1>3, <2>1, <2>2, <2>3, Kept DEF MtStep, MtStages
  <2> QED
    BY <2>4, MtStepKeeps
<1> QED
  BY <1>4, <1>5

LEMMA ReadWelcomeStep ==
  ASSUME IInv, NEW p \in Protos, ReadWelcome(p)
  PROVE  After(p)
<1>1. /\ phase = "probing" /\ phase' = phase /\ at = p /\ pc = "welcome"
      /\ UNCHANGED <<kind, world, runs, faults, todo, devices, child, coalesced, row, troubled>>
      /\ Hears(p, 2)
  BY DEF ReadWelcome, Running, configVars, hostVars, outVars
<1>2. kind[p] = "mtg"
  BY <1>1, RunningAt, KindOf DEF IInv, StagesOf, WgKinds, Kinds
<1>3. heard' \in [Protos -> 0..4] /\ (\A q \in Protos \ {p} : heard'[q] = heard[q]) /\ HeardInv(p)'
  BY <1>1, HearsTyped, HearsKeeps DEF IInv
<1>4. CASE Exchanged(p, 2)
  <2>1. at' = p /\ pc' = "length" /\ result' = result
    BY <1>1, <1>4 DEF ReadWelcome, Goto
  <2>2. MtStep(p)
    BY <1>1, <1>2, <1>3, <2>1, Kept DEF MtStep, MtStages, StagesOf, WgKinds
  <2> QED
    BY <2>2, MtStepKeeps
<1>5. CASE ~ Exchanged(p, 2)
  <2>1. at' = NoProto /\ pc' = "idle"
    BY <1>5 DEF ReadWelcome, Return
  <2>2. ~ WholePath(p)
    BY <1>5, WholeCarries DEF IInv
  <2>3. Fails(p)
    <3>1. CASE Carries(p, 2)
      <4>1. Set(p, "BLOCKED", FALSE, FALSE, "welcome_invalid")
        BY <1>5, <3>1 DEF ReadWelcome, Blocked
      <4>2. ~ Exchanged(p, 1)
        BY <1>5, <3>1 DEF Exchanged
      <4> QED
        BY <4>1, <4>2 DEF Fails, Errors
    <3>2. CASE ~ Carries(p, 2)
      <4>1. NothingReadAfterWrite(p, Blocked(p, "welcome_read_timeout"),
                                  Blocked(p, "welcome_invalid"))
        BY <1>5, <3>2 DEF ReadWelcome
      <4>2. "welcome_invalid" \in Errors
            /\ "welcome_read_timeout" \in ASYMMETRIC_DPI_ERROR_MARKERS
        BY DEF Errors, ASYMMETRIC_DPI_ERROR_MARKERS
      <4>3. NothingReadAfterWrite(p, Blocked(p, "welcome_read_timeout") \/ BodyTimedOut(p),
                                  \E f \in Errors : Blocked(p, f))
        BY <4>1, <4>2, MannerOf DEF NothingReadAfterWrite, NothingRead
      <4> QED
        BY <4>2, <4>3, NothingReadFails
    <3> QED
      BY <3>1, <3>2
  <2>4. MtStep(p)
    BY <1>1, <1>3, <2>1, <2>2, <2>3, Kept DEF MtStep, MtStages
  <2> QED
    BY <2>4, MtStepKeeps
<1> QED
  BY <1>4, <1>5

(* Where resPQ's length and body come in the order of the exchanges.        *)
LEMMA LengthIsAt ==
  ASSUME IInv, NEW p \in Protos, kind[p] \in MtKinds
  PROVE  /\ LengthAt(p) \in 2..3 /\ LengthAt(p) + 1 \in 3..4
         /\ WholePath(p) => Relayed(p, LengthAt(p)) /\ Relayed(p, LengthAt(p) + 1)
         /\ Relayed(p, LengthAt(p) + 1) => WholePath(p)
<1>1. CASE kind[p] = "mtg"
  BY <1>1, WholeCarries, WholeIf DEF LengthAt, Relayed, IInv, MtKinds
<1>2. CASE kind[p] = "mtorig"
  BY <1>2, WholeCarries, WholeIf DEF LengthAt, Relayed, IInv, MtKinds
<1> QED
  BY <1>1, <1>2 DEF MtKinds

LEMMA TruncationIsAMarker ==
  /\ "resPQ_truncated" \in Errors
  /\ {"resPQ_len_timeout", "resPQ_truncated"} \subseteq ASYMMETRIC_DPI_ERROR_MARKERS
BY DEF Errors, ASYMMETRIC_DPI_ERROR_MARKERS

LEMMA ReadLengthStep ==
  ASSUME IInv, NEW p \in Protos, ReadLength(p)
  PROVE  After(p)
<1>1. /\ phase = "probing" /\ phase' = phase /\ at = p /\ pc = "length"
      /\ UNCHANGED <<kind, world, runs, faults, todo, devices, child, row, troubled>>
      /\ HearsRelayed(p, LengthAt(p))
  BY DEF ReadLength, Running, configVars, hostVars, outVars
<1>2. kind[p] \in MtKinds
  BY <1>1, RunningAt, KindOf DEF IInv, StagesOf, WgKinds, Kinds, MtKinds
<1>3. /\ heard' \in [Protos -> 0..4] /\ (\A q \in Protos \ {p} : heard'[q] = heard[q])
      /\ HeardInv(p)'
  <2>1. LengthAt(p) \in 1..4
    BY <1>2, LengthIsAt
  <2> QED
    BY <1>1, <2>1, HearsRelayedTyped
<1>4. CASE Relayed(p, LengthAt(p))
  <2>1. at' = p /\ pc' = "body" /\ result' = result /\ coalesced' \in BOOLEAN
    BY <1>1, <1>4 DEF ReadLength, Goto
  <2>2. pc' \in StagesOf(kind[p]) \cap MtStages
    BY <1>2, <2>1 DEF StagesOf, MtStages, WgKinds, MtKinds
  <2>3. MtStep(p)
    BY <1>1, <1>3, <2>1, <2>2 DEF MtStep, MtStages
  <2> QED
    BY <2>3, MtStepKeeps
<1>5. CASE ~ Relayed(p, LengthAt(p))
  <2>1. at' = NoProto /\ pc' = "idle" /\ coalesced' = coalesced
        /\ NothingReadAfterWrite(p, LengthTimedOut(p), Blocked(p, "resPQ_truncated"))
    BY <1>5 DEF ReadLength, Return
  <2>2. ~ WholePath(p)
    BY <1>2, <1>5, LengthIsAt
  <2>3. NothingReadAfterWrite(p, Blocked(p, "resPQ_len_timeout") \/ BodyTimedOut(p),
                              \E f \in Errors : Blocked(p, f))
    BY <2>1, TruncationIsAMarker, MannerOf DEF NothingReadAfterWrite, NothingRead, LengthTimedOut
  <2>4. Fails(p)
    BY <2>3, NothingReadFails, TruncationIsAMarker
  <2>5. MtStep(p)
    BY <1>1, <1>3, <2>1, <2>2, <2>4, Kept DEF MtStep, MtStages
  <2> QED
    BY <2>5, MtStepKeeps
<1> QED
  BY <1>4, <1>5

LEMMA ReadBodyStep ==
  ASSUME IInv, NEW p \in Protos, ReadBody(p)
  PROVE  After(p)
<1>1. /\ phase = "probing" /\ phase' = phase /\ at = p /\ pc = "body"
      /\ at' = NoProto /\ pc' = "idle"
      /\ UNCHANGED <<kind, world, runs, faults, todo, devices, child, coalesced, row, troubled>>
      /\ HearsRelayed(p, LengthAt(p) + 1)
  BY DEF ReadBody, Running, Return, configVars, hostVars, outVars
<1>2. kind[p] \in MtKinds
  BY <1>1, RunningAt, KindOf DEF IInv, StagesOf, WgKinds, Kinds, MtKinds
<1>3. LengthAt(p) + 1 \in 1..4 /\ LengthAt(p) + 1 >= 2
  BY <1>2, LengthIsAt
<1>4. /\ heard' \in [Protos -> 0..4] /\ (\A q \in Protos \ {p} : heard'[q] = heard[q])
      /\ HeardInv(p)'
      /\ Relayed(p, LengthAt(p) + 1) => heard'[p] = LengthAt(p) + 1
  BY <1>1, <1>3, HearsRelayedTyped
<1>5. CASE Relayed(p, LengthAt(p) + 1)
  <2>1. Set(p, "OK", TRUE, FALSE, NoError)
    BY <1>5 DEF ReadBody
  <2>2. WholePath(p) /\ heard'[p] >= 2
    BY <1>2, <1>3, <1>4, <1>5, LengthIsAt
  <2>3. MtStep(p)
    BY <1>1, <1>4, <2>1, <2>2, Kept DEF MtStep, MtStages
  <2> QED
    BY <2>3, MtStepKeeps
<1>6. CASE ~ Relayed(p, LengthAt(p) + 1)
  <2>1. NothingRead(p, IF kind[p] = "mtg" /\ ~coalesced THEN LengthTimedOut(p)
                       ELSE BodyTimedOut(p),
                    Blocked(p, "resPQ_truncated"))
    BY <1>6 DEF ReadBody
  <2>2. NothingReadAfterWrite(p, Blocked(p, "resPQ_len_timeout") \/ BodyTimedOut(p),
                              \E f \in Errors : Blocked(p, f))
    BY <2>1, TruncationIsAMarker, MannerOf DEF NothingReadAfterWrite, NothingRead, LengthTimedOut
  <2>3. Fails(p)
    BY <2>2, NothingReadFails, TruncationIsAMarker
  <2>4. ~ WholePath(p)
    BY <1>2, <1>6, LengthIsAt
  <2>5. MtStep(p)
    BY <1>1, <1>4, <2>3, <2>4, Kept DEF MtStep, MtStages
  <2> QED
    BY <2>5, MtStepKeeps
<1> QED
  BY <1>5, <1>6

-----------------------------------------------------------------------------
(* The table.                                                               *)

LEMMA FinalizeTyped ==
  ASSUME NEW h \in BOOLEAN, NEW d \in BOOLEAN, NEW c \in BOOLEAN,
         NEW cap \in {"HANDSHAKE_ONLY", NoCap}
  PROVE  /\ Finalize(h, d, c, cap) \in Verdict
         /\ Finalize(h, d, c, cap) = "OK" => d \/ (~ c /\ h)
         /\ (d \/ (~ c /\ h)) /\ cap = NoCap => Finalize(h, d, c, cap) = "OK"
<1>1. Derived(h, d, c) \in {"OK", "HANDSHAKE_ONLY", "BLOCKED"}
      /\ (Derived(h, d, c) = "OK" <=> d \/ (~ c /\ h))
  BY DEF Derived
<1> QED
  BY <1>1 DEF Finalize, Verdict

(* The final verdict is the listener's or HANDSHAKE_ONLY, and never above   *)
(* the listener's.                                                          *)
LEMMA AgreedIs ==
  ASSUME NEW c \in Verdict, NEW l \in Verdict, NEW e \in Errors, NEW lost \in BOOLEAN
  PROVE  /\ Agreed(c, l, e, lost) \in Rows
         /\ Agreed(c, l, e, lost).final = "OK" => l = "OK"
         /\ c = l => Agreed(c, l, e, lost).final = l
         /\ c = "BLOCKED" /\ e \in ASYMMETRIC_DPI_ERROR_MARKERS =>
              Agreed(c, l, e, lost).final # "OK"
<1> DEFINE Row(v, n) == [final |-> v, note |-> n]
<1>1. \A v \in Verdict, n \in Notes :
        Row(v, n) \in Rows /\ Row(v, n).final = v
  BY DEF Rows
<1> HIDE DEF Row
<1>2. {"", "overread", "dc unreachable", "asymmetric", "listener saw data", "client differs"} = Notes
      /\ "HANDSHAKE_ONLY" \in Verdict
  BY DEF Notes, Verdict
<1>3. CASE c = l
  <2>1. Agreed(c, l, e, lost) = Row(l, "")
    BY <1>3 DEF Agreed, Row, Asymmetric
  <2> QED
    BY <1>1, <1>2, <1>3, <2>1
<1>4. CASE c # l /\ c = "OK"
  <2>1. Agreed(c, l, e, lost) = Row(l, "overread")
    BY <1>4 DEF Agreed, Row, Asymmetric
  <2> QED
    BY <1>1, <1>2, <1>4, <2>1
<1>5. CASE c # l /\ c # "OK" /\ Asymmetric(c, l, e)
  <2>1. Agreed(c, l, e, lost) =
          Row("HANDSHAKE_ONLY", IF lost THEN "dc unreachable" ELSE "asymmetric")
    BY <1>5 DEF Agreed, Row
  <2> QED
    BY <1>1, <1>2, <1>5, <2>1
<1>6. CASE c # l /\ c # "OK" /\ ~ Asymmetric(c, l, e)
  <2>1. Agreed(c, l, e, lost) =
          Row(l, IF l = "OK" THEN "listener saw data" ELSE "client differs")
    BY <1>6 DEF Agreed, Row
  <2>2. c = "BLOCKED" /\ e \in ASYMMETRIC_DPI_ERROR_MARKERS => l # "OK"
    BY <1>6 DEF Asymmetric
  <2> QED
    BY <1>1, <1>2, <1>6, <2>1, <2>2
<1> QED
  BY <1>3, <1>4, <1>5, <1>6

(* What the snapshot says of p, from what the listener heard.               *)
LEMMA ListenerSaysOk ==
  ASSUME IInv, NEW p \in Protos
  PROVE  /\ ListenerSays(p) \in Verdict
         /\ ListenerSays(p) = "OK" => heard[p] >= IF world[p].counters THEN 2 ELSE 1
         /\ WholePath(p) /\ heard[p] >= 2 /\ (kind[p] # "mtorig" \/ world[p].counters) =>
              ListenerSays(p) = "OK"
<1>1. world[p].counters \in BOOLEAN /\ heard[p] \in 0..4
  BY KindOf DEF IInv, TypeOK, Worlds
<1> DEFINE cap == IF DcLost(p) THEN "HANDSHAKE_ONLY" ELSE NoCap
<1>2. cap \in {"HANDSHAKE_ONLY", NoCap} /\ (~ DcLost(p) => cap = NoCap)
  OBVIOUS
<1>3. Handshook(p) \in BOOLEAN /\ DataSeen(p) \in BOOLEAN
  BY <1>1 DEF Handshook, DataSeen
<1>4. ListenerSays(p) = Finalize(Handshook(p), DataSeen(p), world[p].counters, cap)
  BY DEF ListenerSays
<1> HIDE DEF cap
<1>5. /\ ListenerSays(p) \in Verdict
      /\ ListenerSays(p) = "OK" => DataSeen(p) \/ (~ world[p].counters /\ Handshook(p))
      /\ (DataSeen(p) \/ (~ world[p].counters /\ Handshook(p))) /\ ~ DcLost(p) =>
           ListenerSays(p) = "OK"
  BY <1>1, <1>2, <1>3, <1>4, FinalizeTyped
<1>6. WholePath(p) => ~ DcLost(p)
  BY DEF WholePath, DcLost, MtKinds
<1> QED
  BY <1>1, <1>5, <1>6 DEF DataSeen, Handshook

(* What the table says of p, whether or not the snapshot lists it.          *)
LEMMA CrossRowIs ==
  ASSUME IInv, NEW p \in Protos, NEW listed \in BOOLEAN
  PROVE  /\ CrossRow(p, listed) \in Rows
         /\ CrossRow(p, listed).final = "OK" =>
              /\ listed /\ heard[p] >= IF world[p].counters THEN 2 ELSE 1
              /\ result[p].verdict = "BLOCKED" => result[p].error \notin ASYMMETRIC_DPI_ERROR_MARKERS
         /\ /\ listed /\ WholePath(p) /\ heard[p] >= 2 /\ result[p].verdict = "OK"
            /\ kind[p] # "mtorig" \/ world[p].counters
            => CrossRow(p, listed).final = "OK"
<1>1. result[p].verdict \in Verdict /\ result[p].error \in Errors
  BY DEF IInv, TypeOK, Results
<1>2. LiveSnapshot \in Verdict /\ LiveSnapshot # "OK"
  BY FinalizeTyped DEF LiveSnapshot
<1>3. DcLost(p) \in BOOLEAN
  BY DEF DcLost
<1>4. CASE listed
  BY <1>1, <1>3, <1>4, AgreedIs, ListenerSaysOk DEF CrossRow, Combined
<1>5. CASE ~ listed
  BY <1>1, <1>2, <1>5, AgreedIs DEF CrossRow
<1> QED
  BY <1>4, <1>5

(* The rows of a table that could be made satisfy their invariant.          *)
LEMMA CrossVerifyStep ==
  ASSUME IInv, CrossVerify
  PROVE  IInv'
<1>1. /\ phase = "probing" /\ phase' = "done" /\ todo = {} /\ at = NoProto
      /\ UNCHANGED <<kind, world, runs, todo, at, pc, devices, child, coalesced, heard, result>>
  BY DEF CrossVerify, configVars, hostVars
<1>2. /\ faults' \in 0..MaxFaults /\ troubled \subseteq troubled' /\ troubled' \subseteq Protos
      /\ \/ row' = row /\ troubled' = Protos
         \/ \E lost \in SUBSET troubled' :
              row' = [p \in Protos |-> CrossRow(p, p \notin lost)]
  <2>1. faults \in 0..MaxFaults /\ troubled \subseteq Protos /\ MaxFaults \in Nat
    BY ClientProbesAssumption DEF IInv, TypeOK
  <2>2. CASE \E lost \in SUBSET Protos :
               /\ row' = [p \in Protos |-> CrossRow(p, p \notin lost)]
               /\ IF lost = {} THEN NoFault
                  ELSE faults < MaxFaults /\ faults' = faults + 1 /\ troubled' = troubled \cup lost
    <3>1. PICK lost \in SUBSET Protos :
               /\ row' = [p \in Protos |-> CrossRow(p, p \notin lost)]
               /\ IF lost = {} THEN NoFault
                  ELSE faults < MaxFaults /\ faults' = faults + 1 /\ troubled' = troubled \cup lost
      BY <2>2
    <3>2. faults' \in 0..MaxFaults /\ troubled' = troubled \cup lost
      BY <2>1, <3>1 DEF NoFault
    <3> QED
      BY <2>1, <3>1, <3>2
  <2>3. CASE row' = row /\ faults < MaxFaults /\ faults' = faults + 1 /\ troubled' = Protos
    BY <2>1, <2>3
  <2> QED
    BY <2>2, <2>3 DEF CrossVerify
<1>3. \A p \in Protos : row[p] = NoRow
  BY <1>1 DEF IInv, RowInv
<1>4. NoRow.final = "none" /\ NoRow \in Rows
  BY DEF NoRow, Rows
<1>5. row' \in [Protos -> Rows]
  BY <1>2, CrossRowIs DEF IInv, TypeOK
<1>6. TypeOK' /\ StageInv'
  BY <1>1, <1>2, <1>5 DEF IInv, TypeOK, StageInv
<1>7. ASSUME NEW p \in Protos
      PROVE  ProtoInv(p)' /\ RowInv(p)'
  <2>1. Probed(p) /\ at # p
    BY <1>1, NoProtoIsNone DEF Probed
  <2>2. /\ p \notin child /\ (devices[p] # {} => kind[p] \in TunKinds)
        /\ p \notin troubled => devices[p] = {}
    BY <1>1, <2>1 DEF IInv, ProtoInv, CleanInv
  <2>3. p \notin troubled /\ WholePath(p) => result[p].verdict = "OK" /\ heard[p] >= 2
    BY <2>1 DEF IInv, ProtoInv, OpenInv
  <2>4. DroppedInv(p) /\ HeardInv(p) /\ Earned(p)
    BY DEF IInv, ProtoInv
  <2>5. ProtoInv(p)'
    <3>1. Way(p)' /\ CleanInv(p)'
      BY <1>1, <1>2, <2>1, <2>2 DEF Way, CleanInv
    <3>2. Earned(p)' /\ HeardInv(p)'
      BY <1>1, <2>4, PathFixed DEF Earned, HeardInv
    <3>3. OpenInv(p)'
      BY <1>1, <1>2, <2>1, <2>3, PathFixed DEF OpenInv
    <3>4. DroppedInv(p)'
      BY <1>1, <1>2, <2>1, <2>4, PathFixed DEF DroppedInv
    <3> QED
      BY <3>1, <3>2, <3>3, <3>4 DEF ProtoInv
  <2>6. ASSUME row' = row PROVE RowInv(p)'
    <3>1. row'[p] = NoRow /\ row'[p].final = "none" /\ row'[p].final # "OK"
      BY <1>3, <1>4, <2>6
    <3> QED
      BY <3>1, Zenon DEF RowInv
  <2>7. ASSUME NEW lost \in SUBSET troubled', row' = [q \in Protos |-> CrossRow(q, q \notin lost)]
        PROVE  RowInv(p)'
    <3>1. row'[p] = CrossRow(p, p \notin lost)
      BY <2>7
    <3>2. row'[p].final = "OK" =>
            /\ heard[p] >= IF world[p].counters THEN 2 ELSE 1
            /\ result[p].verdict = "BLOCKED" =>
                 result[p].error \notin ASYMMETRIC_DPI_ERROR_MARKERS
      BY <3>1, CrossRowIs
    <3>3. /\ p \notin troubled' /\ WholePath(p) /\ (kind[p] # "mtorig" \/ world[p].counters)
          => row'[p].final = "OK"
      BY <1>2, <2>3, <3>1, CrossRowIs
    <3>4. /\ p \notin troubled' /\ kind[p] \in MtKinds /\ world[p].manner = "silent"
          /\ ~ WholePath(p) /\ result[p].error # "resPQ_body_timeout"
          => row'[p].final # "OK"
      <4>1. SUFFICES ASSUME p \notin troubled', kind[p] \in MtKinds, world[p].manner = "silent",
                            ~ WholePath(p), result[p].error # "resPQ_body_timeout",
                            row'[p].final = "OK"
                     PROVE  FALSE
        OBVIOUS
      <4>2. ~ Exchanged(p, 1)
        BY <1>2, <2>1, <2>4, <3>2, <4>1 DEF DroppedInv
      <4>3. heard[p] \in 0..4 /\ heard[p] >= 1
        BY <3>2, <4>1 DEF IInv, TypeOK
      <4> QED
        BY <2>4, <4>1, <4>2, <4>3 DEF HeardInv
    <3>5. phase' = "done" /\ UNCHANGED <<kind, world, heard, result>>
      BY <1>1
    <3>6. WholePath(p)' <=> WholePath(p)
      BY <3>5, PathFixed
    <3> QED
      BY <3>2, <3>3, <3>4, <3>5, <3>6 DEF RowInv
  <2> QED
    BY <1>2, <2>5, <2>6, <2>7
<1> QED
  BY <1>6, <1>7 DEF IInv

-----------------------------------------------------------------------------
(* The client dies, and is launched again.                                  *)

LEMMA KillStep ==
  ASSUME IInv, Kill
  PROVE  IInv'
<1>1. /\ phase = "probing" /\ phase' = "killed" /\ child' = {} /\ runs < MaxRuns
      /\ UNCHANGED <<kind, world, runs, faults, todo, at, pc, devices, coalesced, heard, result, row, troubled>>
  BY DEF Kill, configVars
<1>2. TypeOK' /\ StageInv'
  BY <1>1 DEF IInv, TypeOK, StageInv
<1>3. NoRow.final = "none"
  BY DEF NoRow
<1>4. ASSUME NEW p \in Protos
      PROVE  ProtoInv(p)' /\ RowInv(p)'
  <2>1. ~ Probed(p)'
    BY <1>1 DEF Probed
  <2>2. Way(p)' /\ Earned(p)' /\ HeardInv(p)'
    BY <1>1, PathFixed DEF IInv, ProtoInv, Way, Earned, HeardInv
  <2>3. CleanInv(p)' /\ DroppedInv(p)'
    BY <1>1, <2>1 DEF IInv, ProtoInv, CleanInv, DroppedInv
  <2>4. OpenInv(p)'
    BY <1>1, <2>1, PathFixed DEF IInv, ProtoInv, OpenInv
  <2>5. row'[p] = NoRow /\ row'[p].final = "none" /\ row'[p].final # "OK"
    BY <1>1, <1>3 DEF IInv, RowInv
  <2>6. RowInv(p)'
    BY <2>5, Zenon DEF RowInv
  <2> QED
    BY <2>2, <2>3, <2>4, <2>6 DEF ProtoInv
<1> QED
  BY <1>2, <1>4 DEF IInv

(* A probe that is yet to run: all that its protocol has is what an earlier *)
(* launch left on the host and what the listener has heard.                 *)
LEMMA NotYetProbed ==
  ASSUME NEW p \in Protos, p \in todo, at = NoProto, p \notin child,
         devices[p] # {} => kind[p] \in TunKinds,
         result[p].verdict = "BLOCKED", HeardInv(p)
  PROVE  ProtoInv(p)
<1>1. ~ Probed(p) /\ at # p
  BY NoProtoIsNone DEF Probed
<1> QED
  BY <1>1 DEF ProtoInv, Way, Earned, CleanInv, OpenInv, DroppedInv

LEMMA RelaunchStep ==
  ASSUME IInv, Relaunch
  PROVE  IInv'
<1>1. /\ phase = "killed" /\ phase' = "probing" /\ runs' = runs + 1
      /\ todo' = Protos /\ at' = NoProto /\ pc' = "idle"
      /\ heard' \in {heard, [p \in Protos |-> 0]}
      /\ result' = [p \in Protos |-> ProbeResult] /\ troubled' = {}
      /\ UNCHANGED <<kind, world, faults, devices, child, coalesced, row>>
  BY DEF Relaunch, configVars, hostVars
<1>2. runs' \in 1..MaxRuns
  BY <1>1, ClientProbesAssumption DEF IInv, TypeOK, StageInv
<1>3. heard' \in [Protos -> 0..4] /\ result' \in [Protos -> Results] /\ pc' \in Stages
  BY <1>1, Kept, DefaultResult DEF Stages
<1>4. TypeOK' /\ StageInv'
  BY <1>1, <1>2, <1>3, NoProtoIsNone DEF IInv, TypeOK, StageInv
<1>5. NoRow.final = "none" /\ ProbeResult.verdict = "BLOCKED"
  BY DEF NoRow, ProbeResult
<1>6. ASSUME NEW p \in Protos
      PROVE  ProtoInv(p)' /\ RowInv(p)'
  <2>1. p \notin child' /\ (devices'[p] # {} => kind'[p] \in TunKinds)
    BY <1>1 DEF IInv, ProtoInv, CleanInv
  <2>2. HeardInv(p)'
    BY <1>1, PathFixed DEF IInv, ProtoInv, HeardInv
  <2>3. ~ Probed(p)' /\ at' # p /\ result'[p].verdict = "BLOCKED"
    BY <1>1, <1>5, NoProtoIsNone DEF Probed
  <2>4. ProtoInv(p)'
    BY <2>1, <2>2, <2>3 DEF ProtoInv, Way, Earned, CleanInv, OpenInv, DroppedInv
  <2>5. row'[p] = NoRow /\ row'[p].final = "none" /\ row'[p].final # "OK"
    BY <1>1, <1>5 DEF IInv, RowInv
  <2>6. RowInv(p)'
    BY <2>5, Zenon DEF RowInv
  <2> QED
    BY <2>4, <2>6
<1> QED
  BY <1>4, <1>6 DEF IInv

LEMMA Initially == Init => IInv
<1> SUFFICES ASSUME Init PROVE IInv
  OBVIOUS
<1>1. /\ kind \in [Protos -> KindsInUse] /\ world \in [Protos -> Worlds]
      /\ runs = 1 /\ faults = 0 /\ phase = "probing"
      /\ todo = Protos /\ at = NoProto /\ pc = "idle"
      /\ devices = [p \in Protos |-> {}] /\ child = {} /\ coalesced = FALSE
      /\ heard = [p \in Protos |-> 0] /\ result = [p \in Protos |-> ProbeResult]
      /\ row = [p \in Protos |-> NoRow] /\ troubled = {}
  BY DEF Init
<1>2. NoRow \in Rows /\ NoRow.final = "none" /\ ProbeResult.verdict = "BLOCKED"
  BY DEF NoRow, Rows, ProbeResult
<1>3. TypeOK
  <2>1. /\ runs \in 1..MaxRuns /\ faults \in 0..MaxFaults /\ pc \in Stages
        /\ heard \in [Protos -> 0..4] /\ result \in [Protos -> Results]
        /\ row \in [Protos -> Rows]
    BY <1>1, <1>2, DefaultResult, ClientProbesAssumption DEF Stages
  <2> QED
    BY <1>1, <2>1 DEF TypeOK
<1>4. StageInv
  BY <1>1, NoProtoIsNone DEF StageInv
<1>5. ASSUME NEW p \in Protos
      PROVE  ProtoInv(p) /\ RowInv(p)
  <2>1. HeardInv(p)
    BY <1>1 DEF HeardInv
  <2>2. devices[p] = {} /\ result[p].verdict = "BLOCKED"
    BY <1>1, <1>2
  <2>3. ProtoInv(p)
    BY <1>1, <2>1, <2>2, NotYetProbed
  <2>4. row[p] = NoRow /\ row[p].final = "none" /\ row[p].final # "OK"
    BY <1>1, <1>2
  <2>5. RowInv(p)
    BY <2>4, Zenon DEF RowInv
  <2> QED
    BY <2>3, <2>5
<1> QED
  BY <1>3, <1>4, <1>5 DEF IInv

LEMMA ProbeStepKeeps ==
  ASSUME IInv, NEW p \in Protos, ProbeStep(p)
  PROVE  IInv'
<1>1. CASE NextProbe(p)
  BY <1>1, NextProbeStep, AfterIsEnough
<1>2. CASE RefuseCredentials(p)
  BY <1>2, RefuseCredentialsStep, AfterIsEnough
<1>3. CASE TunnelStep(p)
  BY <1>3, PreCleanStep, BringUpTunStep, TunFailsStep, HandshakeStep, PingStep, TransferStep,
     AfterIsEnough
  DEF TunnelStep
<1>4. CASE ProxyStep(p)
  BY <1>4, BinaryMissingStep, SpawnStep, PortOpensStep, PortNeverOpensStep, CurlStep,
     AfterIsEnough
  DEF ProxyStep
<1>5. CASE MtprotoStep(p)
  BY <1>5, ConnectStep, ReadWelcomeStep, ReadLengthStep, ReadBodyStep, AfterIsEnough
  DEF MtprotoStep
<1>6. CASE Bulk(p)
  BY <1>6, BulkStep, AfterIsEnough
<1>7. CASE Down(p)
  BY <1>7, DownStep, AfterIsEnough
<1> QED
  BY <1>1, <1>2, <1>3, <1>4, <1>5, <1>6, <1>7 DEF ProbeStep

LEMMA StutterKeeps ==
  ASSUME IInv, UNCHANGED vars
  PROVE  IInv'
<1>1. UNCHANGED <<kind, world, runs, faults, phase, todo, at, pc, devices, child, coalesced,
                  heard, result, row, troubled>>
  BY DEF vars
<1>2. TypeOK' /\ StageInv'
  BY <1>1 DEF IInv, TypeOK, StageInv
<1>3. ASSUME NEW p \in Protos
      PROVE  ProtoInv(p)' /\ RowInv(p)'
  <2>1. (WholePath(p)' <=> WholePath(p)) /\ (Exchanged(p, 1)' <=> Exchanged(p, 1))
        /\ (Exchanged(p, 2)' <=> Exchanged(p, 2)) /\ (Probed(p)' <=> Probed(p))
    BY <1>1, PathFixed DEF Probed
  <2>2. Way(p)' /\ Earned(p)' /\ HeardInv(p)'
    BY <1>1, <2>1 DEF IInv, ProtoInv, Way, Earned, HeardInv
  <2>3. CleanInv(p)' /\ OpenInv(p)' /\ DroppedInv(p)'
    BY <1>1, <2>1 DEF IInv, ProtoInv, CleanInv, OpenInv, DroppedInv
  <2>4. RowInv(p)'
    BY <1>1, <2>1 DEF IInv, RowInv
  <2> QED
    BY <2>2, <2>3, <2>4 DEF ProtoInv
<1> QED
  BY <1>2, <1>3 DEF IInv

LEMMA Inductive == IInv /\ [Next]_vars => IInv'
<1> SUFFICES ASSUME IInv, [Next]_vars PROVE IInv'
  OBVIOUS
<1>1. CASE \E p \in Protos : ProbeStep(p)
  BY <1>1, ProbeStepKeeps
<1>2. CASE CrossVerify
  BY <1>2, CrossVerifyStep
<1>3. CASE Kill
  BY <1>3, KillStep
<1>4. CASE Relaunch
  BY <1>4, RelaunchStep
<1>5. CASE Over
  BY <1>5, StutterKeeps DEF Over
<1>6. CASE UNCHANGED vars
  BY <1>6, StutterKeeps
<1> QED
  BY <1>1, <1>2, <1>3, <1>4, <1>5, <1>6 DEF Next

(* In every reachable state the inductive invariant holds.                  *)
LEMMA Invariant == Spec => []IInv
BY Initially, Inductive, PTL DEF Spec

-----------------------------------------------------------------------------
(* The state of the probe loop is what its types say: a ProbeResult has its *)
(* handshake flag exactly where the verdict is OK or HANDSHAKE_ONLY.        *)
THEOREM TypeOKAlways == Spec => []TypeOK
<1>1. IInv => TypeOK
  BY DEF IInv
<1> QED
  BY <1>1, Invariant, PTL

(* protocol_probes.py: no probe says OK of a path that does not carry the   *)
(* whole of its protocol, nor HANDSHAKE_ONLY where the first exchange       *)
(* failed, whatever is in the listener's place and whichever local faults   *)
(* and launches came before.  A host that answers its own pings can only    *)
(* make an OK of a tunnel's handshake.                                      *)
THEOREM VerdictIsEarnedAlways == Spec => []VerdictIsEarned
<1>1. IInv => VerdictIsEarned
  BY DEF IInv, ProtoInv, Earned, VerdictIsEarned
<1> QED
  BY <1>1, Invariant, PTL

(* protocol_probes.py and main.py's _print_cross_verification: over an open *)
(* path, in a launch that meets no local fault, a probe says OK, and so     *)
(* does the table, however many killed launches came before.                *)
THEOREM OpenPathIsOkAlways == Spec => []OpenPathIsOk
<1>1. IInv => OpenPathIsOk
  BY DEF IInv, ProtoInv, OpenInv, RowInv, OpenPathIsOk
<1> QED
  BY <1>1, Invariant, PTL

(* main.py's _agreed_verdict: the table says OK only of a protocol of which *)
(* the listener heard data, or a handshake where it has no counters; what   *)
(* the snapshot does not list is never OK.                                  *)
THEOREM FinalOkReachedListenerAlways == Spec => []FinalOkReachedListener
<1>1. IInv => FinalOkReachedListener
  BY DEF IInv, RowInv, FinalOkReachedListener
<1> QED
  BY <1>1, Invariant, PTL

(* ASYMMETRIC_DPI_ERROR_MARKERS: an MTProto probe whose answers are dropped *)
(* is BLOCKED with one of the markers, or the listener heard nothing at     *)
(* all, so that no count of the listener's makes the final verdict OK.  The *)
(* exception is a stream that stops inside a body or a record: an ERROR,    *)
(* which _agreed_verdict does not take for an asymmetric block.             *)
THEOREM DroppedAnswersAreNotOkAlways == Spec => []DroppedAnswersAreNotOk
<1>1. IInv => DroppedAnswersAreNotOk
  BY DEF IInv, RowInv, DroppedAnswersAreNotOk
<1> QED
  BY <1>1, Invariant, PTL

(* The finally blocks and pre-cleans of protocol_probes.py: a probe that    *)
(* ended has no process and, unless deleting failed, no device, also where  *)
(* a killed launch had left one.                                            *)
THEOREM NothingLeftBehindAlways == Spec => []NothingLeftBehind
<1>1. IInv => NothingLeftBehind
  BY DEF IInv, ProtoInv, CleanInv, Probed, NothingLeftBehind
<1> QED
  BY <1>1, Invariant, PTL

=============================================================================

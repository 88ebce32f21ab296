-------------------------- MODULE Responders_proofs --------------------------
(***************************************************************************)
(* Proofs about Responders: for any number of responders of any kinds, any *)
(* address families, and any number of runs, faults and strangers.         *)
(***************************************************************************)
EXTENDS Responders, SequenceTheorems, TLAPS

-----------------------------------------------------------------------------
(* Chains of rules.                                                         *)
Silent(chain) == \A i \in 1..Len(chain) : chain[i] = 0

LEMMA TickChain ==
  ASSUME NEW chain \in Chains, NEW n \in Counts
  PROVE  Tick(chain, n) \in Chains /\ Len(Tick(chain, n)) = Len(chain)
<1>1. DOMAIN chain = 1..Len(chain) /\ Len(chain) \in Nat
  BY LenProperties DEF Chains
<1>2. \A i \in 1..Len(chain) : chain[i] \in 0..2
  BY ElementOfSeq DEF Chains, Counts
<1>3. \A i \in 1..Len(chain) :
        (IF chain[i] + n > 2 THEN 2 ELSE chain[i] + n) \in Counts
  BY <1>2, SMT DEF Counts
<1>4. Tick(chain, n) =
        [i \in 1..Len(chain) |-> IF chain[i] + n > 2 THEN 2 ELSE chain[i] + n]
  BY <1>1 DEF Tick
<1> QED
  BY <1>1, <1>3, <1>4, IsASeq, LenProperties DEF Chains

LEMMA TickEmpty ==
  ASSUME NEW n \in Counts
  PROVE  Tick(<<>>, n) = <<>>
<1>1. <<>> \in Chains /\ Len(<<>>) = 0
  BY EmptySeq DEF Chains
<1> QED
  BY <1>1, TickChain, EmptySeq DEF Chains

LEMMA DeleteChain ==
  ASSUME NEW chain \in Chains
  PROVE  /\ DeleteOne(chain) \in Chains
         /\ Len(chain) <= 1 => DeleteOne(chain) = <<>>
<1>1. CASE chain = <<>>
  BY <1>1, EmptySeq DEF DeleteOne, Chains
<1>2. CASE chain # <<>>
  <2>1. Tail(chain) \in Seq(Counts) /\ Len(Tail(chain)) = Len(chain) - 1
    BY <1>2, HeadTailProperties DEF Chains
  <2>2. Len(chain) \in Nat /\ Len(Tail(chain)) \in Nat
    BY <2>1, LenProperties DEF Chains
  <2>3. Len(chain) <= 1 => Len(Tail(chain)) = 0
    BY <2>1, <2>2, SMT
  <2>4. Len(chain) <= 1 => Tail(chain) = <<>>
    BY <2>1, <2>3, EmptySeq
  <2> QED
    BY <1>2, <2>1, <2>4 DEF DeleteOne, Chains
<1> QED
  BY <1>1, <1>2

(* What -C and -A may leave.                                                *)
LEMMA InstallChain ==
  ASSUME NEW chain \in Chains, NEW allowed \in BOOLEAN, NEW late \in BOOLEAN,
         NEW out \in InstallOutcomes(chain, allowed, late)
  PROVE  /\ out[1] \in Chains /\ out[2] \in BOOLEAN
         /\ chain = <<>> => Silent(out[1])
         /\ ~late /\ chain = <<>> =>
              IF out[2] THEN Len(out[1]) = 1 ELSE out[1] = <<>>
<1>1. <<0>> \in Chains /\ Len(<<0>>) = 1 /\ <<0>>[1] = 0
  BY DEF Chains, Counts
<1>2. Append(chain, 0) \in Chains
  BY AppendProperties DEF Chains, Counts
<1>3. chain = <<>> => Append(chain, 0) = <<0>>
  OBVIOUS
<1>4. Silent(<<>>) /\ Silent(<<0>>)
  BY <1>1, SMT DEF Silent
<1>5. CASE ~allowed
  <2>1. out = <<chain, FALSE>>
    BY <1>5 DEF InstallOutcomes
  <2> QED
    BY <1>4, <2>1
<1>6. CASE allowed /\ late
  <2> DEFINE longer == Append(chain, 0)
  <2>1. out = <<chain, FALSE>> \/ out = <<longer, FALSE>> \/ out = <<longer, TRUE>>
    BY <1>6 DEF InstallOutcomes
  <2> HIDE DEF longer
  <2>2. /\ out[1] = chain \/ out[1] = longer
        /\ out[2] \in BOOLEAN
    <3>1. CASE out = <<chain, FALSE>>
      BY <3>1
    <3>2. CASE out = <<longer, FALSE>>
      BY <3>2
    <3>3. CASE out = <<longer, TRUE>>
      BY <3>3
    <3> QED
      BY <2>1, <3>1, <3>2, <3>3
  <2> QED
    BY <1>2, <1>3, <1>4, <1>6, <2>2 DEF longer
<1>7. CASE allowed /\ ~late
  <2>1. out = <<IF chain = <<>> THEN <<0>> ELSE chain, TRUE>>
    BY <1>7 DEF InstallOutcomes
  <2>2. out[1] = (IF chain = <<>> THEN <<0>> ELSE chain) /\ out[2] = TRUE
    BY <2>1
  <2> QED
    BY <1>1, <1>4, <2>2
<1> QED
  BY <1>5, <1>6, <1>7

LEMMA TotalType ==
  ASSUME NEW chains, NEW heard
  PROVE  Total(chains, heard) \in Counts
  BY DEF Total, Counts

LEMMA TotalOfSilence ==
  ASSUME NEW chains \in [Families -> Chains], NEW heard \in SUBSET Families,
         \A f \in Families : Silent(chains[f])
  PROVE  Total(chains, heard) = 0
<1>1. \A f \in heard : \A i \in DOMAIN chains[f] : ~(chains[f][i] > 0)
  <2> TAKE f \in heard
  <2>1. DOMAIN chains[f] = 1..Len(chains[f])
    BY LenProperties DEF Chains
  <2> QED
    BY <2>1 DEF Silent
<1>2. {p \in UNION {{f} \X DOMAIN chains[f] : f \in heard} : chains[p[1]][p[2]] > 0} = {}
  BY <1>1
<1> QED
  BY <1>2 DEF Total

-----------------------------------------------------------------------------
(* Types.                                                                   *)
LEMMA KindsOf == TypeOK => \A r \in Resp : kind[r] \in Kinds
  BY RespondersAssumption DEF TypeOK

LEMMA VerdictType ==
  ASSUME NEW handshook \in BOOLEAN, NEW dataOk \in BOOLEAN, NEW available \in BOOLEAN,
         NEW capAt \in {NoCap, "HANDSHAKE_ONLY"}
  PROVE  Finalize(handshook, dataOk, available, capAt) \in {"OK", "HANDSHAKE_ONLY", "BLOCKED"}
  BY DEF Finalize, Derived, Rank, NoCap

LEMMA TypeInit == Init => TypeOK
<1> SUFFICES ASSUME Init PROVE TypeOK
  OBVIOUS
<1>1. rules \in [Resp -> [Families -> Chains]]
  BY EmptySeq DEF Init, NoRules, Chains
<1>2. pipe \in [Resp -> Seq(Lines)]
  BY EmptySeq DEF Init
<1>3. /\ count \in [Resp -> Nat] /\ bytes \in [Resp -> Levels]
      /\ statusFile \in [Resp -> Levels] /\ latched \in [Resp -> Levels]
      /\ strangers \in [Resp -> 0..MaxStrangers]
  BY RespondersAssumption DEF Init, Unread, Levels
<1>4. captured \in [Resp -> Captures]
  BY DEF Init, NothingCaptured, Captures, Counts, Levels
<1>5. snapshot \in [Resp -> Snapshots]
  BY DEF Init, NoSnapshot, Snapshots
<1>6. runs \in 0..MaxRuns /\ faults \in 0..MaxFaults
  BY RespondersAssumption DEF Init
<1>7. pc \in [Resp -> Pcs] /\ installed \in [Resp -> SUBSET Families]
  BY DEF Init, Pcs
<1> QED
  BY <1>1, <1>2, <1>3, <1>4, <1>5, <1>6, <1>7 DEF Init, TypeOK

LEMMA FaultType ==
  ASSUME TypeOK, NEW failed, FaultIf(failed)
  PROVE  faults' \in 0..MaxFaults /\ faulted' \in BOOLEAN
<1>1. faults \in 0..MaxFaults /\ faulted \in BOOLEAN /\ MaxFaults \in Nat
  BY RespondersAssumption DEF TypeOK
<1>2. \/ faults < MaxFaults /\ faults' = faults + 1 /\ faulted' = TRUE
      \/ faults' = faults /\ faulted' = faulted
  BY DEF FaultIf, Fault, NoFault, faultVars
<1>3. CASE faults < MaxFaults /\ faults' = faults + 1 /\ faulted' = TRUE
  BY <1>1, <1>3, SMT
<1>4. CASE faults' = faults /\ faulted' = faulted
  BY <1>1, <1>4
<1> QED
  BY <1>2, <1>3, <1>4

-----------------------------------------------------------------------------
(* Ticks keep the number of the rules.                                      *)
LEMMA TickedType ==
  ASSUME TypeOK, NEW r \in Resp, NEW f \in Families, NEW n \in Counts
  PROVE  /\ Ticked(r, f, n) \in [Resp -> [Families -> Chains]]
         /\ \A s \in Resp : \A g \in Families :
               Len(Ticked(r, f, n)[s][g]) = Len(rules[s][g])
<1>0. rules \in [Resp -> [Families -> Chains]]
  BY DEF TypeOK
<1>1. rules[r][f] \in Chains
  BY <1>0
<1>2. Tick(rules[r][f], n) \in Chains /\ Len(Tick(rules[r][f], n)) = Len(rules[r][f])
  BY <1>1, TickChain
<1> QED
  BY <1>0, <1>2 DEF Ticked

-----------------------------------------------------------------------------
(* Every action keeps the types: start().                                   *)
LEMMA TypePreflight ==
  ASSUME TypeOK, Preflight
  PROVE  TypeOK'
<1>0. rules \in [Resp -> [Families -> Chains]] /\ permitted \in BOOLEAN
  BY DEF TypeOK
<1>1. PICK left \in SUBSET Leftovers, checked \in {permitted, FALSE} :
        /\ rules' = Cleaned(left)
        /\ countersOk' = checked
        /\ FaultIf(left # {} \/ checked # permitted)
  BY DEF Preflight
<1>2. rules' \in [Resp -> [Families -> Chains]]
  BY <1>0, <1>1, EmptySeq DEF Cleaned, Chains
<1>3. faults' \in 0..MaxFaults /\ faulted' \in BOOLEAN
  BY <1>1, FaultType
<1>4. countersOk' \in BOOLEAN
  BY <1>0, <1>1
<1> QED
  BY <1>2, <1>3, <1>4 DEF TypeOK, Preflight, daemonVars, readVars, outVars, trafficVars, creditVars

LEMMA TypeSpawn ==
  ASSUME TypeOK, NEW r \in Resp, Spawn(r)
  PROVE  TypeOK'
<1>0. pc \in [Resp -> Pcs] /\ iface \in [Resp -> BOOLEAN]
  BY DEF TypeOK
<1>1. pc' \in [Resp -> Pcs]
  BY <1>0 DEF Spawn, Pcs
<1>2. iface' \in [Resp -> BOOLEAN]
  BY <1>0 DEF Spawn
<1> QED
  BY <1>1, <1>2 DEF TypeOK, Spawn, runVars, faultVars, daemonVars, readVars, outVars,
                    trafficVars, creditVars

LEMMA TypeSpawnFails ==
  ASSUME TypeOK, NEW r \in Resp, SpawnFails(r)
  PROVE  TypeOK'
<1>0. /\ rules \in [Resp -> [Families -> Chains]] /\ pc \in [Resp -> Pcs]
      /\ iface \in [Resp -> BOOLEAN] /\ installed \in [Resp -> SUBSET Families]
  BY DEF TypeOK
<1>1. PICK stuck \in SUBSET installed[r] :
        rules' = [rules EXCEPT ![r] = Retracted(r, stuck)] /\ FaultIf(stuck # {})
  BY DEF SpawnFails
<1>2. Retracted(r, stuck) \in [Families -> Chains]
  <2> SUFFICES ASSUME NEW f \in Families
               PROVE  DeleteOne(rules[r][f]) \in Chains /\ rules[r][f] \in Chains
    BY DEF Retracted
  <2>1. rules[r][f] \in Chains
    BY <1>0
  <2> QED
    BY <2>1, DeleteChain
<1>3. rules' \in [Resp -> [Families -> Chains]]
  BY <1>0, <1>1, <1>2
<1>4. faults' \in 0..MaxFaults /\ faulted' \in BOOLEAN
  BY <1>1, FaultType
<1>5. pc' \in [Resp -> Pcs] /\ installed' \in [Resp -> SUBSET Families]
  BY <1>0 DEF SpawnFails, Pcs
<1>6. iface' \in [Resp -> BOOLEAN]
  BY <1>0 DEF SpawnFails
<1> QED
  BY <1>3, <1>4, <1>5, <1>6 DEF TypeOK, SpawnFails, runVars, daemonVars, readVars, outVars,
                                trafficVars, creditVars

(* The outcomes that Install chose.                                         *)
LEMMA InstallPick ==
  ASSUME TypeOK, NEW r \in Resp, Install(r)
  PROVE  \E failing, out :
           /\ \A f \in Families : out[f] \in InstallOutcomes(rules[r][f], permitted, f \in failing)
           /\ rules' = [rules EXCEPT ![r] = [f \in Families |-> out[f][1]]]
           /\ installed' = [installed EXCEPT ![r] = {f \in Families : out[f][2]}]
           /\ FaultIf(failing # {})
<1>1. PICK failing \in SUBSET Families :
      \E out \in PerFamily([f \in Families |->
                         InstallOutcomes(rules[r][f], permitted, f \in failing)]) :
        /\ rules' = [rules EXCEPT ![r] = [f \in Families |-> out[f][1]]]
        /\ installed' = [installed EXCEPT ![r] = {f \in Families : out[f][2]}]
        /\ FaultIf(failing # {})
  BY DEF Install
<1>2. PICK out \in PerFamily([f \in Families |->
                         InstallOutcomes(rules[r][f], permitted, f \in failing)]) :
        /\ rules' = [rules EXCEPT ![r] = [f \in Families |-> out[f][1]]]
        /\ installed' = [installed EXCEPT ![r] = {f \in Families : out[f][2]}]
        /\ FaultIf(failing # {})
  BY <1>1
<1>3. \A f \in Families : out[f] \in InstallOutcomes(rules[r][f], permitted, f \in failing)
  BY DEF PerFamily
<1> QED
  BY <1>2, <1>3

LEMMA TypeInstall ==
  ASSUME TypeOK, NEW r \in Resp, Install(r)
  PROVE  TypeOK'
<1>0. /\ rules \in [Resp -> [Families -> Chains]] /\ pc \in [Resp -> Pcs]
      /\ installed \in [Resp -> SUBSET Families] /\ permitted \in BOOLEAN
      /\ inherited \subseteq Resp
  BY DEF TypeOK
<1>1. PICK failing, out :
        /\ \A f \in Families : out[f] \in InstallOutcomes(rules[r][f], permitted, f \in failing)
        /\ rules' = [rules EXCEPT ![r] = [f \in Families |-> out[f][1]]]
        /\ installed' = [installed EXCEPT ![r] = {f \in Families : out[f][2]}]
        /\ FaultIf(failing # {})
  BY InstallPick
<1>2. ASSUME NEW f \in Families PROVE out[f][1] \in Chains
  <2>1. rules[r][f] \in Chains /\ (f \in failing) \in BOOLEAN
    BY <1>0
  <2> QED
    BY <1>0, <1>1, <2>1, InstallChain
<1>3. rules' \in [Resp -> [Families -> Chains]] /\ installed' \in [Resp -> SUBSET Families]
  BY <1>0, <1>1, <1>2
<1>4. faults' \in 0..MaxFaults /\ faulted' \in BOOLEAN
  BY <1>1, FaultType
<1>5. pc' \in [Resp -> Pcs] /\ inherited' \subseteq Resp
  BY <1>0 DEF Install, Pcs
<1> QED
  BY <1>3, <1>4, <1>5 DEF TypeOK, Install, runVars, daemonVars, readVars, outVars, trafficVars

LEMMA TypeSelfTest ==
  ASSUME TypeOK, SelfTest
  PROVE  TypeOK'
<1>0. rules \in [Resp -> [Families -> Chains]] /\ selfTested \subseteq Resp
  BY DEF TypeOK
<1>1. PICK answered \in SUBSET {r \in Resp : kind[r] = "mtorig" /\ pc[r] = "up"}, f \in Families :
        /\ selfTested' = selfTested \cup answered
        /\ rules' = [r \in Resp |-> IF r \in answered
                                     THEN [rules[r] EXCEPT ![f] = Tick(@, 1)] ELSE rules[r]]
  BY DEF SelfTest
<1>2. \A r \in Resp : Tick(rules[r][f], 1) \in Chains
  BY <1>0, TickChain DEF Counts
<1>3. rules' \in [Resp -> [Families -> Chains]] /\ selfTested' \subseteq Resp
  BY <1>0, <1>1, <1>2
<1> QED
  BY <1>3 DEF TypeOK, SelfTest, faultVars, daemonVars, readVars, outVars, trafficVars

(* Traffic.                                                                 *)
LEMMA TypeHandshake ==
  ASSUME TypeOK, NEW r \in Resp, NEW f \in Families, Handshake(r, f)
  PROVE  TypeOK'
<1>0. /\ pipe \in [Resp -> Seq(Lines)] /\ bytes \in [Resp -> Levels]
      /\ rules \in [Resp -> [Families -> Chains]] /\ reached \in [Resp -> BOOLEAN]
  BY DEF TypeOK
<1>1. Append(pipe[r], "start") \in Seq(Lines)
  BY <1>0, AppendProperties DEF Lines
<1>2. pipe' \in [Resp -> Seq(Lines)]
  BY <1>0, <1>1 DEF Handshake
<1>3. bytes' \in [Resp -> Levels]
  BY <1>0 DEF Handshake, Raise, Higher, Levels
<1>4. rules' \in [Resp -> [Families -> Chains]]
  BY <1>0, TickedType DEF Handshake, Counts
<1>5. reached' \in [Resp -> BOOLEAN]
  BY <1>0 DEF Handshake
<1> QED
  BY <1>2, <1>3, <1>4, <1>5 DEF TypeOK, Handshake, runVars, faultVars, readVars, outVars, creditVars

LEMMA TypeExchange ==
  ASSUME TypeOK, NEW r \in Resp, NEW f \in Families, Exchange(r, f)
  PROVE  TypeOK'
<1>0. /\ bytes \in [Resp -> Levels] /\ rules \in [Resp -> [Families -> Chains]]
      /\ moved \in [Resp -> BOOLEAN] /\ settled \in [Resp -> {"no", "unwritten", "yes"}]
  BY DEF TypeOK
<1>1. bytes' \in [Resp -> Levels]
  <2>1. PICK level \in {1, 2} :
          bytes' = IF kind[r] \in {"mtg", "mtorig"} THEN bytes ELSE Raise(r, level)
    BY DEF Exchange
  <2> QED
    BY <1>0, <2>1 DEF Raise, Higher, Levels
<1>2. rules' \in [Resp -> [Families -> Chains]]
  <2> DEFINE n == IF kind[r] = "openvpn" THEN MinDataPackets ELSE 1
  <2>1. n \in Counts
    BY DEF Counts, MinDataPackets
  <2>2. rules' = Ticked(r, f, n) \/ rules' = rules
    BY DEF Exchange
  <2> HIDE DEF n
  <2> QED
    BY <1>0, <2>1, <2>2, TickedType
<1>3. moved' \in [Resp -> BOOLEAN]
  BY <1>0 DEF Exchange
<1>4. settled' \in [Resp -> {"no", "unwritten", "yes"}]
  BY <1>0 DEF Exchange
<1> QED
  BY <1>1, <1>2, <1>3, <1>4 DEF TypeOK, Exchange, runVars, faultVars, readVars, outVars, creditVars

LEMMA TypeScan ==
  ASSUME TypeOK, NEW r \in Resp, NEW f \in Families, Scan(r, f)
  PROVE  TypeOK'
<1>0. /\ pipe \in [Resp -> Seq(Lines)] /\ rules \in [Resp -> [Families -> Chains]]
      /\ strangers \in [Resp -> 0..MaxStrangers] /\ MaxStrangers \in Nat
  BY RespondersAssumption DEF TypeOK
<1>1. pipe' \in [Resp -> Seq(Lines)]
  <2>1. CASE pipe' # pipe
    <3>1. PICK lines \in {<<"start", "fail">>, <<"fail">>} : pipe' = [pipe EXCEPT ![r] = @ \o lines]
      BY <2>1 DEF Scan
    <3>2. lines \in Seq(Lines)
      <4>1. CASE lines = <<"start", "fail">>
        BY <4>1 DEF Lines
      <4>2. CASE lines = <<"fail">>
        BY <4>2 DEF Lines
      <4> QED
        BY <4>1, <4>2
    <3>3. pipe[r] \o lines \in Seq(Lines)
      BY <1>0, <3>2, ConcatProperties
    <3> QED
      BY <1>0, <3>1, <3>3
  <2> QED
    BY <1>0, <2>1
<1>2. rules' \in [Resp -> [Families -> Chains]]
  BY <1>0, TickedType DEF Scan, Counts
<1>3. strangers' \in [Resp -> 0..MaxStrangers]
  <2>1. strangers[r] + 1 \in 0..MaxStrangers
    BY <1>0 DEF Scan
  <2> QED
    BY <1>0, <2>1 DEF Scan
<1>4. fronted' \subseteq Resp
  BY DEF Scan, TypeOK
<1> QED
  BY <1>1, <1>2, <1>3, <1>4 DEF TypeOK, Scan, runVars, faultVars, readVars, outVars

LEMMA TypeMonitor ==
  ASSUME TypeOK, NEW r \in Resp, Monitor(r)
  PROVE  TypeOK'
<1>0. pipe \in [Resp -> Seq(Lines)] /\ count \in [Resp -> Nat]
  BY DEF TypeOK
<1>1. Tail(pipe[r]) \in Seq(Lines)
  BY <1>0, HeadTailProperties DEF Monitor
<1>2. pipe' \in [Resp -> Seq(Lines)]
  BY <1>0, <1>1 DEF Monitor
<1>3. Counted(count[r], Head(pipe[r])) \in Nat
  BY <1>0, SMT DEF Counted
<1>4. count' \in [Resp -> Nat]
  BY <1>0, <1>3 DEF Monitor
<1> QED
  BY <1>2, <1>4 DEF TypeOK, Monitor, hostVars, runVars, faultVars, outVars, trafficVars, creditVars

LEMMA TypeForgetPeer ==
  ASSUME TypeOK, NEW r \in Resp, ForgetPeer(r)
  PROVE  TypeOK'
<1>1. bytes \in [Resp -> Levels]
  BY DEF TypeOK
<1>2. bytes' \in [Resp -> Levels]
  BY <1>1 DEF ForgetPeer, Levels
<1> QED
  BY <1>2 DEF TypeOK, ForgetPeer, hostVars, runVars, faultVars, readVars, outVars, trafficVars, creditVars

(* stop().                                                                  *)
LEMMA TypeBeginStop ==
  ASSUME TypeOK, BeginStop
  PROVE  TypeOK'
<1>0. /\ pc \in [Resp -> Pcs] /\ captured \in [Resp -> Captures] /\ bytes \in [Resp -> Levels]
  BY DEF TypeOK
<1>1. PICK deaf \in SUBSET {r \in Resp : kind[r] = "wireguard" /\ pc[r] = "up"} :
        /\ captured' = [r \in Resp |->
             IF kind[r] = "wireguard" /\ pc[r] = "up"
             THEN [taken |-> TRUE,
                   handshakes |-> IF (IF r \in deaf THEN 0 ELSE Shown(r)) > 0 THEN 1 ELSE 0,
                   packets |-> 0, bytes |-> IF r \in deaf THEN 0 ELSE Shown(r)]
             ELSE captured[r]]
        /\ FaultIf(deaf # {})
  BY DEF BeginStop
<1>2. \A r \in Resp : (IF r \in deaf THEN 0 ELSE Shown(r)) \in Levels
  BY <1>0 DEF Shown, Levels
<1>3. captured' \in [Resp -> Captures]
  BY <1>0, <1>1, <1>2 DEF Captures, Counts
<1>4. faults' \in 0..MaxFaults /\ faulted' \in BOOLEAN
  BY <1>1, FaultType
<1>5. pc' \in [Resp -> Pcs]
  BY <1>0 DEF BeginStop, FirstStep, Pcs
<1> QED
  BY <1>3, <1>4, <1>5 DEF TypeOK, BeginStop, hostVars, daemonVars, outVars, trafficVars, creditVars

LEMMA AuthType ==
  ASSUME TypeOK, NEW r \in Resp
  PROVE  Auth(r) \in Levels
<1>1. latched[r] \in Levels /\ statusFile[r] \in Levels
  BY DEF TypeOK
<1> QED
  BY <1>1 DEF Auth, Higher

LEMMA TypeRead ==
  ASSUME TypeOK, NEW r \in Resp, Read(r)
  PROVE  TypeOK'
<1>0. /\ pc \in [Resp -> Pcs] /\ captured \in [Resp -> Captures] /\ count \in [Resp -> Nat]
  BY DEF TypeOK
<1>1. PICK heard \in SUBSET Families :
        /\ FaultIf(permitted /\ heard # Families)
        /\ IF kind[r] = "mtorig"
           THEN /\ count' = [count EXCEPT ![r] = Higher(@, Total(rules[r], heard))]
                /\ UNCHANGED captured
           ELSE /\ captured' = [captured EXCEPT ![r] =
                     [taken |-> FALSE, packets |-> Total(rules[r], heard), bytes |-> Auth(r),
                      handshakes |-> IF Auth(r) > 0 THEN 1 ELSE 0]]
                /\ UNCHANGED count
  BY DEF Read
<1>2. Total(rules[r], heard) \in 0..2
  BY TotalType DEF Counts
<1>3. count' \in [Resp -> Nat]
  BY <1>0, <1>1, <1>2 DEF Higher
<1>4. captured' \in [Resp -> Captures]
  <2> DEFINE c == [taken |-> FALSE, packets |-> Total(rules[r], heard), bytes |-> Auth(r),
                   handshakes |-> IF Auth(r) > 0 THEN 1 ELSE 0]
  <2>1. c \in Captures
    BY <1>2, AuthType DEF Captures, Counts
  <2>2. captured' = captured \/ captured' = [captured EXCEPT ![r] = c]
    BY <1>1
  <2> HIDE DEF c
  <2> QED
    BY <1>0, <2>1, <2>2
<1>5. faults' \in 0..MaxFaults /\ faulted' \in BOOLEAN
  BY <1>1, FaultType
<1>6. pc' \in [Resp -> Pcs]
  BY <1>0 DEF Read, Pcs
<1> QED
  BY <1>3, <1>4, <1>5, <1>6 DEF TypeOK, Read, hostVars, runVars, daemonVars, outVars, trafficVars,
                                creditVars

LEMMA TypeRemoveRule ==
  ASSUME TypeOK, NEW r \in Resp, NEW f \in Families, RemoveRule(r, f)
  PROVE  TypeOK'
<1>0. /\ rules \in [Resp -> [Families -> Chains]] /\ installed \in [Resp -> SUBSET Families]
      /\ faults \in 0..MaxFaults /\ faulted \in BOOLEAN
  BY DEF TypeOK
<1>1. rules[r][f] \in Chains
  BY <1>0
<1>2. DeleteOne(rules[r][f]) \in Chains
  BY <1>1, DeleteChain
<1>3. rules' \in [Resp -> [Families -> Chains]]
  <2>1. rules' = rules \/ rules' = [rules EXCEPT ![r][f] = DeleteOne(@)]
    BY DEF RemoveRule
  <2> QED
    BY <1>0, <1>2, <2>1
<1>4. installed' \in [Resp -> SUBSET Families]
  BY <1>0 DEF RemoveRule
<1>5. faults' \in 0..MaxFaults /\ faulted' \in BOOLEAN
  <2>1. FaultIf(TRUE) \/ FaultIf(FALSE)
    BY DEF RemoveRule, FaultIf
  <2> QED
    BY <2>1, FaultType
<1> QED
  BY <1>3, <1>4, <1>5 DEF TypeOK, RemoveRule, runVars, daemonVars, readVars, outVars, trafficVars,
                          creditVars

LEMMA TypeRemoved ==
  ASSUME TypeOK, NEW r \in Resp, Removed(r)
  PROVE  TypeOK'
<1>0. pc \in [Resp -> Pcs] /\ captured \in [Resp -> Captures]
  BY DEF TypeOK
<1>1. Sealed(r) \in BOOLEAN
  BY <1>0 DEF Sealed, Captures
<1>2. captured' \in [Resp -> Captures]
  BY <1>0, <1>1 DEF Removed, Captures
<1>3. pc' \in [Resp -> Pcs]
  BY <1>0 DEF Removed, Pcs
<1> QED
  BY <1>2, <1>3 DEF TypeOK, Removed, hostVars, runVars, faultVars, daemonVars, outVars, trafficVars,
                    creditVars

(* The two readings.                                                        *)
LEMMA ReadingTypes ==
  ASSUME TypeOK, NEW r \in Resp
  PROVE  /\ HandshakeSeen(r) \in BOOLEAN /\ DataTransferOk(r) \in BOOLEAN
         /\ CountersAvailable(r) \in BOOLEAN /\ CapAt(r) \in {NoCap, "HANDSHAKE_ONLY"}
         /\ LiveSnapshot(r) \in Snapshots
<1>1. HandshakeSeen(r) \in BOOLEAN
  BY DEF HandshakeSeen
<1>2. DataTransferOk(r) \in BOOLEAN
  BY DEF DataTransferOk
<1>3. CountersAvailable(r) \in BOOLEAN
  BY DEF CountersAvailable
<1>4. CapAt(r) \in {NoCap, "HANDSHAKE_ONLY"}
  BY DEF CapAt
<1>5. OpenVPNData(Auth(r) > 0, Packets(r), Auth(r)) \in BOOLEAN /\ (Packets(r) > 0) \in BOOLEAN
  BY DEF OpenVPNData
<1>6. LiveSnapshot(r) \in Snapshots
  BY <1>1, <1>2, <1>5 DEF LiveSnapshot, Snapshots
<1> QED
  BY <1>1, <1>2, <1>3, <1>4, <1>6

LEMMA TypeCommitSnapshots ==
  ASSUME TypeOK, CommitSnapshots
  PROVE  TypeOK'
<1>1. \A r \in Resp : LiveSnapshot(r) \in Snapshots
  BY ReadingTypes
<1>2. NoSnapshot \in Snapshots
  BY DEF NoSnapshot, Snapshots
<1>3. snapshot' \in [Resp -> Snapshots]
  BY <1>1, <1>2 DEF CommitSnapshots
<1> QED
  BY <1>3 DEF TypeOK, CommitSnapshots, hostVars, faultVars, daemonVars, readVars, trafficVars,
              creditVars

LEMMA TypeFinalizeResults ==
  ASSUME TypeOK, FinalizeResults
  PROVE  TypeOK'
<1>1. \A r \in Resp :
        Finalize(HandshakeSeen(r), DataTransferOk(r), CountersAvailable(r), CapAt(r)) \in Verdict
  BY ReadingTypes, VerdictType DEF Verdict
<1>2. report' \in [Resp -> Verdict \cup {NoReport}]
  BY <1>1 DEF FinalizeResults
<1> QED
  BY <1>2 DEF TypeOK, FinalizeResults, hostVars, faultVars, daemonVars, readVars, trafficVars,
              creditVars

LEMMA TypeNextRun ==
  ASSUME TypeOK, NextRun
  PROVE  TypeOK'
<1>1. pipe' \in [Resp -> Seq(Lines)]
  BY EmptySeq DEF NextRun
<1>2. /\ count' \in [Resp -> Nat] /\ bytes' \in [Resp -> Levels]
      /\ statusFile' \in [Resp -> Levels] /\ latched' \in [Resp -> Levels]
      /\ strangers' \in [Resp -> 0..MaxStrangers]
  BY RespondersAssumption DEF NextRun, Unread, Levels
<1>3. captured' \in [Resp -> Captures]
  BY DEF NextRun, NothingCaptured, Captures, Counts, Levels
<1>4. snapshot' \in [Resp -> Snapshots]
  BY DEF NextRun, NoSnapshot, Snapshots
<1>5. pc' \in [Resp -> Pcs] /\ installed' \in [Resp -> SUBSET Families]
  BY DEF NextRun, Pcs
<1>6. runs' \in 0..MaxRuns
  <2>1. runs \in 0..MaxRuns /\ MaxRuns \in Nat /\ runs < MaxRuns /\ runs' = runs + 1
    BY RespondersAssumption DEF TypeOK, NextRun
  <2> QED
    BY <2>1, SMT
<1>7. /\ reached' \in [Resp -> BOOLEAN] /\ moved' \in [Resp -> BOOLEAN]
      /\ settled' \in [Resp -> {"no", "unwritten", "yes"}]
      /\ report' \in [Resp -> Verdict \cup {NoReport}]
  BY DEF NextRun
<1> QED
  BY <1>1, <1>2, <1>3, <1>4, <1>5, <1>6, <1>7 DEF TypeOK, NextRun, hostVars

LEMMA TypeRun ==
  ASSUME TypeOK,
         StartupDone \/ AllStopped \/ Deadline \/ Exit \/ Crash \/ Over
  PROVE  TypeOK'
<1> USE DEF TypeOK, Pcs, EndOfProcess, hostVars, runVars, faultVars, daemonVars, readVars, outVars,
            trafficVars, creditVars
<1>1. CASE StartupDone
  BY <1>1 DEF StartupDone
<1>2. CASE AllStopped
  BY <1>2 DEF AllStopped
<1>3. CASE Deadline
  BY <1>3 DEF Deadline
<1>4. CASE Exit
  BY <1>4 DEF Exit
<1>5. CASE Crash
  BY <1>5 DEF Crash
<1>6. CASE Over
  BY <1>6 DEF Over, vars
<1> QED
  BY <1>1, <1>2, <1>3, <1>4, <1>5, <1>6

LEMMA TypeResponder ==
  ASSUME TypeOK, NEW r \in Resp,
         Skip(r) \/ WriteStatus(r) \/ Latch(r) \/ Unbind(r) \/ Terminate(r)
  PROVE  TypeOK'
<1>1. CASE Skip(r)
  <2>1. UNCHANGED <<kind, permitted, rules, iface, runs, phase, exit, countersOk, dcOk,
                  faults, faulted, installed, pipe, bytes, statusFile, count, latched,
                  captured, snapshot, report, inherited, selfTested, fronted, reached,
                  moved, settled, strangers>>
    BY <1>1 DEF Skip, hostVars, runVars, faultVars, daemonVars, readVars, outVars, trafficVars, creditVars
  <2>2. pc' \in [Resp -> Pcs]
    BY <1>1 DEF Skip, TypeOK, Pcs
  <2> QED BY <2>1, <2>2 DEF TypeOK
<1>2. CASE WriteStatus(r)
  <2>1. UNCHANGED <<kind, permitted, rules, iface, runs, phase, exit, countersOk, dcOk,
                  faults, faulted, pc, installed, pipe, bytes, count, latched, captured,
                  snapshot, report, inherited, selfTested, fronted, reached, moved,
                  strangers>>
    BY <1>2 DEF WriteStatus, hostVars, runVars, faultVars, daemonVars, readVars, outVars, trafficVars, creditVars
  <2>2. statusFile' \in [Resp -> Levels]
    BY <1>2 DEF WriteStatus, TypeOK, Levels
  <2>3. settled' \in [Resp -> {"no", "unwritten", "yes"}]
    BY <1>2 DEF WriteStatus, TypeOK
  <2> QED BY <2>1, <2>2, <2>3 DEF TypeOK
<1>3. CASE Latch(r)
  <2>1. UNCHANGED <<kind, permitted, rules, iface, runs, phase, exit, countersOk, dcOk,
                  faults, faulted, pc, installed, pipe, bytes, statusFile, count,
                  captured, snapshot, report, inherited, selfTested, fronted, reached,
                  moved, settled, strangers>>
    BY <1>3 DEF Latch, hostVars, runVars, faultVars, daemonVars, readVars, outVars, trafficVars, creditVars
  <2>2. latched' \in [Resp -> Levels]
    BY <1>3 DEF Latch, TypeOK, Levels
  <2> QED BY <2>1, <2>2 DEF TypeOK
<1>4. CASE Unbind(r)
  <2>1. UNCHANGED <<kind, permitted, rules, iface, runs, phase, exit, countersOk, dcOk,
                  faults, faulted, installed, pipe, bytes, statusFile, count, latched,
                  captured, snapshot, report, inherited, selfTested, fronted, reached,
                  moved, settled, strangers>>
    BY <1>4 DEF Unbind, hostVars, runVars, faultVars, daemonVars, readVars, outVars, trafficVars, creditVars
  <2>2. pc' \in [Resp -> Pcs]
    BY <1>4 DEF Unbind, TypeOK, Pcs
  <2> QED BY <2>1, <2>2 DEF TypeOK
<1>5. CASE Terminate(r)
  <2>1. UNCHANGED <<kind, permitted, rules, runs, phase, exit, countersOk, dcOk,
                  installed, pipe, bytes, statusFile, count, latched, captured,
                  snapshot, report, inherited, selfTested, fronted, reached, moved,
                  settled, strangers>>
    BY <1>5 DEF Terminate, hostVars, runVars, daemonVars, readVars, outVars, trafficVars, creditVars
  <2>2. pc' \in [Resp -> Pcs]
    BY <1>5 DEF Terminate, TypeOK, Pcs
  <2>3. PICK left \in {FALSE, kind[r] = "wireguard"} :
          iface' = [iface EXCEPT ![r] = left] /\ FaultIf(left)
    BY <1>5 DEF Terminate
  <2>4. iface' \in [Resp -> BOOLEAN]
    BY <2>3 DEF TypeOK
  <2>5. faults' \in 0..MaxFaults /\ faulted' \in BOOLEAN
    BY <2>3, FaultType
  <2> QED BY <2>1, <2>2, <2>4, <2>5 DEF TypeOK
<1> QED
  BY <1>1, <1>2, <1>3, <1>4, <1>5

LEMMA TypeNext == TypeOK /\ [Next]_vars => TypeOK'
<1> SUFFICES ASSUME TypeOK, [Next]_vars PROVE TypeOK'
  OBVIOUS
<1>1. CASE UNCHANGED vars
  <2>1. UNCHANGED <<kind, permitted, rules, iface, runs, phase, exit, countersOk, dcOk,
                  faults, faulted, pc, installed, pipe, bytes, statusFile, count, latched,
                  captured, snapshot, report, inherited, selfTested, fronted, reached,
                  moved, settled, strangers>>
    BY <1>1 DEF vars, hostVars, runVars, faultVars, daemonVars, readVars, outVars, trafficVars, creditVars
  <2> QED BY <2>1 DEF TypeOK
<1>2. ASSUME NEW r \in Resp, Startup(r) PROVE TypeOK'
  BY <1>2, TypeSpawn, TypeSpawnFails, TypeInstall, TypeResponder DEF Startup
<1>3. ASSUME NEW r \in Resp, Traffic(r) PROVE TypeOK'
  BY <1>3, TypeHandshake, TypeExchange, TypeScan, TypeMonitor, TypeForgetPeer, TypeResponder
     DEF Traffic
<1>4. ASSUME NEW r \in Resp, Stop(r) PROVE TypeOK'
  BY <1>4, TypeRead, TypeRemoveRule, TypeRemoved, TypeResponder DEF Stop
<1>5. CASE Next
  BY <1>2, <1>3, <1>4, <1>5, TypePreflight, TypeSelfTest, TypeBeginStop, TypeCommitSnapshots,
     TypeFinalizeResults, TypeNextRun, TypeRun DEF Next
<1> QED
  BY <1>1, <1>5

(* Every variable keeps its type: no count of handshakes goes below zero.   *)
THEOREM TypeOKAlways == Spec => []TypeOK
BY TypeInit, TypeNext, PTL DEF Spec

-----------------------------------------------------------------------------
(* The course of a run: where the responders are in each phase.             *)
Ended == {"stopped", "failed", "cancelled", "unreaped"}

CourseInv ==
  /\ phase = "down" <=> exit # "running"
  /\ phase = "preflight" => \A r \in Resp : pc[r] = "off"
  /\ phase \in {"committing", "draining", "done"} \/ exit = "graceful" =>
       \A r \in Resp : pc[r] \in Ended
  /\ exit = "nothing started" => \A r \in Resp : pc[r] = "failed"

(* What the steps of one responder leave alone.                             *)
LEMMA StartupFrame ==
  ASSUME NEW r \in Resp, Startup(r)
  PROVE  phase = "starting" /\ phase' = phase /\ exit' = exit
<1>1. phase = "starting"
  BY DEF Startup, Spawn, SpawnFails, Install, Skip, Starting
<1>2. UNCHANGED runVars
  BY DEF Startup, Spawn, SpawnFails, Install, Skip
<1> QED
  BY <1>1, <1>2 DEF runVars

LEMMA TrafficFrame ==
  ASSUME NEW r \in Resp, Traffic(r)
  PROVE  /\ UNCHANGED <<phase, exit, countersOk, dcOk, pc, installed, kind, permitted, iface,
                        inherited, selfTested, faulted, captured, snapshot, report>>
         /\ \A s \in Resp : s \in fronted => s \in fronted'
         /\ phase # "down"
<1> USE DEF hostVars, runVars, faultVars, daemonVars, readVars, outVars, trafficVars, creditVars, Alive
<1>1. CASE \E f \in Families : Handshake(r, f)
  BY <1>1 DEF Handshake
<1>2. CASE \E f \in Families : Exchange(r, f)
  BY <1>2 DEF Exchange
<1>3. CASE \E f \in Families : Scan(r, f)
  BY <1>3 DEF Scan
<1>4. CASE Monitor(r)
  BY <1>4 DEF Monitor
<1>5. CASE WriteStatus(r)
  BY <1>5 DEF WriteStatus
<1>6. CASE Latch(r)
  BY <1>6 DEF Latch
<1>7. CASE ForgetPeer(r)
  BY <1>7 DEF ForgetPeer
<1> QED
  BY <1>1, <1>2, <1>3, <1>4, <1>5, <1>6, <1>7 DEF Traffic

LEMMA StopFrame ==
  ASSUME NEW r \in Resp, Stop(r)
  PROVE  phase = "stopping" /\ phase' = phase /\ exit' = exit
<1>1. phase = "stopping"
  BY DEF Stop, Unbind, Read, Removed, Terminate, RemoveRule, Stopping
<1>2. UNCHANGED runVars
  BY DEF Stop, Unbind, Read, Removed, Terminate, RemoveRule
<1> QED
  BY <1>1, <1>2 DEF runVars

LEMMA CourseNext == TypeOK /\ CourseInv /\ [Next]_vars => CourseInv'
<1> SUFFICES ASSUME TypeOK, CourseInv, [Next]_vars PROVE CourseInv'
  OBVIOUS
<1>0. pc \in [Resp -> Pcs]
  BY DEF TypeOK
<1>1. ASSUME NEW r \in Resp, Startup(r) PROVE CourseInv'
  BY <1>1, StartupFrame DEF CourseInv
<1>2. ASSUME NEW r \in Resp, Traffic(r) PROVE CourseInv'
  BY <1>2, TrafficFrame DEF CourseInv
<1>3. ASSUME NEW r \in Resp, Stop(r) PROVE CourseInv'
  BY <1>3, StopFrame DEF CourseInv
<1>4. CASE Preflight \/ SelfTest \/ BeginStop
  BY <1>4 DEF Preflight, SelfTest, BeginStop, CourseInv
<1>5. CASE StartupDone
  BY <1>5 DEF StartupDone, CourseInv
<1>6. CASE AllStopped
  BY <1>6 DEF AllStopped, CourseInv, Ended
<1>7. CASE Deadline
  BY <1>0, <1>7 DEF Deadline, CourseInv, Ended
<1>8. CASE CommitSnapshots \/ FinalizeResults
  BY <1>8 DEF CommitSnapshots, FinalizeResults, CourseInv
<1>9. CASE Exit \/ Crash
  BY <1>9 DEF Exit, Crash, EndOfProcess, CourseInv
<1>10. CASE NextRun
  BY <1>10 DEF NextRun, CourseInv
<1>11. CASE UNCHANGED vars
  BY <1>11 DEF vars, runVars, CourseInv
<1> QED
  BY <1>1, <1>2, <1>3, <1>4, <1>5, <1>6, <1>7, <1>8, <1>9, <1>10, <1>11 DEF Next, Over

-----------------------------------------------------------------------------
(* What a responder has on the host in each of its states.                  *)
NoneInstalled(r) ==
  pc[r] \in {"off", "spawned", "skipped", "failed", "terminate", "stopped", "unreaped"}
    \/ kind[r] = "wireguard" => installed[r] = {}

Interfaces(r) ==
  /\ iface[r] => kind[r] \in TunKinds
  /\ pc[r] = "skipped" => kind[r] = "mtorig"
  /\ pc[r] = "unbind" => kind[r] \in TunKinds

HoldingsInv == \A r \in Resp : NoneInstalled(r) /\ Interfaces(r)

LEMMA HoldingsStartup ==
  ASSUME TypeOK, HoldingsInv, NEW s \in Resp, Startup(s)
  PROVE  HoldingsInv'
<1>0. /\ pc \in [Resp -> Pcs] /\ installed \in [Resp -> SUBSET Families]
      /\ iface \in [Resp -> BOOLEAN]
  BY DEF TypeOK
<1>1. CASE Spawn(s)
  BY <1>0, <1>1 DEF Spawn, SpawnedFrom, HoldingsInv, NoneInstalled, Interfaces, TunKinds
<1>2. CASE SpawnFails(s)
  BY <1>0, <1>2 DEF SpawnFails, HoldingsInv, NoneInstalled, Interfaces, TunKinds
<1>3. CASE Install(s)
  <2>1. /\ kind[s] # "wireguard" /\ UNCHANGED <<kind, iface>>
        /\ pc' = [pc EXCEPT ![s] = IF kind[s] = "mtorig" THEN "installed" ELSE "up"]
    BY <1>3 DEF Install
  <2>2. \A r \in Resp \ {s} : installed'[r] = installed[r]
    BY <1>0, <1>3 DEF Install
  <2> QED
    BY <1>0, <2>1, <2>2 DEF HoldingsInv, NoneInstalled, Interfaces
<1>4. CASE Skip(s)
  BY <1>0, <1>4 DEF Skip, hostVars, HoldingsInv, NoneInstalled, Interfaces
<1> QED
  BY <1>1, <1>2, <1>3, <1>4 DEF Startup

LEMMA HoldingsStop ==
  ASSUME TypeOK, HoldingsInv, NEW s \in Resp, Stop(s)
  PROVE  HoldingsInv'
<1>0. /\ pc \in [Resp -> Pcs] /\ installed \in [Resp -> SUBSET Families]
      /\ iface \in [Resp -> BOOLEAN]
  BY DEF TypeOK
<1> USE DEF Stopping, hostVars, HoldingsInv, NoneInstalled, Interfaces, TunKinds
<1>1. CASE Unbind(s)
  BY <1>0, <1>1 DEF Unbind
<1>2. CASE Read(s)
  BY <1>0, <1>2 DEF Read
<1>3. CASE Removed(s)
  BY <1>0, <1>3 DEF Removed
<1>4. CASE Terminate(s)
  BY <1>0, <1>4 DEF Terminate
<1>5. ASSUME NEW f \in Families, RemoveRule(s, f) PROVE HoldingsInv'
  BY <1>0, <1>5 DEF RemoveRule
<1> QED
  BY <1>1, <1>2, <1>3, <1>4, <1>5 DEF Stop

LEMMA HoldingsNext == TypeOK /\ HoldingsInv /\ [Next]_vars => HoldingsInv'
<1> SUFFICES ASSUME TypeOK, HoldingsInv, [Next]_vars PROVE HoldingsInv'
  OBVIOUS
<1>0. /\ pc \in [Resp -> Pcs] /\ installed \in [Resp -> SUBSET Families]
      /\ iface \in [Resp -> BOOLEAN] /\ kind \in [Resp -> KindsInUse]
  BY DEF TypeOK
<1>1. ASSUME NEW s \in Resp, Traffic(s) PROVE HoldingsInv'
  BY <1>1, TrafficFrame DEF HoldingsInv, NoneInstalled, Interfaces
<1>2. CASE BeginStop
  BY <1>0, <1>2 DEF BeginStop, FirstStep, hostVars, HoldingsInv, NoneInstalled, Interfaces, TunKinds
<1>3. CASE Deadline
  BY <1>0, <1>3 DEF Deadline, HoldingsInv, NoneInstalled, Interfaces
<1>4. CASE Exit \/ Crash
  BY <1>0, <1>4 DEF Exit, Crash, EndOfProcess, HoldingsInv, NoneInstalled, Interfaces
<1>5. CASE NextRun
  BY <1>0, <1>5 DEF NextRun, hostVars, HoldingsInv, NoneInstalled, Interfaces
<1>6. CASE Preflight \/ StartupDone \/ SelfTest \/ AllStopped
  BY <1>6 DEF Preflight, StartupDone, SelfTest, AllStopped, hostVars,
              HoldingsInv, NoneInstalled, Interfaces
<1>7. CASE CommitSnapshots \/ FinalizeResults
  BY <1>7 DEF CommitSnapshots, FinalizeResults, hostVars, HoldingsInv, NoneInstalled, Interfaces
<1>8. CASE UNCHANGED vars
  BY <1>8 DEF vars, hostVars, HoldingsInv, NoneInstalled, Interfaces
<1> QED
  BY <1>1, <1>2, <1>3, <1>4, <1>5, <1>6, <1>7, <1>8, HoldingsStartup, HoldingsStop DEF Next, Over

-----------------------------------------------------------------------------
(* While no command has failed, the rules of a responder are those in its   *)
(* InstallStatus, one of each, whatever the traffic ticked.                 *)
Accounted(r, f) == IF f \in installed[r] THEN Len(rules[r][f]) = 1 ELSE rules[r][f] = <<>>

RulesInv ==
  phase # "preflight" /\ exit # "killed" /\ ~faulted =>
    \A r \in Resp : \A f \in Families : Accounted(r, f)

FreshInv == inherited # {} => faulted

LEMMA FaultSticks ==
  ASSUME NEW failed, FaultIf(failed)
  PROVE  ~faulted' => ~failed /\ ~faulted
BY DEF FaultIf, Fault, NoFault, faultVars

LEMMA StopFaults ==
  ASSUME NEW s \in Resp, Stop(s)
  PROVE  ~faulted' => ~faulted
<1>1. CASE Unbind(s) \/ Removed(s)
  BY <1>1 DEF Unbind, Removed, faultVars
<1>2. CASE Read(s)
  BY <1>2, FaultSticks DEF Read
<1>3. CASE Terminate(s)
  <2>1. PICK left \in {FALSE, kind[s] = "wireguard"} : FaultIf(left)
    BY <1>3 DEF Terminate
  <2> QED
    BY <2>1, FaultSticks
<1>4. ASSUME NEW f \in Families, RemoveRule(s, f) PROVE ~faulted' => ~faulted
  BY <1>4 DEF RemoveRule, Fault, NoFault, faultVars
<1> QED
  BY <1>1, <1>2, <1>3, <1>4 DEF Stop

LEMMA FaultsStay ==
  ASSUME Next, ~NextRun
  PROVE  ~faulted' => ~faulted
<1>1. ASSUME NEW s \in Resp, Startup(s) PROVE ~faulted' => ~faulted
  <2>1. CASE Install(s)
    BY <2>1, FaultSticks DEF Install
  <2>2. CASE SpawnFails(s)
    BY <2>2, FaultSticks DEF SpawnFails
  <2>3. CASE Spawn(s) \/ Skip(s)
    BY <2>3 DEF Spawn, Skip, faultVars
  <2> QED
    BY <1>1, <2>1, <2>2, <2>3 DEF Startup
<1>2. ASSUME NEW s \in Resp, Traffic(s) PROVE ~faulted' => ~faulted
  BY <1>2, TrafficFrame
<1>3. CASE Preflight \/ BeginStop
  BY <1>3, FaultSticks DEF Preflight, BeginStop
<1>4. CASE StartupDone \/ SelfTest \/ AllStopped \/ Deadline \/ CommitSnapshots
  BY <1>4 DEF StartupDone, SelfTest, AllStopped, Deadline, CommitSnapshots, faultVars
<1>5. CASE FinalizeResults \/ Exit \/ Crash \/ Over
  BY <1>5 DEF FinalizeResults, Exit, Crash, EndOfProcess, Over, vars, faultVars
<1> QED
  BY <1>1, <1>2, <1>3, <1>4, <1>5, StopFaults DEF Next

(* While no command has failed, a responder that has stopped has no         *)
(* interface.                                                               *)
LinksInv == \A r \in Resp : pc[r] = "stopped" /\ ~faulted => ~iface[r]

LEMMA LinksNext == TypeOK /\ CourseInv /\ HoldingsInv /\ LinksInv /\ [Next]_vars => LinksInv'
<1> SUFFICES ASSUME TypeOK, CourseInv, HoldingsInv, LinksInv, Next \/ UNCHANGED vars,
                    NEW r \in Resp, pc'[r] = "stopped", ~faulted'
             PROVE  ~iface'[r]
  BY DEF LinksInv
<1>0. /\ pc \in [Resp -> Pcs] /\ iface \in [Resp -> BOOLEAN]
      /\ iface[r] => kind[r] \in TunKinds
  BY DEF TypeOK, HoldingsInv, Interfaces
<1> DEFINE Kept == pc[r] = "stopped" /\ (iface'[r] => iface[r])
<1>1. CASE NextRun
  BY <1>1 DEF NextRun
<1>2. CASE UNCHANGED vars
  BY <1>2 DEF vars, hostVars, runVars, faultVars, LinksInv
<1>3. ASSUME NEW s \in Resp, Terminate(s) PROVE Kept \/ ~iface'[r]
  <2>1. PICK left \in {FALSE, kind[s] = "wireguard"} :
          iface' = [iface EXCEPT ![s] = left] /\ FaultIf(left)
    BY <1>3 DEF Terminate
  <2>2. ~left
    BY <2>1, FaultSticks
  <2> QED
    BY <1>0, <1>3, <2>1, <2>2 DEF Terminate
<1>4. ASSUME NEW s \in Resp, Unbind(s) \/ Read(s) \/ Removed(s) PROVE Kept
  BY <1>0, <1>4 DEF Unbind, Read, Removed, hostVars
<1>5. ASSUME NEW s \in Resp, NEW f \in Families, RemoveRule(s, f) PROVE Kept
  BY <1>0, <1>5 DEF RemoveRule
<1>6. ASSUME NEW s \in Resp, Startup(s) PROVE Kept
  BY <1>0, <1>6 DEF Startup, Spawn, SpawnFails, Install, Skip, hostVars
<1>7. ASSUME NEW s \in Resp, Traffic(s) PROVE Kept
  BY <1>7, TrafficFrame
<1>8. ASSUME Preflight \/ StartupDone \/ SelfTest \/ AllStopped PROVE Kept
  BY <1>8 DEF Preflight, StartupDone, SelfTest, AllStopped, hostVars
<1>9. ASSUME BeginStop PROVE Kept \/ ~iface'[r]
  <2>1. pc[r] = "skipped" => kind[r] = "mtorig"
    BY DEF HoldingsInv, Interfaces
  <2> QED
    BY <1>0, <1>9, <2>1 DEF BeginStop, FirstStep, hostVars, TunKinds
<1>10. ASSUME Deadline PROVE Kept
  BY <1>0, <1>10 DEF Deadline
<1>11. ASSUME CommitSnapshots \/ FinalizeResults PROVE Kept
  BY <1>11 DEF CommitSnapshots, FinalizeResults, hostVars
<1>12. ASSUME Exit \/ Crash \/ Over PROVE Kept
  BY <1>0, <1>12 DEF Exit, Crash, EndOfProcess, Over, vars, hostVars
<1>13. Kept \/ ~iface'[r]
  BY <1>1, <1>2, <1>3, <1>4, <1>5, <1>6, <1>7, <1>8, <1>9, <1>10, <1>11, <1>12 DEF Next, Stop
<1>14. Kept /\ ~NextRun => ~iface'[r]
  BY <1>2, FaultsStay DEF LinksInv
<1> QED
  BY <1>1, <1>13, <1>14

LEMMA DeleteSingle ==
  ASSUME NEW chain \in Chains, Len(chain) = 1
  PROVE  DeleteOne(chain) = <<>>
<1>1. Len(chain) <= 1
  OBVIOUS
<1> QED
  BY <1>1, DeleteChain

LEMMA TicksKeepRules ==
  ASSUME TypeOK, TypeOK', RulesInv, phase # "preflight", exit' = exit, faulted' = faulted,
         installed' = installed,
         \A r \in Resp : \A f \in Families : Len(rules'[r][f]) = Len(rules[r][f])
  PROVE  RulesInv'
<1> SUFFICES ASSUME exit' # "killed", ~faulted', NEW r \in Resp, NEW f \in Families
             PROVE  Accounted(r, f)'
  BY DEF RulesInv
<1>1. Accounted(r, f)
  BY DEF RulesInv
<1>0. rules \in [Resp -> [Families -> Chains]] /\ rules' \in [Resp -> [Families -> Chains]]
  BY DEF TypeOK
<1>2. rules[r][f] \in Chains /\ rules'[r][f] \in Chains
  BY <1>0
<1>3. rules[r][f] = <<>> => rules'[r][f] = <<>>
  BY <1>2, EmptySeq DEF Chains
<1> QED
  BY <1>1, <1>3 DEF Accounted

LEMMA RulesPreflight ==
  ASSUME TypeOK, CourseInv, HoldingsInv, Preflight
  PROVE  RulesInv'
<1>0. rules \in [Resp -> [Families -> Chains]] /\ installed \in [Resp -> SUBSET Families]
  BY DEF TypeOK
<1>1. PICK left \in SUBSET Leftovers, checked \in {permitted, FALSE} :
        rules' = Cleaned(left) /\ FaultIf(left # {} \/ checked # permitted)
  BY DEF Preflight
<1>2. faulted' \/ left = {}
  BY <1>1, FaultSticks
<1>3. \A r \in Resp : installed[r] = {}
  BY DEF Preflight, CourseInv, HoldingsInv, NoneInstalled
<1>4. installed' = installed
  BY DEF Preflight
<1>5. left = {} => \A r \in Resp : \A f \in Families : rules'[r][f] = <<>>
  BY <1>1 DEF Cleaned
<1> QED
  BY <1>2, <1>3, <1>4, <1>5 DEF RulesInv, Accounted

LEMMA RulesSpawnFails ==
  ASSUME TypeOK, RulesInv, NEW s \in Resp, SpawnFails(s)
  PROVE  RulesInv'
<1>0. rules \in [Resp -> [Families -> Chains]] /\ installed \in [Resp -> SUBSET Families]
  BY DEF TypeOK
<1>1. PICK stuck \in SUBSET installed[s] :
        rules' = [rules EXCEPT ![s] = Retracted(s, stuck)] /\ FaultIf(stuck # {})
  BY DEF SpawnFails
<1>2. SUFFICES ASSUME exit' # "killed", ~faulted', NEW r \in Resp, NEW f \in Families
               PROVE  Accounted(r, f)'
  BY DEF RulesInv
<1>3. ~faulted /\ stuck = {}
  BY <1>1, <1>2, FaultSticks
<1>4. phase # "preflight" /\ exit # "killed"
  BY <1>2 DEF SpawnFails, Starting, runVars
<1>5. Accounted(r, f)
  BY <1>3, <1>4 DEF RulesInv
<1>6. installed' = [installed EXCEPT ![s] = {}]
  BY DEF SpawnFails
<1>7. CASE r = s
  <2>1. rules'[s][f] = IF f \in installed[s] THEN DeleteOne(rules[s][f]) ELSE rules[s][f]
    BY <1>0, <1>1, <1>3 DEF Retracted
  <2>2. f \in installed[s] => DeleteOne(rules[s][f]) = <<>>
    <3>1. rules[s][f] \in Chains
      BY <1>0
    <3>2. Len(rules[s][f]) = 1 => DeleteOne(rules[s][f]) = <<>>
      BY <3>1, DeleteSingle
    <3> QED
      BY <1>5, <1>7, <3>2 DEF Accounted
  <2> QED
    BY <1>0, <1>5, <1>6, <1>7, <2>1, <2>2 DEF Accounted
<1>8. CASE r # s
  BY <1>0, <1>1, <1>5, <1>6, <1>8 DEF Accounted
<1> QED
  BY <1>7, <1>8

LEMMA RulesInstall ==
  ASSUME TypeOK, CourseInv, HoldingsInv, RulesInv, NEW s \in Resp, Install(s)
  PROVE  RulesInv'
<1>0. /\ rules \in [Resp -> [Families -> Chains]] /\ installed \in [Resp -> SUBSET Families]
      /\ permitted \in BOOLEAN
  BY DEF TypeOK
<1>1. PICK failing, out :
        /\ \A f \in Families : out[f] \in InstallOutcomes(rules[s][f], permitted, f \in failing)
        /\ rules' = [rules EXCEPT ![s] = [f \in Families |-> out[f][1]]]
        /\ installed' = [installed EXCEPT ![s] = {f \in Families : out[f][2]}]
        /\ FaultIf(failing # {})
  BY InstallPick
<1>2. SUFFICES ASSUME exit' # "killed", ~faulted', NEW r \in Resp, NEW f \in Families
               PROVE  Accounted(r, f)'
  BY DEF RulesInv
<1>3. ~faulted /\ failing = {}
  BY <1>1, <1>2, FaultSticks
<1>4. phase # "preflight" /\ exit # "killed"
  BY <1>2 DEF Install, Starting, runVars
<1>5. Accounted(r, f)
  BY <1>3, <1>4 DEF RulesInv
<1>6. CASE r = s
  <2>1. installed[s] = {}
    BY DEF Install, HoldingsInv, NoneInstalled
  <2>2. rules[s][f] \in Chains /\ rules[s][f] = <<>>
    BY <1>0, <1>5, <1>6, <2>1 DEF Accounted
  <2>3. out[f] \in InstallOutcomes(rules[s][f], permitted, f \in failing) /\ f \notin failing
    BY <1>1, <1>3
  <2>4. IF out[f][2] THEN Len(out[f][1]) = 1 ELSE out[f][1] = <<>>
    <3> DEFINE late == f \in failing
    <3>1. late \in BOOLEAN /\ ~late
      BY <2>3
    <3>2. out[f] \in InstallOutcomes(rules[s][f], permitted, late)
      BY <2>3
    <3> HIDE DEF late
    <3> QED
      BY <1>0, <2>2, <3>1, <3>2, InstallChain
  <2>5. rules'[s][f] = out[f][1] /\ (f \in installed'[s] <=> out[f][2])
    BY <1>0, <1>1
  <2> QED
    BY <1>6, <2>4, <2>5 DEF Accounted
<1>7. CASE r # s
  BY <1>0, <1>1, <1>5, <1>7 DEF Accounted
<1> QED
  BY <1>6, <1>7

LEMMA RulesRemove ==
  ASSUME TypeOK, RulesInv, NEW s \in Resp, NEW g \in Families, RemoveRule(s, g)
  PROVE  RulesInv'
<1>0. rules \in [Resp -> [Families -> Chains]] /\ installed \in [Resp -> SUBSET Families]
  BY DEF TypeOK
<1>1. SUFFICES ASSUME exit' # "killed", ~faulted', NEW r \in Resp, NEW f \in Families
               PROVE  Accounted(r, f)'
  BY DEF RulesInv
<1>2. ~faulted /\ rules' = [rules EXCEPT ![s][g] = DeleteOne(@)]
  BY <1>1 DEF RemoveRule, Fault, NoFault, faultVars
<1>3. /\ phase # "preflight" /\ exit # "killed" /\ g \in installed[s]
      /\ installed' = [installed EXCEPT ![s] = @ \ {g}]
  BY <1>1 DEF RemoveRule, Stopping, runVars
<1>4. Accounted(r, f) /\ Accounted(s, g)
  BY <1>2, <1>3 DEF RulesInv
<1>5. DeleteOne(rules[s][g]) = <<>>
  <2>1. rules[s][g] \in Chains
    BY <1>0
  <2>2. Len(rules[s][g]) = 1 => DeleteOne(rules[s][g]) = <<>>
    BY <2>1, DeleteSingle
  <2> QED
    BY <1>3, <1>4, <2>2 DEF Accounted
<1>6. CASE r = s /\ f = g
  BY <1>0, <1>2, <1>3, <1>5, <1>6 DEF Accounted
<1>7. CASE r # s \/ f # g
  <2>1. rules'[r][f] = rules[r][f] /\ (f \in installed'[r] <=> f \in installed[r])
    BY <1>0, <1>2, <1>3, <1>7
  <2> QED
    BY <1>4, <2>1 DEF Accounted
<1> QED
  BY <1>6, <1>7

(* A step that ticks the rules of one responder, or of none.                *)
LEMMA TrafficTicks ==
  ASSUME TypeOK, NEW s \in Resp, Traffic(s)
  PROVE  \/ rules' = rules
         \/ \E f \in Families, n \in Counts :
              /\ rules' = Ticked(s, f, n)
              /\ kind[s] \in CounterKinds
              /\ kind[s] \in {"mtg", "mtorig"} => reached'[s] \/ s \in fronted'
<1>1. ASSUME NEW f \in Families, Handshake(s, f)
      PROVE  rules' = rules \/ (/\ rules' = Ticked(s, f, 1) /\ kind[s] \in CounterKinds
                                /\ reached'[s])
  BY <1>1 DEF Handshake, TypeOK, CounterKinds
<1>2. ASSUME NEW f \in Families, Exchange(s, f)
      PROVE  \/ rules' = rules
             \/ /\ kind[s] \in CounterKinds /\ reached'[s]
                /\ rules' = Ticked(s, f, 1) \/ rules' = Ticked(s, f, 2)
  BY <1>2 DEF Exchange, MinDataPackets
<1>3. ASSUME NEW f \in Families, Scan(s, f)
      PROVE  \/ rules' = rules
             \/ rules' = Ticked(s, f, 1) /\ kind[s] = "openvpn"
             \/ rules' = Ticked(s, f, 1) /\ kind[s] = "mtg" /\ s \in fronted'
  BY <1>3 DEF Scan
<1>4. CASE Monitor(s) \/ WriteStatus(s) \/ Latch(s) \/ ForgetPeer(s)
  BY <1>4 DEF Monitor, WriteStatus, Latch, ForgetPeer, hostVars
<1>5. 1 \in Counts /\ 2 \in Counts
  BY DEF Counts
<1> QED
  BY <1>1, <1>2, <1>3, <1>4, <1>5 DEF Traffic, CounterKinds

LEMMA RulesNext ==
  TypeOK /\ TypeOK' /\ CourseInv /\ HoldingsInv /\ RulesInv /\ [Next]_vars => RulesInv'
<1> SUFFICES ASSUME TypeOK, TypeOK', CourseInv, HoldingsInv, RulesInv, [Next]_vars
             PROVE  RulesInv'
  OBVIOUS
<1>0. rules \in [Resp -> [Families -> Chains]]
  BY DEF TypeOK
<1>1. ASSUME NEW s \in Resp, Spawn(s) \/ Skip(s) PROVE RulesInv'
  BY <1>1 DEF Spawn, Skip, hostVars, runVars, faultVars, RulesInv, Accounted
<1>2. ASSUME NEW s \in Resp, Traffic(s) PROVE RulesInv'
  <2>1. /\ UNCHANGED <<phase, exit, installed, faulted>> /\ phase # "down"
    BY <1>2, TrafficFrame
  <2>2. CASE rules' = rules
    BY <2>1, <2>2 DEF RulesInv, Accounted
  <2>3. CASE \E f \in Families, n \in Counts : rules' = Ticked(s, f, n)
    <3>1. \A r \in Resp : \A f \in Families : Len(rules'[r][f]) = Len(rules[r][f])
      BY <2>3, TickedType
    <3>2. CASE phase = "preflight"
      BY <2>1, <3>2 DEF RulesInv
    <3> QED
      BY <2>1, <3>1, <3>2, TicksKeepRules
  <2> QED
    BY <1>2, <2>2, <2>3, TrafficTicks
<1>3. ASSUME NEW s \in Resp, Unbind(s) \/ Removed(s) PROVE RulesInv'
  BY <1>3 DEF Unbind, Removed, hostVars, runVars, faultVars, RulesInv, Accounted
<1>4. ASSUME NEW s \in Resp, Read(s) \/ Terminate(s) PROVE RulesInv'
  <2>1. UNCHANGED <<rules, installed, phase, exit>>
    BY <1>4 DEF Read, Terminate, hostVars, runVars
  <2>2. faulted' \/ ~faulted
    BY <1>4, StopFaults DEF Stop
  <2> QED
    BY <2>1, <2>2 DEF RulesInv, Accounted
<1>5. CASE SelfTest
  <2>1. PICK answered \in SUBSET Resp, f \in Families :
          rules' = [r \in Resp |-> IF r \in answered
                                    THEN [rules[r] EXCEPT ![f] = Tick(@, 1)] ELSE rules[r]]
    BY <1>5 DEF SelfTest
  <2>2. \A r \in Resp : Len(Tick(rules[r][f], 1)) = Len(rules[r][f])
    <3> TAKE r \in Resp
    <3>1. rules[r][f] \in Chains /\ 1 \in Counts
      BY <1>0 DEF Counts
    <3> QED
      BY <3>1, TickChain
  <2>3. \A r \in Resp : \A g \in Families : Len(rules'[r][g]) = Len(rules[r][g])
    BY <1>0, <2>1, <2>2
  <2>4. phase # "preflight" /\ UNCHANGED <<exit, faulted, installed>>
    BY <1>5 DEF SelfTest, faultVars
  <2> QED
    BY <2>3, <2>4, TicksKeepRules
<1>6. CASE BeginStop
  <2>1. UNCHANGED <<rules, installed, exit>> /\ phase = "serving" /\ (faulted' \/ ~faulted)
    BY <1>6, FaultSticks DEF BeginStop, hostVars
  <2> QED
    BY <2>1 DEF RulesInv, Accounted
<1>7. CASE StartupDone \/ AllStopped \/ Deadline \/ CommitSnapshots \/ FinalizeResults
  <2>1. UNCHANGED <<rules, installed, faulted>> /\ phase # "preflight" /\ phase # "down"
    BY <1>7 DEF StartupDone, AllStopped, Deadline, CommitSnapshots, FinalizeResults, hostVars,
                faultVars
  <2>2. exit = "running"
    BY <2>1 DEF CourseInv
  <2> QED
    BY <2>1, <2>2 DEF RulesInv, Accounted
<1>8. CASE Exit \/ Crash
  <2>1. UNCHANGED <<rules, installed, faulted>>
    BY <1>8 DEF Exit, Crash, EndOfProcess, faultVars
  <2>2. exit' = "killed" \/ (phase = "done" /\ exit = "running")
    BY <1>8 DEF Exit, Crash, CourseInv
  <2> QED
    BY <2>1, <2>2 DEF RulesInv, Accounted
<1>9. CASE NextRun
  BY <1>9 DEF NextRun, RulesInv
<1>10. CASE UNCHANGED vars
  BY <1>10 DEF vars, hostVars, runVars, faultVars, RulesInv, Accounted
<1> QED
  BY <1>1, <1>2, <1>3, <1>4, <1>5, <1>6, <1>7, <1>8, <1>9, <1>10, RulesPreflight, RulesSpawnFails,
     RulesInstall, RulesRemove DEF Next, Over, Startup, Stop

LEMMA FreshNext ==
  TypeOK /\ CourseInv /\ HoldingsInv /\ RulesInv /\ FreshInv /\ [Next]_vars => FreshInv'
<1> SUFFICES ASSUME TypeOK, CourseInv, HoldingsInv, RulesInv, FreshInv, [Next]_vars
             PROVE  FreshInv'
  OBVIOUS
<1>0. rules \in [Resp -> [Families -> Chains]]
  BY DEF TypeOK
<1>1. ASSUME NEW s \in Resp, Install(s) PROVE FreshInv'
  <2>1. installed[s] = {} /\ phase = "starting" /\ phase # "down"
    BY <1>1 DEF Install, Starting, HoldingsInv, NoneInstalled
  <2>2. exit = "running"
    BY <2>1 DEF CourseInv
  <2>3. ~faulted => \A f \in Families : rules[s][f] = <<>>
    BY <2>1, <2>2 DEF RulesInv, Accounted
  <2>4. ~faulted => rules[s] = NoRules
    BY <1>0, <2>3 DEF NoRules
  <2>5. faulted => faulted'
    BY <1>1, FaultSticks DEF Install
  <2> QED
    BY <1>1, <2>4, <2>5 DEF Install, FreshInv
<1>2. ASSUME NEW s \in Resp, Spawn(s) \/ SpawnFails(s) \/ Skip(s) PROVE FreshInv'
  BY <1>2, FaultSticks DEF Spawn, SpawnFails, Skip, faultVars, creditVars, FreshInv
<1>3. ASSUME NEW s \in Resp, Traffic(s) PROVE FreshInv'
  BY <1>3, TrafficFrame DEF FreshInv
<1>4. ASSUME NEW s \in Resp, Unbind(s) \/ Removed(s) \/ Terminate(s) \/ Read(s) PROVE FreshInv'
  BY <1>4, StopFaults DEF Stop, Unbind, Removed, Terminate, Read, creditVars, FreshInv
<1>5. ASSUME NEW s \in Resp, NEW f \in Families, RemoveRule(s, f) PROVE FreshInv'
  BY <1>5 DEF RemoveRule, Fault, NoFault, faultVars, creditVars, FreshInv
<1>6. CASE Preflight \/ BeginStop
  BY <1>6, FaultSticks DEF Preflight, BeginStop, creditVars, FreshInv
<1>7. CASE StartupDone \/ SelfTest \/ AllStopped \/ Deadline
  BY <1>7 DEF StartupDone, SelfTest, AllStopped, Deadline, faultVars, creditVars, FreshInv
<1>8. CASE CommitSnapshots \/ FinalizeResults \/ Exit \/ Crash
  BY <1>8 DEF CommitSnapshots, FinalizeResults, Exit, Crash, EndOfProcess, faultVars, creditVars,
              FreshInv
<1>9. CASE NextRun \/ UNCHANGED vars
  BY <1>9 DEF NextRun, vars, faultVars, creditVars, FreshInv
<1> QED
  BY <1>1, <1>2, <1>3, <1>4, <1>5, <1>6, <1>7, <1>8, <1>9 DEF Next, Over, Startup, Stop

HostInv == CourseInv /\ HoldingsInv /\ LinksInv /\ RulesInv /\ FreshInv

LEMMA HostInit == Init => HostInv
BY DEF Init, HostInv, CourseInv, HoldingsInv, NoneInstalled, Interfaces, LinksInv, RulesInv, FreshInv

LEMMA HostClean == TypeOK /\ HostInv => HostLeftClean
<1> SUFFICES ASSUME TypeOK, HostInv, phase = "down", exit # "killed", ~faulted,
                    NEW r \in Resp, Whole(r)
             PROVE  rules[r] = NoRules /\ (pc[r] # "failed" => ~iface[r])
  BY DEF HostLeftClean
<1>0. rules \in [Resp -> [Families -> Chains]]
  BY DEF TypeOK
<1>1. exit \in {"graceful", "nothing started"}
  BY DEF TypeOK, HostInv, CourseInv
<1>2. pc[r] \in {"stopped", "failed"}
  BY <1>1 DEF HostInv, CourseInv, Ended, Whole
<1>3. installed[r] = {} /\ (pc[r] # "failed" => ~iface[r])
  BY <1>2 DEF HostInv, HoldingsInv, NoneInstalled, LinksInv
<1>4. \A f \in Families : rules[r][f] = <<>>
  BY <1>3 DEF HostInv, RulesInv, Accounted
<1> QED
  BY <1>0, <1>3, <1>4 DEF NoRules

(* The inductive invariant of the host: where the responders are in each    *)
(* phase, which interfaces and families they hold, and that every rule left *)
(* is one somebody still holds, one of an earlier run, or the trace of a    *)
(* command that failed.                                                     *)
THEOREM HostInvAlways == Spec => []HostInv
<1>1. HostInv /\ TypeOK /\ TypeOK' /\ [Next]_vars => HostInv'
  BY CourseNext, HoldingsNext, LinksNext, RulesNext, FreshNext DEF HostInv
<1> QED
  BY <1>1, HostInit, TypeOKAlways, PTL DEF Spec

(* A listener that ends by itself, with no command of it having failed,     *)
(* leaves neither a rule nor an interface of a responder that came up.      *)
THEOREM HostLeftCleanAlways == Spec => []HostLeftClean
BY HostClean, HostInvAlways, TypeOKAlways, PTL

(* No responder ever counts on a rule of an earlier run unless a command    *)
(* failed in this one.                                                      *)
THEOREM CountersStartFreshAlways == Spec => []CountersStartFresh
<1>1. HostInv => CountersStartFresh
  BY DEF HostInv, FreshInv, CountersStartFresh
<1> QED
  BY <1>1, HostInvAlways, PTL

-----------------------------------------------------------------------------
(* No false OK.  What a responder counted, it counted for the client, or it *)
(* is one of the exceptions: an old rule, the self-test, a stranger's       *)
(* answer from the fronting host.  Within a run none of these goes away.    *)
Credited(r) == Excepted(r) \/ reached[r]

CreditKept ==
  /\ kind' = kind
  /\ \A r \in Resp : /\ Excepted(r) => Excepted(r)'
                     /\ reached[r] => reached'[r]
                     /\ moved[r] => moved'[r]

LEMMA TrafficCredit ==
  ASSUME TypeOK, NEW s \in Resp, Traffic(s)
  PROVE  CreditKept
<1>0. reached \in [Resp -> BOOLEAN] /\ moved \in [Resp -> BOOLEAN]
  BY DEF TypeOK
<1>1. UNCHANGED <<kind, inherited, selfTested>> /\ \A r \in Resp : r \in fronted => r \in fronted'
  BY TrafficFrame
<1>2. ASSUME NEW f \in Families, Handshake(s, f)
      PROVE  \A r \in Resp : (reached[r] => reached'[r]) /\ (moved[r] => moved'[r])
  BY <1>0, <1>2 DEF Handshake
<1>3. ASSUME NEW f \in Families, Exchange(s, f)
      PROVE  \A r \in Resp : (reached[r] => reached'[r]) /\ (moved[r] => moved'[r])
  BY <1>0, <1>3 DEF Exchange
<1>4. ASSUME NEW f \in Families, Scan(s, f) PROVE UNCHANGED <<reached, moved>>
  BY <1>4 DEF Scan
<1>5. CASE Monitor(s) \/ WriteStatus(s) \/ Latch(s) \/ ForgetPeer(s)
  BY <1>1, <1>5 DEF Monitor, WriteStatus, Latch, ForgetPeer, trafficVars, CreditKept, Excepted
<1> QED
  BY <1>1, <1>2, <1>3, <1>4, <1>5 DEF Traffic, CreditKept, Excepted

LEMMA CreditGrows ==
  ASSUME TypeOK, Next, ~NextRun
  PROVE  CreditKept
<1>1. ASSUME NEW s \in Resp, Startup(s) PROVE CreditKept
  BY <1>1 DEF Startup, Spawn, SpawnFails, Install, Skip, hostVars, trafficVars, creditVars,
              CreditKept, Excepted
<1>2. ASSUME NEW s \in Resp, Stop(s) PROVE CreditKept
  BY <1>2 DEF Stop, Unbind, Read, Removed, Terminate, RemoveRule, hostVars, trafficVars, creditVars,
              CreditKept, Excepted
<1>3. CASE Preflight \/ StartupDone \/ SelfTest \/ BeginStop \/ AllStopped \/ Deadline
  BY <1>3 DEF Preflight, StartupDone, SelfTest, BeginStop, AllStopped, Deadline, hostVars,
              trafficVars, creditVars, CreditKept, Excepted
<1>4. CASE CommitSnapshots \/ FinalizeResults \/ Exit \/ Crash \/ Over
  BY <1>4 DEF CommitSnapshots, FinalizeResults, Exit, Crash, Over, EndOfProcess, hostVars,
              trafficVars, creditVars, vars, CreditKept, Excepted
<1> QED
  BY <1>1, <1>2, <1>3, <1>4, TrafficCredit DEF Next

-----------------------------------------------------------------------------
(* Only the responders with a rule read it.                                 *)
ReadersInv == \A r \in Resp : pc[r] = "read" => kind[r] \in CounterKinds

LEMMA ReadersNext == TypeOK /\ ReadersInv /\ [Next]_vars => ReadersInv'
<1> SUFFICES ASSUME TypeOK, ReadersInv, [Next]_vars PROVE ReadersInv'
  OBVIOUS
<1>0. pc \in [Resp -> Pcs] /\ \A r \in Resp : kind[r] \in Kinds
  BY KindsOf DEF TypeOK
<1>1. ASSUME NEW s \in Resp, Startup(s) PROVE ReadersInv'
  BY <1>0, <1>1 DEF Startup, Spawn, SpawnFails, Install, Skip, hostVars, ReadersInv
<1>2. ASSUME NEW s \in Resp, Traffic(s) PROVE ReadersInv'
  BY <1>2, TrafficFrame DEF ReadersInv
<1>3. ASSUME NEW s \in Resp, Stop(s) PROVE ReadersInv'
  BY <1>0, <1>3 DEF Stop, Unbind, Read, Removed, Terminate, RemoveRule, hostVars, CounterKinds,
                    ReadersInv
<1>4. CASE BeginStop
  BY <1>0, <1>4 DEF BeginStop, FirstStep, hostVars, Kinds, TunKinds, CounterKinds, ReadersInv
<1>5. CASE Deadline \/ NextRun
  BY <1>0, <1>5 DEF Deadline, NextRun, hostVars, ReadersInv
<1>6. CASE Preflight \/ StartupDone \/ SelfTest \/ AllStopped \/ CommitSnapshots \/ FinalizeResults
  BY <1>6 DEF Preflight, StartupDone, SelfTest, AllStopped, CommitSnapshots, FinalizeResults,
              hostVars, ReadersInv
<1>7. CASE Exit \/ Crash \/ UNCHANGED vars
  BY <1>7 DEF Exit, Crash, EndOfProcess, vars, hostVars, ReadersInv
<1> QED
  BY <1>1, <1>2, <1>3, <1>4, <1>5, <1>6, <1>7 DEF Next, Over

-----------------------------------------------------------------------------
(* Until the client is through nothing has ticked the rules of the proxies. *)
SilentRules(r) == \A f \in Families : Silent(rules[r][f])

QuietInv ==
  \A r \in Resp :
    kind[r] \in {"mtg", "mtorig"} /\ pc[r] \in {"installed", "up", "read"} /\ ~Credited(r) =>
      SilentRules(r)

LEMMA QuietKept ==
  ASSUME QuietInv, CreditKept, NEW r \in Resp,
         rules'[r] = rules[r],
         pc'[r] \in {"installed", "up", "read"} => pc[r] \in {"installed", "up", "read"},
         kind'[r] \in {"mtg", "mtorig"}, pc'[r] \in {"installed", "up", "read"}, ~Credited(r)'
  PROVE  SilentRules(r)'
<1>1. ~Credited(r)
  BY DEF Credited, Excepted, CreditKept
<1>2. SilentRules(r)
  BY <1>1 DEF QuietInv, CreditKept
<1> QED
  BY <1>2 DEF SilentRules

LEMMA QuietInstall ==
  ASSUME TypeOK, QuietInv, CreditKept, NEW s \in Resp, Install(s)
  PROVE  QuietInv'
<1>0. /\ rules \in [Resp -> [Families -> Chains]] /\ permitted \in BOOLEAN
      /\ pc \in [Resp -> Pcs]
  BY DEF TypeOK
<1>1. PICK failing, out :
        /\ \A f \in Families : out[f] \in InstallOutcomes(rules[s][f], permitted, f \in failing)
        /\ rules' = [rules EXCEPT ![s] = [f \in Families |-> out[f][1]]]
        /\ installed' = [installed EXCEPT ![s] = {f \in Families : out[f][2]}]
        /\ FaultIf(failing # {})
  BY InstallPick
<1>2. SUFFICES ASSUME NEW r \in Resp, kind'[r] \in {"mtg", "mtorig"},
                      pc'[r] \in {"installed", "up", "read"}, ~Credited(r)'
               PROVE  SilentRules(r)'
  BY DEF QuietInv
<1>3. CASE r = s
  <2>1. rules[s] = NoRules
    BY <1>2, <1>3 DEF Install, Credited, Excepted
  <2>2. \A f \in Families : Silent(out[f][1])
    <3> TAKE f \in Families
    <3> DEFINE late == f \in failing
    <3>1. late \in BOOLEAN /\ rules[s][f] = <<>> /\ rules[s][f] \in Chains
      BY <1>0, <2>1 DEF NoRules
    <3>2. out[f] \in InstallOutcomes(rules[s][f], permitted, late)
      BY <1>1
    <3> HIDE DEF late
    <3> QED
      BY <1>0, <3>1, <3>2, InstallChain
  <2>3. \A f \in Families : rules'[s][f] = out[f][1]
    BY <1>0, <1>1
  <2> QED
    BY <1>3, <2>2, <2>3 DEF SilentRules, Silent
<1>4. CASE r # s
  <2>1. rules'[r] = rules[r] /\ pc'[r] = pc[r]
    BY <1>0, <1>1, <1>4 DEF Install
  <2> QED
    BY <1>2, <2>1, QuietKept
<1> QED
  BY <1>3, <1>4

LEMMA QuietNext == TypeOK /\ QuietInv /\ [Next]_vars => QuietInv'
<1> SUFFICES ASSUME TypeOK, QuietInv, [Next]_vars PROVE QuietInv'
  OBVIOUS
<1>0. /\ rules \in [Resp -> [Families -> Chains]] /\ pc \in [Resp -> Pcs]
  BY DEF TypeOK
<1>1. CASE NextRun
  BY <1>1 DEF NextRun, QuietInv
<1>2. CASE UNCHANGED vars
  BY <1>2 DEF vars, hostVars, trafficVars, creditVars, QuietInv, SilentRules, Credited, Excepted
<1>3. CASE Next /\ ~NextRun
  <2>1. CreditKept
    BY <1>3, CreditGrows
  <2>2. ASSUME NEW s \in Resp, Install(s) PROVE QuietInv'
    BY <2>1, <2>2, QuietInstall
  <2>3. CASE ~\E s \in Resp : Install(s)
    <3> SUFFICES ASSUME NEW r \in Resp, kind'[r] \in {"mtg", "mtorig"},
                        pc'[r] \in {"installed", "up", "read"}, ~Credited(r)'
                 PROVE  SilentRules(r)'
      BY DEF QuietInv
    <3>1. ASSUME NEW s \in Resp, Spawn(s) \/ SpawnFails(s) \/ Skip(s) PROVE SilentRules(r)'
      <4>1. pc'[r] = pc[r] \/ pc'[r] \in {"skipped", "failed", "spawned"} \/
              (pc[r] = SpawnedFrom(r) /\ r = s /\ rules' = rules)
        BY <1>0, <3>1 DEF Spawn, SpawnFails, Skip
      <4>2. rules'[r] = rules[r] \/ pc'[r] = "failed"
        BY <1>0, <3>1 DEF Spawn, SpawnFails, Skip, hostVars
      <4>3. CASE r = s /\ Spawn(s)
        <5>1. kind[r] = "mtorig" => pc[r] = "installed"
          BY <4>3 DEF Spawn, SpawnedFrom
        <5>2. kind[r] = "mtg" => pc'[r] = "spawned"
          BY <1>0, <4>3 DEF Spawn
        <5> QED
          BY <2>1, <4>2, <5>1, <5>2, QuietKept DEF CreditKept
      <4>4. CASE ~(r = s /\ Spawn(s))
        <5>1. pc'[r] = pc[r] \/ pc'[r] \in {"skipped", "failed"}
          BY <1>0, <3>1, <4>4 DEF Spawn, SpawnFails, Skip
        <5> QED
          BY <2>1, <4>2, <5>1, QuietKept
      <4> QED
        BY <4>3, <4>4
    <3>2. ASSUME NEW s \in Resp, Traffic(s) PROVE SilentRules(r)'
      <4>1. pc' = pc
        BY <3>2, TrafficFrame
      <4>2. CASE rules'[r] = rules[r]
        BY <2>1, <4>1, <4>2, QuietKept
      <4>3. CASE rules'[r] # rules[r]
        <5>1. PICK f \in Families, n \in Counts :
                rules' = Ticked(s, f, n) /\ (kind[s] \in {"mtg", "mtorig"} => reached'[s] \/ s \in fronted')
          BY <3>2, <4>3, TrafficTicks
        <5>2. r = s
          BY <1>0, <4>3, <5>1 DEF Ticked
        <5> QED
          BY <2>1, <5>1, <5>2 DEF CreditKept, Credited, Excepted
      <4> QED
        BY <4>2, <4>3
    <3>3. ASSUME NEW s \in Resp, Stop(s) PROVE SilentRules(r)'
      <4>1. CASE \E f \in Families : RemoveRule(s, f)
        <5>1. PICK f \in Families : RemoveRule(s, f)
          BY <4>1
        <5>2. pc' = pc /\ (r = s => pc[r] = "remove")
          BY <5>1 DEF RemoveRule, Stopping
        <5>3. r # s => rules'[r] = rules[r]
          BY <1>0, <5>1 DEF RemoveRule
        <5> QED
          BY <2>1, <5>2, <5>3, QuietKept
      <4>2. CASE Unbind(s)
        <5>1. rules' = rules /\ (pc'[r] = pc[r] \/ kind[r] = "openvpn" \/ pc'[r] = "terminate")
          BY <1>0, <4>2 DEF Unbind, hostVars
        <5> QED
          BY <2>1, <5>1, QuietKept DEF CreditKept
      <4>3. CASE Read(s) \/ Removed(s) \/ Terminate(s)
        <5>1. rules' = rules /\ (pc'[r] = pc[r] \/ pc'[r] \in {"remove", "terminate", "stopped"})
          BY <1>0, <4>3 DEF Read, Removed, Terminate, hostVars
        <5> QED
          BY <2>1, <5>1, QuietKept
      <4> QED
        BY <3>3, <4>1, <4>2, <4>3 DEF Stop
    <3>4. CASE Preflight
      <4>1. PICK left : rules' = Cleaned(left)
        BY <3>4 DEF Preflight
      <4>2. \A f \in Families : rules'[r][f] = rules[r][f] \/ rules'[r][f] = <<>>
        BY <4>1 DEF Cleaned
      <4>3. SilentRules(r)
        BY <2>1, <3>4 DEF Preflight, CreditKept, Credited, Excepted, QuietInv
      <4>4. Silent(<<>>)
        BY DEF Silent
      <4> QED
        BY <4>2, <4>3, <4>4 DEF SilentRules, Silent
    <3>5. CASE SelfTest
      <4>1. pc' = pc /\ rules'[r] = rules[r]
        BY <3>5 DEF SelfTest, Credited, Excepted
      <4> QED
        BY <2>1, <4>1, QuietKept
    <3>6. CASE BeginStop \/ Deadline
      <4>1. rules' = rules /\ (pc'[r] = "read" => pc[r] \in {"up", "read"}) /\ pc'[r] # "up"
             /\ (pc'[r] = "installed" => pc[r] = "installed")
        BY <3>6 DEF BeginStop, Deadline, FirstStep, hostVars
      <4> QED
        BY <2>1, <4>1, QuietKept
    <3>7. CASE \/ StartupDone \/ AllStopped \/ CommitSnapshots \/ FinalizeResults \/ Exit \/ Crash
      <4>1. UNCHANGED <<rules, pc>>
        BY <3>7 DEF StartupDone, AllStopped, CommitSnapshots, FinalizeResults, Exit, Crash,
                    EndOfProcess, hostVars
      <4> QED
        BY <2>1, <4>1, QuietKept
    <3> QED
      BY <1>2, <1>3, <2>3, <3>1, <3>2, <3>3, <3>4, <3>5, <3>6, <3>7 DEF Next, Over, Startup, QuietInv
  <2> QED
    BY <2>2, <2>3
<1> QED
  BY <1>1, <1>2, <1>3

-----------------------------------------------------------------------------
(* So nothing has been captured from them either.                           *)
CaptureCredited(r) ==
  /\ kind[r] = "mtg" /\ captured[r].packets > 0 => Credited(r)
  /\ kind[r] = "mtorig" /\ count[r] > 0 => Credited(r)

CaptureInv == \A r \in Resp : CaptureCredited(r)

LEMMA CaptureKept ==
  ASSUME CaptureInv, CreditKept, NEW r \in Resp,
         kind[r] = "mtg" => captured'[r].packets = captured[r].packets,
         kind[r] = "mtorig" => count'[r] = count[r]
  PROVE  CaptureCredited(r)'
BY DEF CaptureInv, CaptureCredited, CreditKept, Credited, Excepted

LEMMA CaptureRead ==
  ASSUME TypeOK, CaptureInv, QuietInv, CreditKept, NEW s \in Resp, Read(s)
  PROVE  CaptureInv'
<1>0. /\ rules \in [Resp -> [Families -> Chains]] /\ count \in [Resp -> Nat]
      /\ captured \in [Resp -> Captures]
  BY DEF TypeOK
<1>1. PICK heard \in SUBSET Families :
         IF kind[s] = "mtorig"
         THEN /\ count' = [count EXCEPT ![s] = Higher(@, Total(rules[s], heard))]
              /\ UNCHANGED captured
         ELSE /\ captured' = [captured EXCEPT ![s] =
                   [taken |-> FALSE, packets |-> Total(rules[s], heard), bytes |-> Auth(s),
                    handshakes |-> IF Auth(s) > 0 THEN 1 ELSE 0]]
              /\ UNCHANGED count
  BY DEF Read
<1>2. ~Credited(s) /\ kind[s] \in {"mtg", "mtorig"} => Total(rules[s], heard) = 0
  <2> SUFFICES ASSUME ~Credited(s), kind[s] \in {"mtg", "mtorig"} PROVE Total(rules[s], heard) = 0
    OBVIOUS
  <2>1. SilentRules(s) /\ rules[s] \in [Families -> Chains]
    BY <1>0 DEF Read, Stopping, QuietInv
  <2> QED
    BY <2>1, TotalOfSilence DEF SilentRules
<1>3. ASSUME NEW r \in Resp PROVE CaptureCredited(r)'
  <2>1. CASE r # s
    <3>1. captured'[r] = captured[r] /\ count'[r] = count[r]
      BY <1>0, <1>1, <2>1
    <3> QED
      BY <3>1, CaptureKept
  <2>2. CASE r = s /\ Credited(s)
    BY <2>2 DEF CreditKept, Credited, Excepted, CaptureCredited
  <2>3. CASE r = s /\ ~Credited(s) /\ kind[s] = "mtg"
    <3> DEFINE c == [taken |-> FALSE, packets |-> Total(rules[s], heard), bytes |-> Auth(s),
                     handshakes |-> IF Auth(s) > 0 THEN 1 ELSE 0]
    <3>1. c.packets = 0
      BY <1>2, <2>3
    <3>2. captured' = [captured EXCEPT ![s] = c]
      BY <1>1, <2>3
    <3> HIDE DEF c
    <3>3. captured'[s].packets = 0
      BY <1>0, <3>1, <3>2
    <3> QED
      BY <2>3, <3>3 DEF CaptureCredited, CreditKept
  <2>4. CASE r = s /\ ~Credited(s) /\ kind[s] = "mtorig"
    <3>1. count'[s] = count[s]
      BY <1>0, <1>1, <1>2, <2>4 DEF Higher
    <3> QED
      BY <2>4, <3>1, CaptureKept
  <2>5. CASE r = s /\ kind[s] \notin {"mtg", "mtorig"}
    BY <2>5 DEF CaptureCredited, CreditKept
  <2> QED
    BY <2>1, <2>2, <2>3, <2>4, <2>5
<1> QED
  BY <1>3 DEF CaptureInv

LEMMA CaptureNext == TypeOK /\ CaptureInv /\ QuietInv /\ [Next]_vars => CaptureInv'
<1> SUFFICES ASSUME TypeOK, CaptureInv, QuietInv, [Next]_vars PROVE CaptureInv'
  OBVIOUS
<1>0. /\ count \in [Resp -> Nat] /\ captured \in [Resp -> Captures]
  BY DEF TypeOK
<1>1. CASE NextRun
  BY <1>1 DEF NextRun, Unread, NothingCaptured, CaptureInv, CaptureCredited
<1>2. CASE UNCHANGED vars
  BY <1>2 DEF vars, hostVars, readVars, trafficVars, creditVars, CaptureInv, CaptureCredited, Credited, Excepted
<1>3. CASE Next /\ ~NextRun
  <2>1. CreditKept
    BY <1>3, CreditGrows
  <2>2. CASE UNCHANGED <<count, captured>>
    BY <2>1, <2>2, CaptureKept DEF CaptureInv
  <2>3. ASSUME NEW s \in Resp, Startup(s) PROVE CaptureInv'
    <3>1. UNCHANGED <<count, captured>>
      BY <2>3 DEF Startup, Spawn, SpawnFails, Install, Skip, readVars
    <3> QED
      BY <2>2, <3>1
  <2>4. ASSUME NEW s \in Resp, Traffic(s) PROVE CaptureInv'
    <3>1. captured' = captured
      BY <2>4, TrafficFrame
    <3>2. \A r \in Resp : kind[r] = "mtorig" => count'[r] = count[r]
      <4>1. CASE Monitor(s)
        BY <1>0, <4>1 DEF Monitor, Monitored
      <4>2. CASE ~Monitor(s)
        BY <2>4, <4>2 DEF Traffic, Handshake, Exchange, Scan, WriteStatus, Latch, ForgetPeer, readVars
      <4> QED
        BY <4>1, <4>2
    <3> QED
      BY <2>1, <3>1, <3>2, CaptureKept DEF CaptureInv
  <2>5. ASSUME NEW s \in Resp, Read(s) PROVE CaptureInv'
    BY <2>1, <2>5, CaptureRead
  <2>6. ASSUME NEW s \in Resp, Removed(s) PROVE CaptureInv'
    <3>1. /\ count' = count
          /\ \A r \in Resp : captured'[r].packets = captured[r].packets
      BY <1>0, <2>6 DEF Removed, Captures
    <3> QED
      BY <2>1, <3>1, CaptureKept DEF CaptureInv
  <2>7. ASSUME NEW s \in Resp,
               Unbind(s) \/ Terminate(s) \/ \E f \in Families : RemoveRule(s, f)
        PROVE  CaptureInv'
    <3>1. UNCHANGED <<count, captured>>
      BY <2>7 DEF Unbind, Terminate, RemoveRule, readVars
    <3> QED
      BY <2>2, <3>1
  <2>8. CASE BeginStop
    <3>1. count' = count /\ \A r \in Resp : kind[r] # "wireguard" => captured'[r] = captured[r]
      BY <2>8 DEF BeginStop
    <3> QED
      BY <2>1, <3>1, CaptureKept DEF CaptureInv
  <2>9. CASE \/ Preflight \/ StartupDone \/ SelfTest \/ AllStopped \/ Deadline
    <3>1. UNCHANGED <<count, captured>>
      BY <2>9 DEF Preflight, StartupDone, SelfTest, AllStopped, Deadline, readVars
    <3> QED
      BY <2>2, <3>1
  <2>10. CASE CommitSnapshots \/ FinalizeResults \/ Exit \/ Crash
    <3>1. UNCHANGED <<count, captured>>
      BY <2>10 DEF CommitSnapshots, FinalizeResults, Exit, Crash, EndOfProcess, readVars
    <3> QED
      BY <2>2, <3>1
  <2> QED
    BY <1>2, <1>3, <2>3, <2>4, <2>5, <2>6, <2>7, <2>8, <2>9, <2>10 DEF Next, Over, Stop
<1> QED
  BY <1>1, <1>2, <1>3

-----------------------------------------------------------------------------
(* The bytes of OpenVPN are authenticated, and those of the others came     *)
(* from the client.                                                         *)
AuthCredited(r) ==
  kind[r] = "openvpn" /\ (bytes[r] > 0 \/ statusFile[r] > 0 \/ latched[r] > 0
                           \/ captured[r].handshakes > 0) => reached[r]

BytesCredited(r) ==
  /\ kind[r] = "socks" /\ bytes[r] = 2 => moved[r]
  /\ kind[r] = "wireguard" /\ (bytes[r] = 2 \/ captured[r].bytes = 2) => moved[r]
  /\ moved[r] => reached[r]

BytesInv == \A r \in Resp : AuthCredited(r) /\ BytesCredited(r)

LEMMA BytesTraffic ==
  ASSUME TypeOK, BytesInv, NEW s \in Resp, Traffic(s)
  PROVE  BytesInv'
<1>0. /\ bytes \in [Resp -> Levels] /\ statusFile \in [Resp -> Levels] /\ latched \in [Resp -> Levels]
      /\ reached \in [Resp -> BOOLEAN] /\ moved \in [Resp -> BOOLEAN]
  BY DEF TypeOK
<1>a. UNCHANGED <<kind, captured>>
  BY TrafficFrame
<1> SUFFICES ASSUME NEW r \in Resp PROVE AuthCredited(r)' /\ BytesCredited(r)'
  BY DEF BytesInv
<1>b. AuthCredited(r) /\ BytesCredited(r)
  BY DEF BytesInv
<1>1. ASSUME NEW f \in Families, Handshake(s, f) PROVE AuthCredited(r)' /\ BytesCredited(r)'
  <2>1. /\ reached'[r] = (reached[r] \/ r = s) /\ moved' = moved /\ statusFile' = statusFile
        /\ latched' = latched
    BY <1>0, <1>1 DEF Handshake, readVars
  <2>2. bytes'[r] = bytes[r] \/ (r = s /\ bytes'[r] = Higher(bytes[r], 1))
    BY <1>0, <1>1 DEF Handshake, Raise
  <2>3. bytes'[r] = 2 => bytes[r] = 2
    BY <2>2 DEF Higher
  <2> QED
    BY <1>a, <1>b, <2>1, <2>2, <2>3 DEF AuthCredited, BytesCredited
<1>2. ASSUME NEW f \in Families, Exchange(s, f) PROVE AuthCredited(r)' /\ BytesCredited(r)'
  <2>1. /\ reached' = reached /\ reached[s] /\ moved'[r] = (moved[r] \/ r = s)
        /\ statusFile' = statusFile /\ latched' = latched
    BY <1>0, <1>2 DEF Exchange, readVars
  <2>2. bytes'[r] = bytes[r] \/ r = s
    BY <1>0, <1>2 DEF Exchange, Raise
  <2> QED
    BY <1>a, <1>b, <2>1, <2>2 DEF AuthCredited, BytesCredited
<1>3. ASSUME NEW f \in Families, Scan(s, f) PROVE AuthCredited(r)' /\ BytesCredited(r)'
  BY <1>a, <1>b, <1>3 DEF Scan, readVars, AuthCredited, BytesCredited
<1>4. CASE Monitor(s)
  BY <1>a, <1>b, <1>4 DEF Monitor, trafficVars, AuthCredited, BytesCredited
<1>5. CASE WriteStatus(s)
  <2>1. UNCHANGED <<bytes, latched, reached, moved>>
    BY <1>5 DEF WriteStatus, readVars
  <2>2. statusFile'[r] = statusFile[r] \/ statusFile'[r] = bytes[r]
    BY <1>0, <1>5 DEF WriteStatus
  <2> QED
    BY <1>a, <1>b, <2>1, <2>2 DEF AuthCredited, BytesCredited
<1>6. CASE Latch(s)
  <2>1. UNCHANGED <<bytes, statusFile, reached, moved>>
    BY <1>6 DEF Latch, daemonVars, trafficVars
  <2>2. latched'[r] = latched[r] \/ latched'[r] = statusFile[r]
    BY <1>0, <1>6 DEF Latch
  <2> QED
    BY <1>a, <1>b, <2>1, <2>2 DEF AuthCredited, BytesCredited
<1>7. CASE ForgetPeer(s)
  <2>1. UNCHANGED <<latched, statusFile, reached, moved>>
    BY <1>7 DEF ForgetPeer, readVars, trafficVars
  <2>2. bytes'[r] = bytes[r] \/ bytes'[r] = 0
    BY <1>0, <1>7 DEF ForgetPeer
  <2> QED
    BY <1>a, <1>b, <2>1, <2>2 DEF AuthCredited, BytesCredited
<1> QED
  BY <1>1, <1>2, <1>3, <1>4, <1>5, <1>6, <1>7 DEF Traffic

LEMMA BytesRead ==
  ASSUME TypeOK, BytesInv, ReadersInv, NEW s \in Resp, Read(s)
  PROVE  BytesInv'
<1>0. /\ captured \in [Resp -> Captures] /\ latched \in [Resp -> Levels]
      /\ statusFile \in [Resp -> Levels]
  BY DEF TypeOK
<1> SUFFICES ASSUME NEW r \in Resp PROVE AuthCredited(r)' /\ BytesCredited(r)'
  BY DEF BytesInv
<1>1. AuthCredited(r) /\ BytesCredited(r)
  BY DEF BytesInv
<1>2. UNCHANGED <<kind, bytes, statusFile, latched, reached, moved>>
  BY DEF Read, hostVars, daemonVars, trafficVars
<1>3. CASE captured'[r] = captured[r]
  BY <1>1, <1>2, <1>3 DEF AuthCredited, BytesCredited
<1>4. CASE captured'[r] # captured[r]
  <2>1. PICK heard : captured' = [captured EXCEPT ![s] =
                   [taken |-> FALSE, packets |-> Total(rules[s], heard), bytes |-> Auth(s),
                    handshakes |-> IF Auth(s) > 0 THEN 1 ELSE 0]]
    BY <1>4 DEF Read
  <2>2. r = s /\ captured'[r].handshakes = (IF Auth(s) > 0 THEN 1 ELSE 0)
    BY <1>0, <1>4, <2>1
  <2>3. kind[r] # "wireguard"
    BY <2>2 DEF Read, Stopping, ReadersInv, CounterKinds
  <2>4. Auth(s) > 0 => latched[s] > 0 \/ statusFile[s] > 0
    BY <1>0 DEF Auth, Higher
  <2> QED
    BY <1>1, <1>2, <2>2, <2>3, <2>4 DEF AuthCredited, BytesCredited
<1> QED
  BY <1>3, <1>4

LEMMA BytesNext == TypeOK /\ BytesInv /\ ReadersInv /\ [Next]_vars => BytesInv'
<1> SUFFICES ASSUME TypeOK, BytesInv, ReadersInv, [Next]_vars PROVE BytesInv'
  OBVIOUS
<1>0. captured \in [Resp -> Captures] /\ bytes \in [Resp -> Levels]
  BY DEF TypeOK
<1> USE DEF BytesInv, AuthCredited, BytesCredited
<1>1. CASE NextRun
  BY <1>1 DEF NextRun, Unread, NothingCaptured
<1>2. CASE UNCHANGED vars
  BY <1>2 DEF vars, hostVars, daemonVars, readVars, trafficVars
<1>3. ASSUME NEW s \in Resp, Startup(s) PROVE BytesInv'
  BY <1>3 DEF Startup, Spawn, SpawnFails, Install, Skip, hostVars, daemonVars, readVars, trafficVars
<1>4. ASSUME NEW s \in Resp, Unbind(s) \/ Terminate(s) \/ \E f \in Families : RemoveRule(s, f)
      PROVE  BytesInv'
  BY <1>4 DEF Unbind, Terminate, RemoveRule, hostVars, daemonVars, readVars, trafficVars
<1>5. ASSUME NEW s \in Resp, Removed(s) PROVE BytesInv'
  <2>1. \A r \in Resp : /\ captured'[r].handshakes = captured[r].handshakes
                        /\ captured'[r].bytes = captured[r].bytes
    BY <1>0, <1>5 DEF Removed, Captures
  <2> QED
    BY <1>5, <2>1 DEF Removed, hostVars, daemonVars, trafficVars
<1>6. CASE BeginStop
  <2>1. UNCHANGED <<kind, bytes, statusFile, latched, reached, moved>>
    BY <1>6 DEF BeginStop, hostVars, daemonVars, trafficVars
  <2>2. \A r \in Resp :
          \/ captured'[r] = captured[r]
          \/ /\ kind[r] = "wireguard"
             /\ captured'[r].bytes = 0 \/ captured'[r].bytes = Shown(r)
    <3>1. PICK deaf :
            captured' = [r \in Resp |->
               IF kind[r] = "wireguard" /\ pc[r] = "up"
               THEN [taken |-> TRUE,
                     handshakes |-> IF (IF r \in deaf THEN 0 ELSE Shown(r)) > 0 THEN 1 ELSE 0,
                     packets |-> 0, bytes |-> IF r \in deaf THEN 0 ELSE Shown(r)]
               ELSE captured[r]]
      BY <1>6 DEF BeginStop
    <3>2. ASSUME NEW r \in Resp, kind[r] = "wireguard", pc[r] = "up"
          PROVE  captured'[r].bytes = (IF r \in deaf THEN 0 ELSE Shown(r))
      BY <3>1, <3>2
    <3>3. ASSUME NEW r \in Resp, ~(kind[r] = "wireguard" /\ pc[r] = "up")
          PROVE  captured'[r] = captured[r]
      BY <3>1, <3>3
    <3> HIDE DEF BytesInv, AuthCredited, BytesCredited
    <3> QED
      BY <3>2, <3>3
  <2>3. \A r \in Resp : Shown(r) = 0 \/ Shown(r) = bytes[r]
    BY DEF Shown
  <2> QED
    BY <2>1, <2>2, <2>3
<1>7. CASE Preflight \/ StartupDone \/ SelfTest \/ AllStopped \/ Deadline
  BY <1>7 DEF Preflight, StartupDone, SelfTest, AllStopped, Deadline, hostVars, daemonVars, readVars,
              trafficVars
<1>8. CASE CommitSnapshots \/ FinalizeResults \/ Exit \/ Crash
  BY <1>8 DEF CommitSnapshots, FinalizeResults, Exit, Crash, EndOfProcess, hostVars, daemonVars,
              readVars, trafficVars
<1> QED
  BY <1>1, <1>2, <1>3, <1>4, <1>5, <1>6, <1>7, <1>8, BytesTraffic, BytesRead DEF Next, Over, Stop

-----------------------------------------------------------------------------
(* The report.                                                              *)
ReportCredited(r) ==
  report[r] = "OK" =>
    ~CountersAvailable(r) \/ Excepted(r) \/ Earned(r)

ReportInv ==
  /\ phase \notin {"done", "down"} => \A r \in Resp : report[r] = NoReport
  /\ \A r \in Resp : ReportCredited(r)

LEMMA ReportFinalize ==
  ASSUME TypeOK, CaptureInv, BytesInv, FinalizeResults
  PROVE  ReportInv'
<1> SUFFICES ASSUME NEW r \in Resp, report'[r] = "OK"
             PROVE  ~CountersAvailable(r) \/ Excepted(r) \/ Earned(r)
  BY DEF FinalizeResults, hostVars, trafficVars, creditVars, ReportInv, ReportCredited,
         CountersAvailable, Earned, Excepted
<1>1. Finalize(HandshakeSeen(r), DataTransferOk(r), CountersAvailable(r), CapAt(r)) = "OK"
  BY DEF FinalizeResults, NoReport
<1>2. DataTransferOk(r) \/ ~CountersAvailable(r)
  <2>1. CapAt(r) \in {NoCap, "HANDSHAKE_ONLY"}
    BY DEF CapAt
  <2> QED
    BY <1>1, <2>1 DEF Finalize, Derived
<1>3. CASE DataTransferOk(r)
  <2>0. /\ captured[r] \in Captures /\ latched[r] \in Levels /\ statusFile[r] \in Levels
        /\ count[r] \in Nat
    BY DEF TypeOK
  <2>1. CaptureCredited(r) /\ AuthCredited(r) /\ BytesCredited(r)
    BY DEF CaptureInv, BytesInv
  <2>2. CASE kind[r] \in {"socks", "wireguard"}
    BY <1>3, <2>1, <2>2 DEF DataTransferOk, BytesCredited, Earned
  <2>3. CASE kind[r] \in {"mtg", "mtorig"}
    BY <1>3, <2>1, <2>3 DEF DataTransferOk, CaptureCredited, Credited, Excepted, Earned
  <2>4. CASE kind[r] = "openvpn"
    <3>1. CASE captured[r].taken
      BY <1>3, <2>1, <2>4, <3>1 DEF DataTransferOk, OpenVPNData, AuthCredited, Earned
    <3>2. CASE ~captured[r].taken
      BY <1>3, <2>0, <2>1, <2>4, <3>2 DEF DataTransferOk, AuthCredited, Earned
    <3> QED
      BY <3>1, <3>2
  <2> QED
    BY <2>2, <2>3, <2>4, KindsOf DEF Kinds
<1> QED
  BY <1>2, <1>3

LEMMA ReportNext == TypeOK /\ CaptureInv /\ BytesInv /\ ReportInv /\ [Next]_vars => ReportInv'
<1> SUFFICES ASSUME TypeOK, CaptureInv, BytesInv, ReportInv, [Next]_vars PROVE ReportInv'
  OBVIOUS
<1>1. CASE NextRun
  BY <1>1 DEF NextRun, NoReport, ReportInv, ReportCredited
<1>2. CASE UNCHANGED vars
  BY <1>2 DEF vars, hostVars, runVars, outVars, trafficVars, creditVars, ReportInv, ReportCredited,
              CountersAvailable, Earned, Excepted
<1>3. CASE Preflight
  BY <1>3 DEF Preflight, outVars, NoReport, ReportInv, ReportCredited
<1>4. CASE Next /\ ~NextRun /\ ~Preflight /\ ~FinalizeResults
  <2>1. CreditKept
    BY <1>4, CreditGrows
  <2>2. /\ UNCHANGED <<report, countersOk>>
        /\ phase' \in {"done", "down"} \/ phase \notin {"done", "down"}
    <3>1. ASSUME NEW s \in Resp, Startup(s)
          PROVE  /\ UNCHANGED <<report, countersOk>> /\ phase = "starting"
      <4>1. UNCHANGED <<report, countersOk>>
        BY <3>1 DEF Startup, Spawn, SpawnFails, Install, Skip, runVars, outVars
      <4> QED
        BY <3>1, <4>1, StartupFrame
    <3>2. ASSUME NEW s \in Resp, Traffic(s)
          PROVE  /\ UNCHANGED <<report, countersOk, phase>>
      BY <3>2, TrafficFrame
    <3>3. ASSUME NEW s \in Resp, Stop(s)
          PROVE  /\ UNCHANGED <<report, countersOk>> /\ phase = "stopping"
      <4>1. UNCHANGED <<report, countersOk>>
        BY <3>3 DEF Stop, Unbind, Read, Removed, Terminate, RemoveRule, runVars, outVars
      <4> QED
        BY <3>3, <4>1, StopFrame
    <3>4. CASE StartupDone \/ SelfTest \/ BeginStop \/ AllStopped \/ Deadline \/ CommitSnapshots
      BY <3>4 DEF StartupDone, SelfTest, BeginStop, AllStopped, Deadline, CommitSnapshots, outVars
    <3>5. CASE Exit \/ Crash
      BY <3>5 DEF Exit, Crash, EndOfProcess, outVars
    <3>6. CASE Over
      BY <3>6 DEF Over, vars, runVars, outVars
    <3> QED
      BY <1>4, <3>1, <3>2, <3>3, <3>4, <3>5, <3>6 DEF Next
  <2>3. \A r \in Resp : ReportCredited(r)'
    BY <2>1, <2>2 DEF CreditKept, ReportInv, ReportCredited, CountersAvailable, Earned
  <2>4. phase' \notin {"done", "down"} => \A r \in Resp : report'[r] = NoReport
    BY <2>2 DEF ReportInv
  <2> QED
    BY <2>3, <2>4 DEF ReportInv
<1> QED
  BY <1>1, <1>2, <1>3, <1>4, ReportFinalize

CreditInv == ReadersInv /\ QuietInv /\ CaptureInv /\ BytesInv /\ ReportInv

LEMMA CreditInit == Init => CreditInv
<1> SUFFICES ASSUME Init PROVE CreditInv
  OBVIOUS
<1>1. ReadersInv /\ QuietInv
  BY DEF Init, ReadersInv, QuietInv
<1>2. CaptureInv
  BY DEF Init, Unread, NothingCaptured, CaptureInv, CaptureCredited
<1>3. BytesInv
  BY DEF Init, Unread, NothingCaptured, BytesInv, AuthCredited, BytesCredited
<1>4. ReportInv
  BY DEF Init, NoReport, ReportInv, ReportCredited
<1> QED
  BY <1>1, <1>2, <1>3, <1>4 DEF CreditInv

(* The inductive invariant of the counters: a rule is silent, and a reading *)
(* is zero, until the client or one of the exceptions gave cause.           *)
THEOREM CreditInvAlways == Spec => []CreditInv
<1>1. CreditInv /\ TypeOK /\ [Next]_vars => CreditInv'
  BY ReadersNext, QuietNext, CaptureNext, BytesNext, ReportNext DEF CreditInv
<1> QED
  BY <1>1, CreditInit, TypeOKAlways, PTL DEF Spec

(* No report says OK of a responder that nobody reached, exceptions aside.  *)
THEOREM OkIsEarnedAlways == Spec => []OkIsEarned
<1>1. CreditInv => OkIsEarned
  BY DEF CreditInv, ReportInv, ReportCredited, OkIsEarned
<1> QED
  BY <1>1, CreditInvAlways, PTL

-----------------------------------------------------------------------------
(* The two readings.  OpenVPN's snapshot of itself is taken when it stops.  *)
TakenInv ==
  \A r \in Resp : kind[r] = "openvpn" /\ pc[r] \in {"terminate", "stopped"} => captured[r].taken

LEMMA TakenNext == TypeOK /\ HoldingsInv /\ TakenInv /\ [Next]_vars => TakenInv'
<1> SUFFICES ASSUME TypeOK, HoldingsInv, TakenInv, [Next]_vars PROVE TakenInv'
  OBVIOUS
<1>0. pc \in [Resp -> Pcs] /\ captured \in [Resp -> Captures]
  BY DEF TypeOK
<1>1. ASSUME NEW s \in Resp, Startup(s) PROVE TakenInv'
  BY <1>0, <1>1 DEF Startup, Spawn, SpawnFails, Install, Skip, hostVars, readVars, TakenInv
<1>2. ASSUME NEW s \in Resp, Traffic(s) PROVE TakenInv'
  BY <1>2, TrafficFrame DEF TakenInv
<1>3. ASSUME NEW s \in Resp, Unbind(s) PROVE TakenInv'
  BY <1>0, <1>3 DEF Unbind, hostVars, readVars, TakenInv
<1>4. ASSUME NEW s \in Resp, Read(s) PROVE TakenInv'
  <2>1. \A r \in Resp \ {s} : captured'[r] = captured[r] /\ pc'[r] = pc[r]
    BY <1>0, <1>4 DEF Read
  <2>2. pc'[s] = "remove" /\ kind' = kind
    BY <1>0, <1>4 DEF Read, hostVars
  <2> QED
    BY <2>1, <2>2 DEF TakenInv
<1>5. ASSUME NEW s \in Resp, Removed(s) PROVE TakenInv'
  <2>1. \A r \in Resp \ {s} : captured'[r] = captured[r] /\ pc'[r] = pc[r]
    BY <1>0, <1>5 DEF Removed
  <2>2. captured'[s].taken = Sealed(s) /\ kind' = kind
    BY <1>0, <1>5 DEF Removed, Captures, hostVars
  <2> QED
    BY <2>1, <2>2 DEF TakenInv, Sealed
<1>6. ASSUME NEW s \in Resp, Terminate(s) \/ \E f \in Families : RemoveRule(s, f)
      PROVE  TakenInv'
  BY <1>0, <1>6 DEF Terminate, RemoveRule, Stopping, readVars, TakenInv
<1>7. CASE BeginStop
  <2>1. \A r \in Resp : kind[r] = "openvpn" => captured'[r] = captured[r]
    BY <1>7 DEF BeginStop
  <2>2. \A r \in Resp : kind[r] = "openvpn" /\ pc'[r] \in {"terminate", "stopped"} =>
                          pc[r] \in {"terminate", "stopped"}
    BY <1>7 DEF BeginStop, FirstStep, TunKinds, HoldingsInv, Interfaces
  <2>3. kind' = kind
    BY <1>7 DEF BeginStop, hostVars
  <2> QED
    BY <2>1, <2>2, <2>3 DEF TakenInv
<1>8. CASE Deadline \/ NextRun
  BY <1>0, <1>8 DEF Deadline, NextRun, readVars, TakenInv
<1>9. CASE Preflight \/ StartupDone \/ SelfTest \/ AllStopped \/ CommitSnapshots \/ FinalizeResults
  BY <1>9 DEF Preflight, StartupDone, SelfTest, AllStopped, CommitSnapshots, FinalizeResults,
              hostVars, readVars, TakenInv
<1>10. CASE Exit \/ Crash \/ UNCHANGED vars
  BY <1>10 DEF Exit, Crash, EndOfProcess, vars, hostVars, readVars, TakenInv
<1> QED
  BY <1>1, <1>2, <1>3, <1>4, <1>5, <1>6, <1>7, <1>8, <1>9, <1>10 DEF Next, Over, Stop

(* What a stopped responder would read no longer changes.                   *)
ReadingKept(r) ==
  UNCHANGED <<kind[r], captured[r], count[r], bytes[r], statusFile[r], latched[r]>>

LEMMA StoppedIsStill ==
  ASSUME TypeOK, NEW s \in Resp, Traffic(s), NEW r \in Resp, pc[r] = "stopped"
  PROVE  ReadingKept(r)
<1>0. /\ bytes \in [Resp -> Levels] /\ statusFile \in [Resp -> Levels] /\ latched \in [Resp -> Levels]
      /\ count \in [Resp -> Nat]
  BY DEF TypeOK
<1>1. UNCHANGED <<kind, captured>>
  BY TrafficFrame
<1>2. ASSUME NEW f \in Families, Handshake(s, f) PROVE ReadingKept(r)
  BY <1>0, <1>1, <1>2 DEF Handshake, Alive, Raise, readVars, ReadingKept
<1>3. ASSUME NEW f \in Families, Exchange(s, f) PROVE ReadingKept(r)
  BY <1>0, <1>1, <1>3 DEF Exchange, Alive, Raise, readVars, ReadingKept
<1>4. ASSUME NEW f \in Families, Scan(s, f) PROVE ReadingKept(r)
  BY <1>1, <1>4 DEF Scan, readVars, ReadingKept
<1>5. CASE Monitor(s)
  BY <1>0, <1>1, <1>5 DEF Monitor, Monitored, ReadingKept
<1>6. CASE WriteStatus(s)
  BY <1>0, <1>1, <1>6 DEF WriteStatus, Alive, readVars, ReadingKept
<1>7. CASE Latch(s)
  BY <1>0, <1>1, <1>7 DEF Latch, daemonVars, ReadingKept
<1>8. CASE ForgetPeer(s)
  BY <1>0, <1>1, <1>8 DEF ForgetPeer, Alive, readVars, ReadingKept
<1> QED
  BY <1>2, <1>3, <1>4, <1>5, <1>6, <1>7, <1>8 DEF Traffic

LEMMA SameReading ==
  ASSUME NEW r \in Resp, ReadingKept(r)
  PROVE  HandshakeSeen(r)' = HandshakeSeen(r) /\ DataTransferOk(r)' = DataTransferOk(r)
<1>1. Auth(r)' = Auth(r)
  BY DEF ReadingKept, Auth
<1> QED
  BY <1>1 DEF ReadingKept, HandshakeSeen, DataTransferOk

Reading(r) == [handshook |-> HandshakeSeen(r), dataOk |-> DataTransferOk(r)]

SnapshotRead(r) ==
  phase \in {"draining", "done"} /\ pc[r] = "stopped" => snapshot[r] = Reading(r)

ReportRead(r) ==
  phase = "done" => /\ report[r] # NoReport => Started(r)
                    /\ pc[r] = "stopped" => report[r] = ListenerVerdict(r)

ReadingInv == \A r \in Resp : SnapshotRead(r) /\ ReportRead(r)

LEMMA ReadingNext == TypeOK /\ CourseInv /\ TakenInv /\ ReadingInv /\ [Next]_vars => ReadingInv'
<1> SUFFICES ASSUME TypeOK, CourseInv, TakenInv, ReadingInv, [Next]_vars,
                    phase' \in {"draining", "done"}, NEW r \in Resp
             PROVE  (SnapshotRead(r) /\ ReportRead(r))'
  BY DEF ReadingInv, SnapshotRead, ReportRead
<1>1. CASE CommitSnapshots
  <2>1. pc' = pc /\ phase' = "draining" /\ (pc[r] = "stopped" => snapshot'[r] = LiveSnapshot(r))
    BY <1>1 DEF CommitSnapshots, Started
  <2>2. pc[r] = "stopped" => LiveSnapshot(r) = Reading(r)
    <3> SUFFICES ASSUME pc[r] = "stopped" PROVE LiveSnapshot(r) = Reading(r)
      OBVIOUS
    <3>1. kind[r] = "openvpn" => captured[r].taken
      BY DEF TakenInv
    <3> QED
      BY <3>1 DEF LiveSnapshot, Reading
  <2>3. ReadingKept(r)
    BY <1>1 DEF CommitSnapshots, hostVars, daemonVars, readVars, ReadingKept
  <2>4. Reading(r)' = Reading(r)
    BY <2>3, SameReading DEF Reading
  <2> QED
    BY <2>1, <2>2, <2>4 DEF SnapshotRead, ReportRead
<1>2. CASE FinalizeResults
  <2>1. phase = "draining" /\ UNCHANGED <<pc, snapshot>>
    BY <1>2 DEF FinalizeResults
  <2>2. ReadingKept(r) /\ UNCHANGED <<countersOk, dcOk>>
    BY <1>2 DEF FinalizeResults, hostVars, daemonVars, readVars, ReadingKept
  <2>3. Reading(r)' = Reading(r)
    BY <2>2, SameReading DEF Reading
  <2>4. SnapshotRead(r)'
    BY <2>1, <2>3 DEF ReadingInv, SnapshotRead
  <2>5. report'[r] # NoReport => Started(r)'
    BY <1>2, <2>1 DEF FinalizeResults, Started
  <2>6. pc[r] = "stopped" => report'[r] = ListenerVerdict(r)'
    <3> SUFFICES ASSUME pc[r] = "stopped" PROVE report'[r] = ListenerVerdict(r)'
      OBVIOUS
    <3>1. /\ snapshot[r].handshook = HandshakeSeen(r) /\ snapshot[r].dataOk = DataTransferOk(r)
      <4>1. snapshot[r] = Reading(r)
        BY <2>1 DEF ReadingInv, SnapshotRead
      <4> QED
        BY <4>1 DEF Reading
    <3>2. report'[r] = Finalize(HandshakeSeen(r), DataTransferOk(r), CountersAvailable(r), CapAt(r))
      BY <1>2 DEF FinalizeResults, Started
    <3>3. /\ CountersAvailable(r)' = CountersAvailable(r) /\ CapAt(r)' = CapAt(r)
          /\ snapshot'[r] = snapshot[r]
      BY <2>1, <2>2 DEF CountersAvailable, CapAt, ReadingKept
    <3> QED
      BY <3>1, <3>2, <3>3 DEF ListenerVerdict
  <2> QED
    BY <2>1, <2>4, <2>5, <2>6 DEF ReportRead
<1>3. CASE (\E s \in Resp : Traffic(s)) \/ UNCHANGED vars
  <2>1. UNCHANGED <<phase, pc, countersOk, dcOk, kind, snapshot, report>>
    BY <1>3, TrafficFrame DEF vars, hostVars, runVars, outVars
  <2>2. pc[r] = "stopped" => ReadingKept(r)
    BY <1>3, StoppedIsStill DEF vars, hostVars, daemonVars, readVars, ReadingKept
  <2>3. pc[r] = "stopped" => Reading(r)' = Reading(r)
    BY <2>2, SameReading DEF Reading
  <2>4. ListenerVerdict(r)' = ListenerVerdict(r) /\ Started(r)' = Started(r)
    BY <2>1 DEF ListenerVerdict, CountersAvailable, CapAt, Started
  <2> QED
    BY <2>1, <2>3, <2>4 DEF ReadingInv, SnapshotRead, ReportRead
<1>4. ASSUME NEW s \in Resp PROVE ~Startup(s) /\ ~Stop(s)
  BY StartupFrame, StopFrame
<1>5. ~(Preflight \/ StartupDone \/ SelfTest \/ BeginStop \/ AllStopped \/ Deadline)
  BY DEF Preflight, StartupDone, SelfTest, BeginStop, AllStopped, Deadline
<1>6. ~(Exit \/ Crash \/ NextRun)
  BY DEF Exit, Crash, NextRun, EndOfProcess
<1> QED
  BY <1>1, <1>2, <1>3, <1>4, <1>5, <1>6 DEF Next, Over

(* The client's cross-verification and the report agree on every responder  *)
(* that finished its stop().                                                *)
THEOREM SnapshotIsReportAlways == Spec => []SnapshotIsReport
<1>1. Init => TakenInv /\ ReadingInv
  BY DEF Init, TakenInv, ReadingInv, SnapshotRead, ReportRead
<1>2. TypeOK /\ HostInv /\ TakenInv /\ ReadingInv /\ [Next]_vars => (TakenInv /\ ReadingInv)'
  BY TakenNext, ReadingNext DEF HostInv
<1>3. ReadingInv => SnapshotIsReport
  BY DEF ReadingInv, ReportRead, SnapshotIsReport, Reported, Whole, Started
<1> QED
  BY <1>1, <1>2, <1>3, TypeOKAlways, HostInvAlways, PTL DEF Spec

-----------------------------------------------------------------------------
(* An exchange is not forgotten.  It needs a responder that is up; while no *)
(* command has failed its rule is there to count it, and what counts is     *)
(* kept until stop() has read it.                                           *)
Trusted(r) == ~faulted /\ (kind[r] \in CounterKinds => permitted)
Needed(r) == IF kind[r] = "openvpn" THEN MinDataPackets ELSE 1
Holds(chains, n) == \E f \in Families : \E i \in 1..Len(chains[f]) : chains[f][i] >= n
Listened(r) ==
  kind[r] \in CounterKinds /\ Trusted(r) /\ pc[r] \in {"installed", "up", "unbind", "read"}

RulePresent(r) == Listened(r) => \A f \in Families : rules[r][f] # <<>>
RuleTicked(r) == Listened(r) /\ settled[r] # "no" => Holds(rules[r], Needed(r))
WatchInv == \A r \in Resp : RulePresent(r) /\ RuleTicked(r)

Unsettled(r) == pc[r] \in {"off", "spawned", "installed", "skipped", "failed"} => settled[r] = "no"
AuthSettled(r) ==
  kind[r] = "openvpn" =>
    /\ settled[r] # "no" => bytes[r] > 0 \/ latched[r] > 0
    /\ settled[r] = "yes" => statusFile[r] > 0 \/ latched[r] > 0
BytesSettled(r) == kind[r] \in {"socks", "wireguard"} /\ settled[r] # "no" => bytes[r] = 2
Linked(r) == kind[r] = "wireguard" /\ pc[r] = "up" => iface[r]
DaemonInv == \A r \in Resp : Unsettled(r) /\ AuthSettled(r) /\ BytesSettled(r) /\ Linked(r)

AfterRead == {"remove", "terminate", "stopped"}
Caught(r) ==
  Trusted(r) /\ settled[r] = "yes" =>
    /\ kind[r] = "mtg" /\ pc[r] \in AfterRead => captured[r].packets > 0
    /\ kind[r] = "mtorig" /\ pc[r] \in AfterRead => count[r] > 0
    /\ kind[r] = "openvpn" /\ pc[r] \in AfterRead =>
         captured[r].handshakes > 0 /\ captured[r].packets = 2
    /\ kind[r] = "wireguard" /\ pc[r] \in AfterRead \cup {"unbind", "read"} =>
         captured[r].bytes = 2
CaughtInv == \A r \in Resp : Caught(r)

SettledReport(r) ==
  phase = "done" /\ report[r] # NoReport /\ Whole(r) /\ Trusted(r) /\ settled[r] = "yes" =>
    report[r] = Finalize(TRUE, TRUE, TRUE, CapAt(r))
SettledReportInv == \A r \in Resp : SettledReport(r)
(* A tick raises every counter of its family, and to the packets at least.  *)
LEMMA TickRaises ==
  ASSUME NEW chain \in Chains, NEW n \in Counts, NEW i \in 1..Len(chain)
  PROVE  Tick(chain, n)[i] >= chain[i] /\ Tick(chain, n)[i] >= n
<1>1. DOMAIN chain = 1..Len(chain)
  BY LenProperties DEF Chains
<1>2. chain[i] \in 0..2 /\ n \in 0..2
  BY ElementOfSeq DEF Chains, Counts
<1>3. Tick(chain, n)[i] = IF chain[i] + n > 2 THEN 2 ELSE chain[i] + n
  BY <1>1 DEF Tick
<1> QED
  BY <1>2, <1>3

LEMMA TickHolds ==
  ASSUME NEW chains \in [Families -> Chains], NEW f \in Families, NEW n \in Counts, NEW m \in Nat,
         NEW ticked, ticked = [chains EXCEPT ![f] = Tick(chains[f], n)]
  PROVE  /\ Holds(chains, m) => Holds(ticked, m)
         /\ chains[f] # <<>> /\ n >= m => Holds(ticked, m)
         /\ \A g \in Families : chains[g] # <<>> => ticked[g] # <<>>
<1>1. /\ chains[f] \in Chains /\ Len(chains[f]) \in Nat
      /\ Tick(chains[f], n) \in Chains /\ Len(Tick(chains[f], n)) = Len(chains[f])
  BY TickChain, LenProperties DEF Chains
<1>2. /\ ticked[f] = Tick(chains[f], n)
      /\ \A g \in Families \ {f} : ticked[g] = chains[g]
  OBVIOUS
<1>3. ASSUME Holds(chains, m) PROVE Holds(ticked, m)
  <2>1. PICK g \in Families : \E i \in 1..Len(chains[g]) : chains[g][i] >= m
    BY <1>3 DEF Holds
  <2>2. PICK i \in 1..Len(chains[g]) : chains[g][i] >= m
    BY <2>1
  <2>3. CASE g = f
    <3>1. chains[f][i] \in 0..2 /\ Tick(chains[f], n)[i] \in 0..2
      BY <1>1, <2>2, <2>3, ElementOfSeq DEF Chains, Counts
    <3>2. Tick(chains[f], n)[i] >= chains[f][i]
      BY <1>1, <2>2, <2>3, TickRaises
    <3>3. ticked[f][i] >= m /\ i \in 1..Len(ticked[f])
      BY <1>1, <1>2, <2>2, <2>3, <3>1, <3>2
    <3> QED
      BY <3>3 DEF Holds
  <2>4. CASE g # f
    BY <1>2, <2>2, <2>4 DEF Holds
  <2> QED
    BY <2>3, <2>4
<1>4. ASSUME chains[f] # <<>>, n >= m PROVE Holds(ticked, m)
  <2>1. 1 \in 1..Len(chains[f])
    BY <1>1, <1>4, EmptySeq DEF Chains
  <2>2. Tick(chains[f], n)[1] \in 0..2 /\ n \in 0..2
    BY <1>1, <2>1, ElementOfSeq DEF Chains, Counts
  <2>3. Tick(chains[f], n)[1] >= n
    BY <1>1, <2>1, TickRaises
  <2>4. ticked[f][1] >= m /\ 1 \in 1..Len(ticked[f])
    BY <1>1, <1>2, <1>4, <2>1, <2>2, <2>3
  <2> QED
    BY <2>4 DEF Holds
<1>5. chains[f] # <<>> => ticked[f] # <<>>
  BY <1>1, <1>2, EmptySeq DEF Chains
<1> QED
  BY <1>2, <1>3, <1>4, <1>5

(* Heard in every family, a counter shows in the sum.                       *)
LEMMA TotalHolds ==
  ASSUME NEW chains \in [Families -> Chains]
  PROVE  /\ Holds(chains, 1) => Total(chains, Families) > 0
         /\ Holds(chains, 2) => Total(chains, Families) = 2
<1> DEFINE ticked == {p \in UNION {{f} \X DOMAIN chains[f] : f \in Families} : chains[p[1]][p[2]] > 0}
<1>1. ASSUME NEW n \in {1, 2}, Holds(chains, n)
      PROVE  \E p \in ticked : chains[p[1]][p[2]] >= n
  <2>1. PICK f \in Families : \E i \in 1..Len(chains[f]) : chains[f][i] >= n
    BY <1>1 DEF Holds
  <2>2. PICK i \in 1..Len(chains[f]) : chains[f][i] >= n
    BY <2>1
  <2>3. i \in DOMAIN chains[f]
    BY <2>2, LenProperties DEF Chains
  <2>4. <<f, i>> \in UNION {{g} \X DOMAIN chains[g] : g \in Families}
    BY <2>3
  <2>5. chains[f][i] \in 0..2
    BY <2>2, ElementOfSeq DEF Chains, Counts
  <2> QED
    BY <2>2, <2>4, <2>5
<1>2. ASSUME NEW p \in ticked PROVE chains[p[1]][p[2]] \in 0..2
  <2>1. PICK f \in Families : p \in {f} \X DOMAIN chains[f]
    OBVIOUS
  <2>2. p[1] = f /\ p[2] \in DOMAIN chains[f]
    BY <2>1
  <2>3. p[2] \in 1..Len(chains[f])
    BY <2>2, LenProperties DEF Chains
  <2> QED
    BY <2>2, <2>3, ElementOfSeq DEF Chains, Counts
<1>3. Total(chains, Families) =
        IF ticked = {} THEN 0
        ELSE IF \E p \in ticked : chains[p[1]][p[2]] = 2 \/ ticked # {p} THEN 2 ELSE 1
  BY DEF Total
<1> HIDE DEF ticked
<1>4. Holds(chains, 1) => ticked # {}
  BY <1>1
<1>5. Holds(chains, 2) => \E p \in ticked : chains[p[1]][p[2]] = 2
  BY <1>1, <1>2
<1> QED
  BY <1>3, <1>4, <1>5

LEMMA InstallPresent ==
  ASSUME NEW chain \in Chains, NEW late \in BOOLEAN, ~late,
         NEW out \in InstallOutcomes(chain, TRUE, late)
  PROVE  out[1] # <<>>
<1>1. out = <<IF chain = <<>> THEN <<0>> ELSE chain, TRUE>>
  BY DEF InstallOutcomes
<1>2. out[1] = IF chain = <<>> THEN <<0>> ELSE chain
  BY <1>1
<1>3. Len(<<0>>) = 1 /\ Len(<<>>) = 0
  OBVIOUS
<1> QED
  BY <1>2, <1>3

-----------------------------------------------------------------------------
(* What a step may do to the rules that count an exchange.                  *)
Watched(r) == RulePresent(r) /\ RuleTicked(r)

LEMMA WatchKept ==
  ASSUME WatchInv, NEW r \in Resp, rules'[r] = rules[r], kind' = kind,
         Listened(r)' => Listened(r), settled'[r] = settled[r]
  PROVE  Watched(r)'
<1>1. RulePresent(r) /\ RuleTicked(r)
  BY DEF WatchInv
<1>2. Needed(r)' = Needed(r)
  BY DEF Needed
<1> QED
  BY <1>1, <1>2 DEF Watched, RulePresent, RuleTicked, Holds

LEMMA WatchStartup ==
  ASSUME TypeOK, WatchInv, DaemonInv, NEW s \in Resp, Startup(s)
  PROVE  WatchInv'
<1>0. /\ rules \in [Resp -> [Families -> Chains]] /\ pc \in [Resp -> Pcs]
      /\ permitted \in BOOLEAN
  BY DEF TypeOK
<1>1. UNCHANGED <<kind, permitted, settled>>
  BY DEF Startup, Spawn, SpawnFails, Install, Skip, hostVars, trafficVars
<1>2. ~faulted' => ~faulted
  BY FaultSticks DEF Startup, Spawn, SpawnFails, Install, Skip, faultVars
<1> SUFFICES ASSUME NEW r \in Resp PROVE Watched(r)'
  BY DEF WatchInv, Watched
<1>3. CASE r # s
  <2>1. rules'[r] = rules[r] /\ pc'[r] = pc[r]
    BY <1>0, <1>3 DEF Startup, Spawn, SpawnFails, Install, Skip, hostVars
  <2> QED
    BY <1>1, <1>2, <2>1, WatchKept DEF Listened, Trusted
<1>4. CASE r = s /\ Spawn(s)
  <2>1. rules' = rules /\ (pc'[r] = "up" /\ kind[r] # "wireguard" => pc[r] = "installed")
          /\ pc'[r] \in {"up", "spawned"}
    BY <1>0, <1>4 DEF Spawn, SpawnedFrom
  <2>2. Listened(r)' => Listened(r)
    BY <1>1, <1>2, <2>1 DEF Listened, Trusted, CounterKinds
  <2> QED
    BY <1>1, <2>1, <2>2, WatchKept
<1>5. CASE r = s /\ (SpawnFails(s) \/ Skip(s))
  <2>1. pc'[r] \in {"failed", "skipped"}
    BY <1>0, <1>5 DEF SpawnFails, Skip
  <2> QED
    BY <2>1 DEF Watched, RulePresent, RuleTicked, Listened
<1>6. CASE r = s /\ Install(s)
  <2>1. PICK failing, out :
          /\ \A f \in Families : out[f] \in InstallOutcomes(rules[s][f], permitted, f \in failing)
          /\ rules' = [rules EXCEPT ![s] = [f \in Families |-> out[f][1]]]
          /\ installed' = [installed EXCEPT ![s] = {f \in Families : out[f][2]}]
          /\ FaultIf(failing # {})
    BY <1>6, InstallPick
  <2>2. settled'[r] = "no"
    <3>1. pc[r] \in {"off", "spawned"}
      BY <1>6 DEF Install
    <3> QED
      BY <1>1, <3>1 DEF DaemonInv, Unsettled
  <2>3. ASSUME Listened(r)', NEW f \in Families PROVE rules'[r][f] # <<>>
    <3>1. failing = {} /\ permitted = TRUE
      BY <1>0, <1>1, <2>1, <2>3, FaultSticks DEF Listened, Trusted
    <3> DEFINE late == f \in failing
    <3>2. out[f] \in InstallOutcomes(rules[s][f], TRUE, late)
      BY <2>1, <3>1
    <3>3. late \in BOOLEAN /\ ~late /\ rules[s][f] \in Chains
      BY <1>0, <3>1
    <3> HIDE DEF late
    <3>4. out[f][1] # <<>>
      BY <3>2, <3>3, InstallPresent
    <3> QED
      BY <1>0, <1>6, <2>1, <3>4
  <2> QED
    BY <2>2, <2>3 DEF Watched, RulePresent, RuleTicked
<1> QED
  BY <1>3, <1>4, <1>5, <1>6 DEF Startup

(* A step that ticks a family of a responder's rules or none, and settles   *)
(* nothing that it does not tick.                                           *)
LEMMA WatchTicked ==
  ASSUME TypeOK, WatchInv, NEW r \in Resp, NEW f \in Families, NEW n \in Counts,
         rules'[r] = [rules[r] EXCEPT ![f] = Tick(rules[r][f], n)],
         kind' = kind, Listened(r)' => Listened(r),
         settled'[r] = settled[r] \/ n >= Needed(r)
  PROVE  Watched(r)'
<1>0. rules[r] \in [Families -> Chains]
  BY DEF TypeOK
<1>1. RulePresent(r) /\ RuleTicked(r)
  BY DEF WatchInv
<1>2. Needed(r)' = Needed(r) /\ Needed(r) \in Nat
  BY DEF Needed, MinDataPackets
<1>3. /\ Holds(rules[r], Needed(r)) => Holds(rules'[r], Needed(r))
      /\ rules[r][f] # <<>> /\ n >= Needed(r) => Holds(rules'[r], Needed(r))
      /\ \A g \in Families : rules[r][g] # <<>> => rules'[r][g] # <<>>
  BY <1>0, <1>2, TickHolds
<1> QED
  BY <1>1, <1>2, <1>3 DEF Watched, RulePresent, RuleTicked

LEMMA WatchTraffic ==
  ASSUME TypeOK, WatchInv, NEW s \in Resp, Traffic(s)
  PROVE  WatchInv'
<1>0. /\ rules \in [Resp -> [Families -> Chains]]
      /\ settled \in [Resp -> {"no", "unwritten", "yes"}]
  BY DEF TypeOK
<1>1. UNCHANGED <<kind, permitted, pc, faulted>>
  BY TrafficFrame
<1> SUFFICES ASSUME NEW r \in Resp PROVE Watched(r)'
  BY DEF WatchInv, Watched
<1>2. Listened(r)' <=> Listened(r)
  BY <1>1 DEF Listened, Trusted
<1>3. CASE ~Listened(r)
  BY <1>2, <1>3 DEF Watched, RulePresent, RuleTicked
<1>4. ASSUME NEW f \in Families, Exchange(s, f), r = s, Listened(r) PROVE Watched(r)'
  <2>1. rules' = Ticked(s, f, Needed(s))
    BY <1>4 DEF Exchange, Listened, Needed
  <2>2. Needed(s) \in Counts /\ Needed(s) >= Needed(s)
    BY DEF Needed, MinDataPackets, Counts
  <2>3. rules'[r] = [rules[r] EXCEPT ![f] = Tick(rules[r][f], Needed(s))]
    BY <1>0, <1>4, <2>1 DEF Ticked
  <2> QED
    BY <1>1, <1>2, <1>4, <2>2, <2>3, WatchTicked
<1>5. CASE ~(r = s /\ \E f \in Families : Exchange(s, f)) /\ ~WriteStatus(s)
  <2>1. settled'[r] = settled[r]
    BY <1>0, <1>5 DEF Traffic, Handshake, Exchange, Scan, Monitor, WriteStatus, Latch, ForgetPeer, trafficVars
  <2>2. CASE rules'[r] = rules[r]
    BY <1>1, <1>2, <2>1, <2>2, WatchKept
  <2>3. CASE rules'[r] # rules[r]
    <3>1. PICK f \in Families, n \in Counts : rules' = Ticked(s, f, n)
      BY <2>3, TrafficTicks
    <3>2. r = s /\ rules'[r] = [rules[r] EXCEPT ![f] = Tick(rules[r][f], n)]
      BY <1>0, <2>3, <3>1 DEF Ticked
    <3> QED
      BY <1>1, <1>2, <2>1, <3>2, WatchTicked
  <2> QED
    BY <2>2, <2>3
<1>6. CASE WriteStatus(s)
  <2>1. rules' = rules /\ (settled'[r] # "no" => settled[r] # "no")
    BY <1>0, <1>6 DEF WriteStatus, hostVars
  <2>2. RulePresent(r) /\ RuleTicked(r) /\ Needed(r)' = Needed(r)
    BY <1>1 DEF WatchInv, Needed
  <2> QED
    BY <1>2, <2>1, <2>2 DEF Watched, RulePresent, RuleTicked, Holds
<1> QED
  BY <1>3, <1>4, <1>5, <1>6

LEMMA WatchNext == TypeOK /\ CourseInv /\ DaemonInv /\ WatchInv /\ [Next]_vars => WatchInv'
<1> SUFFICES ASSUME TypeOK, CourseInv, DaemonInv, WatchInv, [Next]_vars PROVE WatchInv'
  OBVIOUS
<1>0. pc \in [Resp -> Pcs] /\ rules \in [Resp -> [Families -> Chains]]
  BY DEF TypeOK
<1>1. CASE NextRun \/ Preflight
  <2>1. \A r \in Resp : pc'[r] = "off"
    BY <1>1 DEF NextRun, Preflight, CourseInv
  <2> QED
    BY <2>1 DEF WatchInv, RulePresent, RuleTicked, Listened
<1>2. CASE SelfTest
  <2>1. PICK answered \in SUBSET Resp, f \in Families :
          rules' = [r \in Resp |-> IF r \in answered
                                    THEN [rules[r] EXCEPT ![f] = Tick(rules[r][f], 1)] ELSE rules[r]]
    BY <1>2 DEF SelfTest
  <2>2. UNCHANGED <<kind, permitted, pc, faulted, settled>>
    BY <1>2 DEF SelfTest, faultVars, trafficVars
  <2>3. ASSUME NEW r \in Resp PROVE Watched(r)'
    <3>1. (Listened(r)' <=> Listened(r)) /\ settled'[r] = settled[r] /\ 1 \in Counts
      BY <2>2 DEF Listened, Trusted, Counts
    <3>2. CASE r \in answered
      <4>1. rules'[r] = [rules[r] EXCEPT ![f] = Tick(rules[r][f], 1)]
        BY <2>1, <3>2
      <4> QED
        BY <2>2, <3>1, <4>1, WatchTicked
    <3>3. CASE r \notin answered
      <4>1. rules'[r] = rules[r]
        BY <2>1, <3>3
      <4> QED
        BY <2>2, <3>1, <4>1, WatchKept
    <3> QED
      BY <3>2, <3>3
  <2> QED
    BY <2>3 DEF WatchInv, Watched
<1>3. CASE BeginStop \/ Deadline
  <2>1. UNCHANGED <<kind, permitted, rules, settled>> /\ (~faulted' => ~faulted)
    BY <1>3, FaultSticks DEF BeginStop, Deadline, hostVars, faultVars, trafficVars
  <2>2. ASSUME NEW r \in Resp PROVE Watched(r)'
    <3>1. pc'[r] \in {"installed", "up", "unbind", "read"} => pc[r] \in {"installed", "up", "unbind", "read"}
      BY <1>0, <1>3 DEF BeginStop, Deadline
    <3>2. Listened(r)' => Listened(r)
      BY <2>1, <3>1 DEF Listened, Trusted
    <3> QED
      BY <2>1, <3>2, WatchKept
  <2> QED
    BY <2>2 DEF WatchInv, Watched
<1>4. ASSUME NEW s \in Resp, Stop(s) PROVE WatchInv'
  <2>1. UNCHANGED <<kind, permitted, settled>> /\ (~faulted' => ~faulted)
    BY <1>4, StopFaults DEF Stop, Unbind, Read, Removed, Terminate, RemoveRule, hostVars, trafficVars
  <2>2. ASSUME NEW r \in Resp PROVE Watched(r)'
    <3>1. pc'[r] \in {"installed", "up", "unbind", "read"} =>
            pc[r] \in {"installed", "up", "unbind", "read"} /\ rules'[r] = rules[r]
      BY <1>0, <1>4 DEF Stop, Unbind, Read, Removed, Terminate, RemoveRule, Stopping, hostVars
    <3>2. CASE pc'[r] \in {"installed", "up", "unbind", "read"}
      <4>1. Listened(r)' => Listened(r)
        BY <2>1, <3>1, <3>2 DEF Listened, Trusted
      <4> QED
        BY <2>1, <3>1, <3>2, <4>1, WatchKept
    <3>3. CASE pc'[r] \notin {"installed", "up", "unbind", "read"}
      BY <3>3 DEF Watched, RulePresent, RuleTicked, Listened
    <3> QED
      BY <3>2, <3>3
  <2> QED
    BY <2>2 DEF WatchInv, Watched
<1>5. CASE \/ StartupDone \/ AllStopped \/ CommitSnapshots \/ FinalizeResults \/ Exit \/ Crash
           \/ UNCHANGED vars
  <2>1. UNCHANGED <<kind, permitted, rules, settled, faulted, pc>>
    BY <1>5 DEF StartupDone, AllStopped, CommitSnapshots, FinalizeResults, Exit, Crash, EndOfProcess,
                hostVars, faultVars, trafficVars, vars
  <2> QED
    BY <2>1 DEF WatchInv, RulePresent, RuleTicked, Listened, Trusted, Holds, Needed
<1> QED
  BY <1>1, <1>2, <1>3, <1>4, <1>5, WatchStartup, WatchTraffic DEF Next, Over

-----------------------------------------------------------------------------
(* What the daemon and its responder remember of an exchange.               *)
Remembered(r) == Unsettled(r) /\ AuthSettled(r) /\ BytesSettled(r) /\ Linked(r)

DaemonKept(r) ==
  UNCHANGED <<kind[r], settled[r], bytes[r], statusFile[r], latched[r]>>

EarlyPcs == {"off", "spawned", "installed", "skipped", "failed"}

LEMMA RememberedKept ==
  ASSUME DaemonInv, NEW r \in Resp, DaemonKept(r),
         pc'[r] \in EarlyPcs => pc[r] \in EarlyPcs,
         kind[r] = "wireguard" /\ pc'[r] = "up" => iface'[r] \/ (pc[r] = "up" /\ iface'[r] = iface[r])
  PROVE  Remembered(r)'
BY DEF DaemonInv, DaemonKept, EarlyPcs, Remembered, Unsettled, AuthSettled, BytesSettled, Linked

LEMMA DaemonTraffic ==
  ASSUME TypeOK, DaemonInv, NEW s \in Resp, Traffic(s)
  PROVE  DaemonInv'
<1>0. /\ bytes \in [Resp -> Levels] /\ statusFile \in [Resp -> Levels] /\ latched \in [Resp -> Levels]
      /\ settled \in [Resp -> {"no", "unwritten", "yes"}]
  BY DEF TypeOK
<1>1. UNCHANGED <<kind, pc, iface>>
  BY TrafficFrame
<1> SUFFICES ASSUME NEW r \in Resp PROVE Remembered(r)'
  BY DEF DaemonInv, Remembered
<1>2. Unsettled(r) /\ AuthSettled(r) /\ BytesSettled(r) /\ Linked(r)
  BY DEF DaemonInv
<1>3. bytes[r] \in 0..2 /\ statusFile[r] \in 0..2 /\ latched[r] \in 0..2
  BY <1>0 DEF Levels
<1>4. CASE DaemonKept(r)
  BY <1>1, <1>4, RememberedKept
<1>5. ASSUME NEW f \in Families, Handshake(s, f), r = s PROVE Remembered(r)'
  <2>1. UNCHANGED <<settled, statusFile, latched>>
    BY <1>5 DEF Handshake, readVars
  <2>2. bytes'[r] = bytes[r] \/ bytes'[r] = Higher(bytes[r], 1)
    BY <1>0, <1>5 DEF Handshake, Raise
  <2>3. (bytes[r] > 0 => bytes'[r] > 0) /\ (bytes[r] = 2 => bytes'[r] = 2)
    BY <1>3, <2>2 DEF Higher
  <2> QED
    BY <1>1, <1>2, <2>1, <2>3 DEF Remembered, Unsettled, AuthSettled, BytesSettled, Linked
<1>6. ASSUME NEW f \in Families, Exchange(s, f), r = s PROVE Remembered(r)'
  <2>1. /\ UNCHANGED <<statusFile, latched>>
        /\ settled'[r] = IF pc[r] # "up" \/ settled[r] = "yes" THEN settled[r]
                         ELSE IF kind[r] = "openvpn" THEN "unwritten" ELSE "yes"
    BY <1>0, <1>6 DEF Exchange, readVars
  <2>2. PICK level \in {1, 2} :
          /\ kind[s] # "openvpn" => level = 2
          /\ bytes' = IF kind[s] \in {"mtg", "mtorig"} THEN bytes ELSE Raise(s, level)
    BY <1>6 DEF Exchange
  <2>3. kind[r] \in {"socks", "wireguard"} => bytes'[r] = 2
    <3>1. kind[r] \in {"socks", "wireguard"} => bytes'[r] = Higher(bytes[r], 2)
      BY <1>0, <1>6, <2>2 DEF Raise
    <3> QED
      BY <1>3, <3>1 DEF Higher
  <2>4. kind[r] = "openvpn" => bytes'[r] > 0
    <3>1. kind[r] = "openvpn" => bytes'[r] = Higher(bytes[r], level)
      BY <1>0, <1>6, <2>2 DEF Raise
    <3> QED
      BY <1>3, <2>2, <3>1 DEF Higher
  <2>5. kind[r] = "openvpn" /\ settled'[r] = "yes" => settled[r] = "yes"
    BY <2>1
  <2>6. Unsettled(r)' /\ Linked(r)'
    BY <1>1, <1>2, <2>1 DEF Unsettled, Linked
  <2> QED
    BY <1>1, <1>2, <2>1, <2>3, <2>4, <2>5, <2>6 DEF Remembered, AuthSettled, BytesSettled
<1>7. CASE WriteStatus(s) /\ r = s
  <2>1. /\ UNCHANGED <<bytes, latched>> /\ statusFile'[r] = bytes[r] /\ kind[r] = "openvpn"
        /\ settled'[r] = IF settled[r] = "unwritten" /\ pc[r] = "up" THEN "yes" ELSE settled[r]
    BY <1>0, <1>7 DEF WriteStatus, readVars
  <2> QED
    BY <1>1, <1>2, <2>1 DEF Remembered, Unsettled, AuthSettled, BytesSettled, Linked
<1>8. CASE Latch(s) /\ r = s
  <2>1. /\ UNCHANGED <<bytes, statusFile, settled>> /\ latched'[r] = statusFile[r]
        /\ latched[r] < statusFile[r]
    BY <1>0, <1>8 DEF Latch, daemonVars, trafficVars
  <2>2. latched'[r] > 0
    BY <1>3, <2>1
  <2> QED
    BY <1>1, <1>2, <2>1, <2>2 DEF Remembered, Unsettled, AuthSettled, BytesSettled, Linked
<1>9. CASE ForgetPeer(s) /\ r = s
  <2>1. /\ UNCHANGED <<latched, statusFile, settled>> /\ kind[r] = "openvpn"
        /\ bytes[r] > 0 /\ latched[r] >= bytes[r]
    BY <1>9 DEF ForgetPeer, readVars, trafficVars
  <2>2. latched'[r] > 0
    BY <1>3, <2>1
  <2> QED
    BY <1>1, <1>2, <2>1, <2>2 DEF Remembered, Unsettled, AuthSettled, BytesSettled, Linked
<1>10. CASE (\E f \in Families : Scan(s, f)) \/ Monitor(s)
  <2>1. DaemonKept(r)
    BY <1>1, <1>10 DEF Scan, Monitor, readVars, trafficVars, DaemonKept
  <2> QED
    BY <1>4, <2>1
<1>11. CASE r # s
  <2>1. UNCHANGED <<settled[r], bytes[r], statusFile[r], latched[r]>>
    BY <1>0, <1>11 DEF Traffic, Handshake, Exchange, Scan, Monitor, WriteStatus, Latch, ForgetPeer, Raise,
                       daemonVars, readVars, trafficVars
  <2> QED
    BY <1>1, <1>4, <2>1 DEF DaemonKept
<1> QED
  BY <1>5, <1>6, <1>7, <1>8, <1>9, <1>10, <1>11 DEF Traffic

LEMMA DaemonNext == TypeOK /\ DaemonInv /\ [Next]_vars => DaemonInv'
<1> SUFFICES ASSUME TypeOK, DaemonInv, [Next]_vars PROVE DaemonInv'
  OBVIOUS
<1>0. pc \in [Resp -> Pcs] /\ iface \in [Resp -> BOOLEAN]
  BY DEF TypeOK
<1>1. CASE NextRun
  BY <1>1 DEF NextRun, Unread, DaemonInv, Unsettled, AuthSettled, BytesSettled, Linked
<1>2. ASSUME NEW r \in Resp, NEW s \in Resp, Startup(s) PROVE Remembered(r)'
  <2>1. DaemonKept(r)
    BY <1>2 DEF Startup, Spawn, SpawnFails, Install, Skip, hostVars, daemonVars, readVars, trafficVars, DaemonKept
  <2>2. pc'[r] \in EarlyPcs => pc[r] \in EarlyPcs
    BY <1>0, <1>2 DEF Startup, Spawn, SpawnFails, Install, Skip, SpawnedFrom, EarlyPcs
  <2>3. kind[r] = "wireguard" /\ pc'[r] = "up" => iface'[r] \/ (pc[r] = "up" /\ iface'[r] = iface[r])
    <3>1. CASE Spawn(s)
      BY <1>0, <3>1 DEF Spawn, TunKinds
    <3>2. CASE SpawnFails(s) \/ Install(s) \/ Skip(s)
      BY <1>0, <3>2 DEF SpawnFails, Install, Skip, hostVars
    <3> QED
      BY <1>2, <3>1, <3>2 DEF Startup
  <2> QED
    BY <2>1, <2>2, <2>3, RememberedKept
<1>3. ASSUME NEW r \in Resp, NEW s \in Resp, Stop(s) PROVE Remembered(r)'
  <2>1. DaemonKept(r)
    BY <1>3 DEF Stop, Unbind, Read, Removed, Terminate, RemoveRule, hostVars, daemonVars, readVars, trafficVars,
                DaemonKept
  <2>2. (pc'[r] \in EarlyPcs \cup {"up"} => pc'[r] = pc[r]) /\ (pc'[r] = "up" => iface'[r] = iface[r])
    BY <1>0, <1>3 DEF Stop, Unbind, Read, Removed, Terminate, RemoveRule, Stopping, hostVars, EarlyPcs
  <2> QED
    BY <2>1, <2>2, RememberedKept
<1>4. ASSUME NEW r \in Resp, BeginStop \/ Deadline PROVE Remembered(r)'
  <2>1. DaemonKept(r)
    BY <1>4 DEF BeginStop, Deadline, hostVars, daemonVars, readVars, trafficVars, DaemonKept
  <2>2. pc'[r] # "up" /\ (pc'[r] \in EarlyPcs => pc[r] \in EarlyPcs)
    BY <1>0, <1>4 DEF BeginStop, Deadline, FirstStep, EarlyPcs
  <2> QED
    BY <2>1, <2>2, RememberedKept
<1>5. ASSUME NEW r \in Resp,
             \/ Preflight \/ StartupDone \/ SelfTest \/ AllStopped \/ CommitSnapshots
             \/ FinalizeResults \/ UNCHANGED vars
      PROVE  Remembered(r)'
  <2>1. DaemonKept(r) /\ UNCHANGED <<pc, iface>>
    BY <1>5 DEF Preflight, StartupDone, SelfTest, AllStopped, CommitSnapshots, FinalizeResults, vars,
                hostVars, daemonVars, readVars, trafficVars, DaemonKept
  <2> QED
    BY <2>1, RememberedKept
<1>6. ASSUME NEW r \in Resp, Exit \/ Crash PROVE Remembered(r)'
  <2>1. DaemonKept(r) /\ pc' = pc
    BY <1>6 DEF Exit, Crash, EndOfProcess, daemonVars, readVars, trafficVars, DaemonKept
  <2>2. kind[r] = "wireguard" => iface'[r] = iface[r]
    BY <1>6 DEF Exit, Crash, EndOfProcess
  <2> QED
    BY <2>1, <2>2, RememberedKept
<1> QED
  BY <1>1, <1>2, <1>3, <1>4, <1>5, <1>6, DaemonTraffic DEF Next, Over, DaemonInv, Remembered

-----------------------------------------------------------------------------
(* What stop() has captured of it.                                          *)
LEMMA SettlesWhileUp ==
  ASSUME TypeOK, Next, ~NextRun, NEW r \in Resp
  PROVE  /\ kind'[r] = kind[r] /\ permitted' = permitted
         /\ ~faulted' => ~faulted
         /\ pc[r] # "up" => settled'[r] = settled[r]
<1>0. settled \in [Resp -> {"no", "unwritten", "yes"}]
  BY DEF TypeOK
<1>1. ASSUME NEW s \in Resp, Startup(s)
      PROVE  UNCHANGED <<kind, permitted, settled>> /\ (~faulted' => ~faulted)
  <2>1. CASE Spawn(s) \/ Skip(s)
    BY <2>1 DEF Spawn, Skip, hostVars, faultVars, trafficVars
  <2>2. CASE SpawnFails(s) \/ Install(s)
    BY <2>2, FaultSticks DEF SpawnFails, Install, trafficVars
  <2> QED
    BY <1>1, <2>1, <2>2 DEF Startup
<1>2. ASSUME NEW s \in Resp, Traffic(s)
      PROVE  /\ UNCHANGED <<kind, permitted, faulted>>
             /\ pc[r] # "up" => settled'[r] = settled[r]
  <2>1. UNCHANGED <<kind, permitted, faulted>>
    BY <1>2, TrafficFrame
  <2>2. pc[r] # "up" => settled'[r] = settled[r]
    BY <1>0, <1>2 DEF Traffic, Handshake, Exchange, Scan, Monitor, WriteStatus, Latch, ForgetPeer, trafficVars
  <2> QED
    BY <2>1, <2>2
<1>3. ASSUME NEW s \in Resp, Stop(s)
      PROVE  UNCHANGED <<kind, permitted, settled>> /\ (~faulted' => ~faulted)
  BY <1>3, StopFaults DEF Stop, Unbind, Read, Removed, Terminate, RemoveRule, hostVars, trafficVars
<1>4. CASE Preflight \/ BeginStop
  BY <1>4, FaultSticks DEF Preflight, BeginStop, hostVars, trafficVars
<1>5. CASE StartupDone \/ AllStopped \/ CommitSnapshots \/ FinalizeResults
  <2>1. UNCHANGED <<hostVars, faultVars, trafficVars>>
    BY <1>5 DEF StartupDone, AllStopped, CommitSnapshots, FinalizeResults
  <2> QED
    BY <2>1 DEF hostVars, faultVars, trafficVars
<1>7. CASE SelfTest \/ Deadline
  BY <1>7 DEF SelfTest, Deadline, faultVars, trafficVars
<1>6. CASE Exit \/ Crash \/ Over
  BY <1>6 DEF Exit, Crash, EndOfProcess, Over, vars, hostVars, faultVars, trafficVars
<1> QED
  BY <1>1, <1>2, <1>3, <1>4, <1>5, <1>6, <1>7 DEF Next

LEMMA CaughtKept ==
  ASSUME TypeOK, CaughtInv, Next, ~NextRun, NEW r \in Resp,
         pc'[r] = pc[r], captured'[r] = captured[r], count'[r] = count[r]
  PROVE  Caught(r)'
<1>1. CASE pc[r] = "up"
  BY <1>1 DEF Caught, AfterRead
<1>2. CASE pc[r] # "up"
  <2>1. Trusted(r)' /\ settled'[r] = "yes" => Trusted(r) /\ settled[r] = "yes" /\ kind'[r] = kind[r]
    BY <1>2, SettlesWhileUp DEF Trusted
  <2>2. kind'[r] = kind[r]
    BY SettlesWhileUp
  <2>3. Caught(r)
    BY DEF CaughtInv
  <2> QED
    BY <2>1, <2>2, <2>3 DEF Caught
<1> QED
  BY <1>1, <1>2

LEMMA CaughtRead ==
  ASSUME TypeOK, WatchInv, DaemonInv, ReadersInv, CaughtInv, Next, ~NextRun, NEW s \in Resp, Read(s)
  PROVE  Caught(s)'
<1>0. /\ rules \in [Resp -> [Families -> Chains]] /\ count \in [Resp -> Nat]
      /\ captured \in [Resp -> Captures] /\ pc \in [Resp -> Pcs]
      /\ latched[s] \in 0..2 /\ statusFile[s] \in 0..2
  BY DEF TypeOK, Levels
<1> SUFFICES ASSUME Trusted(s)', settled'[s] = "yes" PROVE Caught(s)'
  BY DEF Caught
<1>1. pc[s] = "read" /\ kind'[s] = kind[s] /\ settled[s] = "yes" /\ Trusted(s) /\ kind[s] \in CounterKinds
  <2>1. pc[s] = "read"
    BY DEF Read, Stopping
  <2> QED
    BY <2>1, SettlesWhileUp DEF Trusted, ReadersInv
<1>2. PICK heard \in SUBSET Families :
        /\ FaultIf(permitted /\ heard # Families)
        /\ IF kind[s] = "mtorig"
           THEN /\ count' = [count EXCEPT ![s] = Higher(@, Total(rules[s], heard))]
                /\ UNCHANGED captured
           ELSE /\ captured' = [captured EXCEPT ![s] =
                     [taken |-> FALSE, packets |-> Total(rules[s], heard), bytes |-> Auth(s),
                      handshakes |-> IF Auth(s) > 0 THEN 1 ELSE 0]]
                /\ UNCHANGED count
  BY DEF Read
<1>3. heard = Families
  <2>1. ~faulted' /\ permitted
    BY <1>1 DEF Trusted
  <2> QED
    BY <1>2, <2>1, FaultSticks
<1>4. Listened(s) /\ Holds(rules[s], Needed(s))
  BY <1>1 DEF Listened, WatchInv, RuleTicked
<1>5. rules[s] \in [Families -> Chains]
  BY <1>0
<1>6. pc'[s] = "remove"
  BY <1>0 DEF Read
<1>7. CASE kind[s] = "mtorig"
  <2>1. Total(rules[s], Families) > 0
    BY <1>4, <1>5, <1>7, TotalHolds DEF Needed
  <2>2. count'[s] = Higher(count[s], Total(rules[s], Families))
    BY <1>0, <1>2, <1>3, <1>7
  <2>3. Total(rules[s], Families) \in 0..2 /\ count[s] \in Nat
    BY <1>0, TotalType DEF Counts
  <2>4. count'[s] > 0
    BY <2>1, <2>2, <2>3 DEF Higher
  <2> QED
    BY <1>1, <1>6, <1>7, <2>4 DEF Caught, AfterRead
<1>8. CASE kind[s] # "mtorig"
  <2> DEFINE c == [taken |-> FALSE, packets |-> Total(rules[s], Families), bytes |-> Auth(s),
                   handshakes |-> IF Auth(s) > 0 THEN 1 ELSE 0]
  <2>1. captured' = [captured EXCEPT ![s] = c]
    BY <1>2, <1>3, <1>8
  <2>2. c.packets = Total(rules[s], Families) /\ c.handshakes = (IF Auth(s) > 0 THEN 1 ELSE 0)
    OBVIOUS
  <2> HIDE DEF c
  <2>3. captured'[s] = c
    BY <1>0, <2>1
  <2>4. CASE kind[s] = "mtg"
    <3>1. Total(rules[s], Families) > 0
      BY <1>4, <1>5, <2>4, TotalHolds DEF Needed
    <3>2. captured'[s].packets > 0
      BY <2>2, <2>3, <3>1
    <3> QED
      BY <1>1, <2>4, <3>2 DEF Caught
  <2>5. CASE kind[s] = "openvpn"
    <3>1. Total(rules[s], Families) = 2
      BY <1>4, <1>5, <2>5, TotalHolds DEF Needed, MinDataPackets
    <3>2. statusFile[s] > 0 \/ latched[s] > 0
      BY <1>1, <2>5 DEF DaemonInv, AuthSettled
    <3>3. Auth(s) > 0
      BY <1>0, <3>2 DEF Auth, Higher
    <3>4. captured'[s].packets = 2 /\ captured'[s].handshakes > 0
      BY <2>2, <2>3, <3>1, <3>3
    <3> QED
      BY <1>1, <2>5, <3>4 DEF Caught
  <2> QED
    BY <1>1, <1>8, <2>4, <2>5 DEF CounterKinds
<1> QED
  BY <1>7, <1>8

LEMMA CaughtBeginStop ==
  ASSUME TypeOK, HoldingsInv, DaemonInv, CaughtInv, Next, ~NextRun, BeginStop, NEW r \in Resp
  PROVE  Caught(r)'
<1>0. captured \in [Resp -> Captures] /\ kind[r] \in Kinds
  BY KindsOf DEF TypeOK
<1>1. settled' = settled /\ kind' = kind /\ count' = count /\ phase = "serving"
  BY DEF BeginStop, hostVars, trafficVars
<1>2. pc'[r] = IF pc[r] = "up" THEN FirstStep(r) ELSE IF pc[r] = "skipped" THEN "stopped" ELSE pc[r]
  BY DEF BeginStop
<1>3. CASE pc[r] = "skipped"
  <2>1. settled'[r] = "no"
    BY <1>1, <1>3 DEF DaemonInv, Unsettled
  <2> QED
    BY <2>1 DEF Caught
<1>4. CASE pc[r] = "up" /\ kind[r] # "wireguard"
  <2>1. pc'[r] \in AfterRead => kind[r] = "socks"
    BY <1>0, <1>2, <1>4 DEF FirstStep, AfterRead, TunKinds
  <2> QED
    BY <1>1, <1>4, <2>1 DEF Caught
<1>5. CASE pc[r] = "up" /\ kind[r] = "wireguard"
  <2> SUFFICES ASSUME Trusted(r)', settled'[r] = "yes" PROVE captured'[r].bytes = 2
    BY <1>1, <1>5 DEF Caught
  <2>1. PICK deaf \in SUBSET {q \in Resp : kind[q] = "wireguard" /\ pc[q] = "up"} :
          /\ captured' = [q \in Resp |->
               IF kind[q] = "wireguard" /\ pc[q] = "up"
               THEN [taken |-> TRUE,
                     handshakes |-> IF (IF q \in deaf THEN 0 ELSE Shown(q)) > 0 THEN 1 ELSE 0,
                     packets |-> 0, bytes |-> IF q \in deaf THEN 0 ELSE Shown(q)]
               ELSE captured[q]]
          /\ FaultIf(deaf # {})
    BY DEF BeginStop
  <2>2. deaf = {}
    BY <2>1, FaultSticks DEF Trusted
  <2>3. captured'[r].bytes = Shown(r)
    BY <1>5, <2>1, <2>2
  <2>4. Alive(r)
    BY <1>1, <1>5 DEF Alive, DaemonInv, Linked
  <2>5. bytes[r] = 2
    BY <1>1, <1>5 DEF DaemonInv, BytesSettled
  <2> QED
    BY <2>3, <2>4, <2>5 DEF Shown
<1>6. CASE pc[r] \notin {"up", "skipped"}
  <2>1. pc'[r] = pc[r] /\ captured'[r] = captured[r]
    BY <1>2, <1>6 DEF BeginStop
  <2> QED
    BY <1>1, <2>1, CaughtKept
<1> QED
  BY <1>3, <1>4, <1>5, <1>6

LEMMA CaughtNext ==
  TypeOK /\ HoldingsInv /\ ReadersInv /\ WatchInv /\ DaemonInv /\ CaughtInv /\ [Next]_vars =>
    CaughtInv'
<1> SUFFICES ASSUME TypeOK, HoldingsInv, ReadersInv, WatchInv, DaemonInv, CaughtInv, [Next]_vars
             PROVE  CaughtInv'
  OBVIOUS
<1>0. /\ captured \in [Resp -> Captures] /\ pc \in [Resp -> Pcs] /\ count \in [Resp -> Nat]
      /\ \A r \in Resp : kind[r] \in Kinds
  BY KindsOf DEF TypeOK
<1>1. CASE NextRun
  BY <1>1 DEF NextRun, CaughtInv, Caught
<1>2. CASE UNCHANGED vars
  BY <1>2 DEF vars, hostVars, faultVars, readVars, trafficVars, CaughtInv, Caught, Trusted
<1>3. CASE Next /\ ~NextRun
  <2> SUFFICES ASSUME NEW r \in Resp PROVE Caught(r)'
    BY DEF CaughtInv
  <2>1. kind'[r] = kind[r] /\ (Trusted(r)' => Trusted(r)) /\ (pc[r] # "up" => settled'[r] = settled[r])
    BY <1>3, SettlesWhileUp DEF Trusted
  <2>2. Caught(r) /\ Unsettled(r)
    BY DEF CaughtInv, DaemonInv
  <2>3. CASE UNCHANGED <<pc, captured, count>>
    BY <1>3, <2>3, CaughtKept
  <2>4. ASSUME NEW s \in Resp, Startup(s) PROVE Caught(r)'
    <3>1. UNCHANGED <<captured, count>>
      BY <2>4 DEF Startup, Spawn, SpawnFails, Install, Skip, readVars
    <3>2. pc'[r] = pc[r] \/ pc'[r] \in {"spawned", "installed", "up", "skipped", "failed"}
      BY <1>0, <2>4 DEF Startup, Spawn, SpawnFails, Install, Skip
    <3>3. CASE pc'[r] = pc[r]
      BY <1>3, <3>1, <3>3, CaughtKept
    <3>4. CASE pc'[r] \in {"spawned", "installed", "up", "skipped", "failed"}
      BY <3>4 DEF Caught, AfterRead
    <3> QED
      BY <3>2, <3>3, <3>4
  <2>5. ASSUME NEW s \in Resp, Traffic(s) PROVE Caught(r)'
    <3>1. UNCHANGED <<pc, captured>>
      BY <2>5, TrafficFrame
    <3>2. kind[r] = "mtorig" => count'[r] = count[r]
      <4>1. CASE Monitor(s)
        BY <1>0, <4>1 DEF Monitor, Monitored
      <4>2. CASE ~Monitor(s)
        BY <2>5, <4>2 DEF Traffic, Handshake, Exchange, Scan, WriteStatus, Latch, ForgetPeer, readVars
      <4> QED
        BY <4>1, <4>2
    <3>3. CASE pc[r] = "up"
      BY <3>1, <3>3 DEF Caught, AfterRead
    <3>4. CASE pc[r] # "up"
      BY <2>1, <2>2, <3>1, <3>2, <3>4 DEF Caught
    <3> QED
      BY <3>3, <3>4
  <2>6. ASSUME NEW s \in Resp, Read(s) PROVE Caught(r)'
    <3>1. CASE r = s
      BY <1>3, <2>6, <3>1, CaughtRead
    <3>2. CASE r # s
      <4>1. pc'[r] = pc[r] /\ captured'[r] = captured[r] /\ count'[r] = count[r]
        BY <1>0, <2>6, <3>2 DEF Read
      <4> QED
        BY <1>3, <4>1, CaughtKept
    <3> QED
      BY <3>1, <3>2
  <2>7. ASSUME NEW s \in Resp, Removed(s) PROVE Caught(r)'
    <3>1. /\ count' = count /\ captured'[r].packets = captured[r].packets
          /\ captured'[r].handshakes = captured[r].handshakes /\ captured'[r].bytes = captured[r].bytes
      BY <1>0, <2>7 DEF Removed, Captures
    <3>2. pc'[r] = pc[r] \/ (pc[r] = "remove" /\ pc'[r] = "terminate")
      BY <1>0, <2>7 DEF Removed, Stopping
    <3>3. CASE pc[r] = "up"
      BY <3>2, <3>3 DEF Caught, AfterRead
    <3>4. CASE pc[r] # "up"
      BY <2>1, <2>2, <3>1, <3>2, <3>4 DEF Caught, AfterRead
    <3> QED
      BY <3>3, <3>4
  <2>8. ASSUME NEW s \in Resp, Unbind(s) \/ Terminate(s) \/ \E f \in Families : RemoveRule(s, f)
        PROVE  Caught(r)'
    <3>1. UNCHANGED <<captured, count>>
      BY <2>8 DEF Unbind, Terminate, RemoveRule, readVars
    <3>2. \/ pc'[r] = pc[r]
          \/ pc[r] = "unbind" /\ pc'[r] = (IF kind[r] = "openvpn" THEN "read" ELSE "terminate")
          \/ pc[r] = "terminate" /\ pc'[r] = "stopped"
      BY <1>0, <2>8 DEF Unbind, Terminate, RemoveRule, Stopping
    <3>3. CASE pc'[r] = pc[r]
      BY <1>3, <3>1, <3>3, CaughtKept
    <3>4. CASE pc[r] = "unbind" /\ pc'[r] = (IF kind[r] = "openvpn" THEN "read" ELSE "terminate")
      <4>1. kind[r] \in {"openvpn", "wireguard"}
        BY <3>4 DEF HoldingsInv, Interfaces, TunKinds
      <4> QED
        BY <2>1, <2>2, <3>1, <3>4, <4>1 DEF Caught, AfterRead
    <3>5. CASE pc[r] = "terminate" /\ pc'[r] = "stopped"
      BY <2>1, <2>2, <3>1, <3>5 DEF Caught, AfterRead
    <3> QED
      BY <3>2, <3>3, <3>4, <3>5
  <2>9. CASE Preflight
    <3>1. UNCHANGED <<pc, captured, count>>
      BY <2>9 DEF Preflight, readVars
    <3> QED
      BY <2>3, <3>1
  <2>10. CASE Deadline
    <3>1. UNCHANGED <<captured, count>> /\ (pc'[r] = pc[r] \/ pc'[r] \in {"unreaped", "cancelled"})
      BY <2>10 DEF Deadline, readVars
    <3> QED
      BY <1>3, <3>1, CaughtKept DEF Caught, AfterRead
  <2>11. CASE \/ StartupDone \/ SelfTest \/ AllStopped \/ CommitSnapshots \/ FinalizeResults \/ Exit \/ Crash
    <3>1. UNCHANGED <<pc, captured, count>>
      BY <2>11 DEF StartupDone, SelfTest, AllStopped, CommitSnapshots, FinalizeResults, Exit, Crash,
                   EndOfProcess, readVars
    <3> QED
      BY <2>3, <3>1
  <2>12. CASE BeginStop
    BY <1>3, <2>12, CaughtBeginStop
  <2>13. CASE Over
    <3>1. UNCHANGED <<pc, captured, count>>
      BY <2>13 DEF Over, vars, readVars
    <3> QED
      BY <2>3, <3>1
  <2> QED
    BY <1>3, <2>4, <2>5, <2>6, <2>7, <2>8, <2>9, <2>10, <2>11, <2>12, <2>13 DEF Next, Stop
<1> QED
  BY <1>1, <1>2, <1>3

-----------------------------------------------------------------------------
(* The report of it.  Data is enough for the verdict, whatever else was     *)
(* counted.                                                                 *)
LEMMA DataIsOk ==
  ASSUME NEW handshook, NEW available, NEW capAt
  PROVE  Finalize(handshook, TRUE, available, capAt) = Finalize(TRUE, TRUE, TRUE, capAt)
BY DEF Finalize, Derived

LEMMA CaughtIsRead ==
  ASSUME TypeOK, TakenInv, DaemonInv, CaughtInv, NEW r \in Resp,
         Trusted(r), settled[r] = "yes", pc[r] = "stopped"
  PROVE  DataTransferOk(r)
<1>1. Caught(r) /\ BytesSettled(r) /\ (kind[r] = "openvpn" => captured[r].taken)
  BY DEF CaughtInv, DaemonInv, TakenInv
<1>2. CASE kind[r] = "openvpn"
  BY <1>1, <1>2 DEF Caught, AfterRead, DataTransferOk, OpenVPNData, MinDataPackets
<1>3. CASE kind[r] \in {"socks", "mtg", "mtorig", "wireguard"}
  BY <1>1, <1>3 DEF Caught, AfterRead, BytesSettled, DataTransferOk
<1> QED
  BY <1>2, <1>3, KindsOf DEF Kinds

LEMMA SettledReportNext ==
  TypeOK /\ CourseInv /\ TakenInv /\ DaemonInv /\ CaughtInv /\ SettledReportInv /\ [Next]_vars =>
    SettledReportInv'
<1> SUFFICES ASSUME TypeOK, CourseInv, TakenInv, DaemonInv, CaughtInv, SettledReportInv, [Next]_vars,
                    NEW r \in Resp, phase' = "done", report'[r] # NoReport, Whole(r)', Trusted(r)',
                    settled'[r] = "yes"
             PROVE  report'[r] = Finalize(TRUE, TRUE, TRUE, CapAt(r)')
  BY DEF SettledReportInv, SettledReport
<1>1. CASE FinalizeResults
  <2>1. UNCHANGED <<pc, kind, permitted, faulted, settled, dcOk>>
    BY <1>1 DEF FinalizeResults, hostVars, faultVars, trafficVars
  <2>2. report'[r] = IF Started(r)
          THEN Finalize(HandshakeSeen(r), DataTransferOk(r), CountersAvailable(r), CapAt(r))
          ELSE NoReport
    BY <1>1 DEF FinalizeResults
  <2>3. Started(r) /\ pc[r] = "stopped"
    BY <2>1, <2>2 DEF Started, Whole
  <2>4. DataTransferOk(r) = TRUE
    BY <2>1, <2>3, CaughtIsRead DEF Trusted, DataTransferOk
  <2>5. CapAt(r)' = CapAt(r)
    BY <2>1 DEF CapAt
  <2> QED
    BY <2>2, <2>3, <2>4, <2>5, DataIsOk
<1>2. CASE (\E s \in Resp : Traffic(s)) \/ UNCHANGED vars
  <2>1. UNCHANGED <<phase, pc, kind, permitted, faulted, dcOk, report>>
    BY <1>2, TrafficFrame DEF vars, hostVars, runVars, faultVars, outVars
  <2>2. pc[r] # "up"
    BY <2>1 DEF CourseInv, Ended
  <2>3. settled[r] = "yes"
    <3>1. CASE UNCHANGED vars
      BY <3>1 DEF vars, trafficVars
    <3>2. CASE \E s \in Resp : Traffic(s)
      <4>1. Next /\ ~NextRun
        BY <2>1, <3>2 DEF Next, NextRun
      <4> QED
        BY <2>2, <4>1, SettlesWhileUp
    <3> QED
      BY <1>2, <3>1, <3>2
  <2>4. CapAt(r)' = CapAt(r)
    BY <2>1 DEF CapAt
  <2> QED
    BY <2>1, <2>3, <2>4 DEF SettledReportInv, SettledReport, Whole, Trusted
<1>3. ASSUME NEW s \in Resp PROVE ~Startup(s) /\ ~Stop(s)
  BY StartupFrame, StopFrame
<1>4. ~(\/ Preflight \/ StartupDone \/ SelfTest \/ BeginStop \/ AllStopped \/ Deadline \/ CommitSnapshots)
  BY DEF Preflight, StartupDone, SelfTest, BeginStop, AllStopped, Deadline, CommitSnapshots
<1>5. ~(Exit \/ Crash \/ NextRun)
  BY DEF Exit, Crash, NextRun, EndOfProcess
<1> QED
  BY <1>1, <1>2, <1>3, <1>4, <1>5 DEF Next, Over

ExchangeInv == WatchInv /\ DaemonInv /\ CaughtInv /\ SettledReportInv

LEMMA ExchangeInit == Init => ExchangeInv
<1> SUFFICES ASSUME Init PROVE ExchangeInv
  OBVIOUS
<1>1. \A r \in Resp : pc[r] = "off" /\ settled[r] = "no" /\ bytes[r] = 0
  BY DEF Init, Unread
<1>2. WatchInv
  BY <1>1 DEF WatchInv, RulePresent, RuleTicked, Listened
<1>3. DaemonInv
  BY <1>1 DEF DaemonInv, Unsettled, AuthSettled, BytesSettled, Linked
<1>4. CaughtInv /\ SettledReportInv
  BY <1>1 DEF CaughtInv, Caught, SettledReportInv, SettledReport
<1> QED
  BY <1>2, <1>3, <1>4 DEF ExchangeInv

(* The inductive invariant of an exchange: as long as no host command of    *)
(* this run has failed, the counter, the daemon or the captured reading     *)
(* holds it from the moment it got through until the report.                *)
THEOREM ExchangeInvAlways == Spec => [](ExchangeInv /\ TakenInv)
<1>1. Init => TakenInv
  BY DEF Init, TakenInv
<1>2. TypeOK /\ HostInv /\ CreditInv /\ ExchangeInv /\ TakenInv /\ [Next]_vars =>
        (ExchangeInv /\ TakenInv)'
  BY TakenNext, WatchNext, DaemonNext, CaughtNext, SettledReportNext
     DEF HostInv, CreditInv, ExchangeInv
<1> QED
  BY <1>1, <1>2, ExchangeInit, TypeOKAlways, HostInvAlways, CreditInvAlways, PTL DEF Spec

(* No false BLOCKED: an exchange with a responder that was up is reported   *)
(* as OK, however long before the end of the run it was, as long as the     *)
(* responder finished its stop() and no host command failed or was refused. *)
THEOREM ExchangeIsOkAlways == Spec => []ExchangeIsOk
<1>1. ExchangeInv => ExchangeIsOk
  BY DEF ExchangeInv, SettledReportInv, SettledReport, ExchangeIsOk, Reported, Undisturbed, Trusted
<1> QED
  BY <1>1, ExchangeInvAlways, PTL
=============================================================================

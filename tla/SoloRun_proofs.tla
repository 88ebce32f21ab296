--------------------------- MODULE SoloRun_proofs ---------------------------
(***************************************************************************)
(* The invariants of SoloRun for every set of modules, every network and   *)
(* every number of attempts, losses and exceptions: which module runs      *)
(* when, what has been asked by then, what the results say, and what they  *)
(* score.                                                                  *)
(***************************************************************************)
EXTENDS SoloRun, ScoringLemmas

-----------------------------------------------------------------------------
(* Which module runs when *)

Stages == {"waiting", "running", "returned", "raised", "merged"}
PcTypeOK == pc \in [Modules -> Stages] /\ active \subseteq Modules
PhaseTypeOK == phase \in {"starting", "parallel", "serial", "saved"}
\* Only enabled modules run.
OnlyActive == \A m \in Modules : pc[m] # "waiting" => m \in active
\* The serial modules wait for the gather, and no parallel one outlives it.
SerialWaits == phase \in {"starting", "parallel"} => \A m \in Serial : pc[m] = "waiting"
ParallelOver == phase \in {"serial", "saved"} => \A m \in Modules \ Serial : pc[m] # "running"
\* The second serial module waits for the first one.
InTurn == pc["middlebox"] # "waiting" => "throttling" \notin active \/ pc["throttling"] = "merged"

QuietInv == /\ PcTypeOK /\ PhaseTypeOK /\ OnlyActive
            /\ SerialWaits /\ ParallelOver /\ InTurn

\* Modules is the set of the eight names of the registry, six of which are
\* gathered.
LEMMA ModuleNames ==
  /\ Modules = {"dns", "tcp", "tls", "http", "telegram", "cloudflare", "throttling", "middlebox"}
  /\ Serial \subseteq Modules
  /\ "throttling" # "middlebox"
<1>1. DOMAIN MODULES = 1..8
  BY DEF MODULES
<1>2. \A i \in 1..8 : i \in {1, 2, 3, 4, 5, 6, 7, 8}
  OBVIOUS
<1>3. Modules = {MODULES[i] : i \in {1, 2, 3, 4, 5, 6, 7, 8}}
  BY <1>1, <1>2 DEF Modules, ToSet
<1>4. Modules = {MODULES[1], MODULES[2], MODULES[3], MODULES[4],
                 MODULES[5], MODULES[6], MODULES[7], MODULES[8]}
  BY <1>3
<1>5. /\ MODULES[1] = "dns" /\ MODULES[2] = "tcp" /\ MODULES[3] = "tls" /\ MODULES[4] = "http"
      /\ MODULES[5] = "telegram" /\ MODULES[6] = "cloudflare"
      /\ MODULES[7] = "throttling" /\ MODULES[8] = "middlebox"
  BY DEF MODULES
<1> QED
  BY <1>4, <1>5 DEF Serial

\* The middlebox module has its turn when the throttling module has had it
\* or is disabled (the order of the registry).
LEMMA SecondTurn == Turn("middlebox") => "throttling" \notin Remaining
<1>1. /\ DOMAIN MODULES = 1..8 /\ MODULES[7] = "throttling"
      /\ \A i \in 1..8 : MODULES[i] = "middlebox" => i = 8
  BY DEF MODULES
<1> QED
  BY <1>1 DEF Turn

\* A module whose turn it is has not been merged and is enabled.
LEMMA TurnRemains == \A m \in Modules : Turn(m) => m \in active \cap Serial /\ pc[m] # "merged"
BY DEF Turn, Remaining

\* The runner starts with every module waiting.
LEMMA QuietInit == Init => QuietInv
BY SoloRunAssumption, ModuleNames
   DEF Init, QuietInv, PcTypeOK, PhaseTypeOK, OnlyActive, SerialWaits, ParallelOver, InTurn,
       Stages, Serial

\* A module that is running changes its own pc only (Attempt, Return, Raise).
LEMMA QuietRunning ==
  ASSUME QuietInv, NEW m \in Modules, Attempt(m) \/ Return(m) \/ Raise(m)
  PROVE  QuietInv'
<1>1. /\ pc[m] = "running" /\ UNCHANGED <<active, phase>>
      /\ pc' = pc \/ \E s \in {"returned", "raised"} : pc' = [pc EXCEPT ![m] = s]
  BY DEF Attempt, Return, Raise, world
<1>2. m \in active
  BY <1>1 DEF QuietInv, OnlyActive
<1>3. phase \in {"serial", "saved"} => m \in Serial
  BY <1>1 DEF QuietInv, ParallelOver
<1>4. phase \in {"starting", "parallel"} => m \notin Serial
  BY <1>1 DEF QuietInv, SerialWaits
<1>5. ASSUME NEW s \in {"returned", "raised"}, pc' = [pc EXCEPT ![m] = s]
      PROVE  QuietInv'
  <2>1. PcTypeOK' /\ PhaseTypeOK' /\ OnlyActive'
    BY <1>1, <1>2, <1>5 DEF QuietInv, PcTypeOK, PhaseTypeOK, OnlyActive, Stages
  <2>2. SerialWaits' /\ ParallelOver'
    BY <1>1, <1>4, <1>5, ModuleNames DEF QuietInv, PcTypeOK, SerialWaits, ParallelOver
  <2>3. InTurn'
    <3>1. pc'["middlebox"] # "waiting" => pc["middlebox"] # "waiting"
      BY <1>1, <1>5, ModuleNames DEF QuietInv, PcTypeOK
    <3>2. pc["throttling"] = "merged" => pc'["throttling"] = "merged"
      BY <1>1, <1>5, ModuleNames DEF QuietInv, PcTypeOK
    <3> QED
      BY <1>1, <3>1, <3>2 DEF QuietInv, InTurn
  <2> QED
    BY <2>1, <2>2, <2>3 DEF QuietInv
<1>6. CASE pc' = pc
  BY <1>1, <1>6 DEF QuietInv, PcTypeOK, PhaseTypeOK, OnlyActive, SerialWaits, ParallelOver, InTurn
<1> QED
  BY <1>1, <1>5, <1>6

\* Only the parallel modules are started at once.
LEMMA QuietStartParallel == QuietInv /\ StartParallel => QuietInv'
<1> SUFFICES ASSUME QuietInv, StartParallel PROVE QuietInv'
  OBVIOUS
<1>1. /\ phase = "starting" /\ phase' = "parallel" /\ active' = active
      /\ pc' = [m \in Modules |-> IF m \in active \ Serial THEN "running" ELSE pc[m]]
  BY DEF StartParallel, world
<1>2. PcTypeOK' /\ PhaseTypeOK' /\ OnlyActive' /\ SerialWaits' /\ ParallelOver'
  BY <1>1, ModuleNames
     DEF QuietInv, PcTypeOK, PhaseTypeOK, OnlyActive, SerialWaits, ParallelOver, Stages
<1>3. pc'["middlebox"] = "waiting"
  BY <1>1, ModuleNames DEF QuietInv, SerialWaits, Serial
<1> QED
  BY <1>2, <1>3 DEF QuietInv, InTurn

\* When the gather is over, every parallel module has ended.
LEMMA QuietGathered == QuietInv /\ Gathered => QuietInv'
<1> SUFFICES ASSUME QuietInv, Gathered PROVE QuietInv'
  OBVIOUS
<1>1. /\ phase = "parallel" /\ phase' = "serial" /\ active' = active
      /\ pc' = [m \in Modules |-> IF m \in active \ Serial THEN "merged" ELSE pc[m]]
  BY DEF Gathered, Absorb, world
<1>2. PcTypeOK' /\ PhaseTypeOK' /\ OnlyActive' /\ SerialWaits'
  BY <1>1 DEF QuietInv, PcTypeOK, PhaseTypeOK, OnlyActive, SerialWaits, Stages
<1>3. ParallelOver'
  BY <1>1 DEF QuietInv, PcTypeOK, OnlyActive, ParallelOver
<1>4. pc'["middlebox"] = "waiting"
  BY <1>1, ModuleNames DEF QuietInv, SerialWaits, Serial
<1> QED
  BY <1>2, <1>3, <1>4 DEF QuietInv, InTurn

\* A serial module starts when its turn has come.
LEMMA QuietStartSerial ==
  ASSUME QuietInv, NEW m \in Serial, StartSerial(m)
  PROVE  QuietInv'
<1>1. /\ phase = "serial" /\ phase' = phase /\ active' = active
      /\ Turn(m) /\ pc[m] = "waiting" /\ pc' = [pc EXCEPT ![m] = "running"]
  BY DEF StartSerial, world
<1>2. m \in Modules /\ m \in active
  BY <1>1, ModuleNames, TurnRemains
<1>3. PcTypeOK' /\ PhaseTypeOK' /\ OnlyActive' /\ SerialWaits' /\ ParallelOver'
  BY <1>1, <1>2 DEF QuietInv, PcTypeOK, PhaseTypeOK, OnlyActive, SerialWaits, ParallelOver, Stages
<1>4. CASE m = "middlebox"
  <2>1. "throttling" \notin active \/ pc["throttling"] = "merged"
    BY <1>1, <1>4, SecondTurn DEF Remaining, Serial
  <2>2. pc'["throttling"] = pc["throttling"]
    BY <1>1, <1>4, ModuleNames DEF QuietInv, PcTypeOK, Serial
  <2> QED
    BY <1>1, <1>3, <2>1, <2>2 DEF QuietInv, InTurn
<1>5. CASE m = "throttling"
  <2>1. pc["middlebox"] = "waiting"
    BY <1>1, <1>2, <1>5 DEF QuietInv, InTurn
  <2>2. pc'["middlebox"] = pc["middlebox"]
    BY <1>1, <1>5, ModuleNames DEF QuietInv, PcTypeOK, Serial
  <2> QED
    BY <1>3, <2>1, <2>2 DEF QuietInv, InTurn
<1> QED
  BY <1>4, <1>5 DEF Serial

\* A serial module that has ended is merged.
LEMMA QuietSerialEnded ==
  ASSUME QuietInv, NEW m \in Serial, SerialEnded(m)
  PROVE  QuietInv'
<1>1. /\ phase = "serial" /\ phase' = phase /\ active' = active /\ Turn(m)
      /\ pc[m] \in {"returned", "raised"}
      /\ pc' = [n \in Modules |-> IF n \in {m} THEN "merged" ELSE pc[n]]
  BY DEF SerialEnded, Absorb, world
<1>2. m \in Modules /\ m \in active
  BY <1>1, ModuleNames, TurnRemains
<1>3. PcTypeOK' /\ PhaseTypeOK' /\ OnlyActive' /\ SerialWaits' /\ ParallelOver'
  BY <1>1, <1>2 DEF QuietInv, PcTypeOK, PhaseTypeOK, OnlyActive, SerialWaits, ParallelOver, Stages
<1>4. InTurn'
  <2>1. pc'["middlebox"] # "waiting" => pc["middlebox"] # "waiting"
    BY <1>1, ModuleNames DEF Serial
  <2>2. pc["throttling"] = "merged" => pc'["throttling"] = "merged"
    BY <1>1, ModuleNames DEF Serial
  <2> QED
    BY <1>1, <2>1, <2>2 DEF QuietInv, InTurn
<1> QED
  BY <1>3, <1>4 DEF QuietInv

\* The last serial module has been merged before the report is saved.
LEMMA QuietSaveReport == QuietInv /\ SaveReport => QuietInv'
BY DEF SaveReport, world, QuietInv, PcTypeOK, PhaseTypeOK, OnlyActive, SerialWaits, ParallelOver, InTurn

\* QuietInv is inductive.
LEMMA QuietStep == QuietInv /\ [Next]_vars => QuietInv'
<1> SUFFICES ASSUME QuietInv, [Next]_vars PROVE QuietInv'
  OBVIOUS
<1>1. CASE UNCHANGED vars
  BY <1>1 DEF vars, world, QuietInv, PcTypeOK, PhaseTypeOK, OnlyActive, SerialWaits, ParallelOver, InTurn
<1>2. CASE StartParallel \/ Gathered \/ SaveReport
  BY <1>2, QuietStartParallel, QuietGathered, QuietSaveReport
<1>3. CASE \E m \in Modules : Attempt(m) \/ Return(m) \/ Raise(m)
  BY <1>3, QuietRunning
<1>4. CASE \E m \in Serial : StartSerial(m) \/ SerialEnded(m)
  BY <1>4, QuietStartSerial, QuietSerialEnded
<1> QED
  BY <1>1, <1>2, <1>3, <1>4 DEF Next

\* Nothing runs beside a serial module: not a parallel one, since the gather
\* is over, and not the other serial one, since it is not its turn.
LEMMA QuietInvImplies == QuietInv => QuietUplink
<1> SUFFICES ASSUME QuietInv, NEW m \in Serial, NEW n \in Modules, pc[m] = "running", n # m
             PROVE  pc[n] # "running"
  BY DEF QuietUplink
<1>1. phase \in {"serial", "saved"}
  BY DEF QuietInv, PhaseTypeOK, SerialWaits
<1>2. CASE n \notin Serial
  BY <1>1, <1>2 DEF QuietInv, ParallelOver
<1>3. CASE n \in Serial
  <2>1. {m, n} = {"throttling", "middlebox"}
    BY <1>3 DEF Serial
  <2>2. ~ (pc["middlebox"] = "running" /\ pc["throttling"] = "running")
    BY ModuleNames DEF QuietInv, InTurn, OnlyActive
  <2> QED
    BY <2>1, <2>2
<1> QED
  BY <1>2, <1>3

\* The uplink is quiet while a serial module measures it, whatever is enabled
\* and whatever fails (run_all and _run_one in runner.py).
THEOREM QuietUplinkHolds == Spec => []QuietUplink
<1>1. Spec => []QuietInv
  BY QuietInit, QuietStep, PTL DEF Spec
<1> QED
  BY <1>1, QuietInvImplies, PTL

-----------------------------------------------------------------------------
(* What has been asked, and what was merged *)

WorldTypeOK ==
  /\ censor \in Censors /\ active \in ActiveSets
  /\ {vantage, required, ipv6, files} \subseteq BOOLEAN
  /\ losses \in 0..MaxLosses /\ raises \in 0..MaxRaises

\* A reply after which the question is put again, while there are attempts.
AskedAgain(q, reply) ==
  \/ q = "syn"
  \/ q \in {"ownSni", "neutralSni"} /\ reply # "done"
  \/ q = "get" /\ reply \in HttpRetried

\* What the attempts at one question are.
AttemptsInv(q, s) ==
  /\ s \in Seq([reply : Answers(q) \cup Silence(q), lost : BOOLEAN]) /\ Len(s) <= Repeats
  /\ \A i \in 1..Len(s) : IF s[i].lost THEN losses # 0 /\ s[i].reply \in Silence(q)
                                       ELSE s[i].reply \in Answers(q)
  /\ \A i \in 1..(Len(s) - 1) : AskedAgain(q, s[i].reply)

AskedInv ==
  /\ asked = [m \in Modules |-> [q \in MayAsk[m] |-> asked[m][q]]]
  /\ \A m \in Modules : \A q \in MayAsk[m] : AttemptsInv(q, asked[m][q])

\* A module that is reported, or about to be, has asked all its questions.
Done(m) == Open(m) = {} /\ ~ MissingTargets(m)
Reported == {m \in Modules : pc[m] = "merged" /\ m \notin ToSet(failures)}
DoneInv == \A m \in Modules : pc[m] = "returned" \/ m \in Reported => Done(m)

FailuresInv ==
  /\ failures \in Seq(Modules) /\ IsInjective(failures)
  /\ \A m \in ToSet(failures) : m \in active /\ pc[m] = "merged"

\* What is merged by when.
MergedInv ==
  /\ phase \in {"starting", "parallel"} => \A m \in Modules : pc[m] # "merged"
  /\ phase \in {"serial", "saved"} => \A m \in active \ Serial : pc[m] = "merged"
  /\ phase = "saved" => \A m \in active : pc[m] = "merged"

\* The results are those of the modules merged so far, in the order of the
\* registry.
ResultsInv == results = ResultsOfAll(Reported)

SoloInv == /\ QuietInv /\ WorldTypeOK /\ AskedInv /\ DoneInv
           /\ FailuresInv /\ MergedInv /\ ResultsInv

-----------------------------------------------------------------------------
(* Lists in the order of the registry *)

Joined(a, b, c, d, e, f, g, h) == ((((((a \o b) \o c) \o d) \o e) \o f) \o g) \o h
Concat(a, b) == a \o b
IsFlatten(s, g) == g = [i \in 1..8 |-> IF i = 1 THEN s[i] ELSE Concat(g[i - 1], s[i])]

\* Eight lists flattened are the eight lists one after the other.
LEMMA FlattenEight ==
  ASSUME NEW s, Len(s) = 8
  PROVE  FlattenSeq(s) = Joined(s[1], s[2], s[3], s[4], s[5], s[6], s[7], s[8])
<1> DEFINE flatten == CHOOSE g : IsFlatten(s, g)
<1>1. FlattenSeq(s) = flatten[8]
  BY DEF FlattenSeq, IsFlatten, Concat
<1>2. \E g : IsFlatten(s, g)
  <2> DEFINE c1 == s[1]
             c2 == Concat(c1, s[2])
             c3 == Concat(c2, s[3])
             c4 == Concat(c3, s[4])
             c5 == Concat(c4, s[5])
             c6 == Concat(c5, s[6])
             c7 == Concat(c6, s[7])
             c8 == Concat(c7, s[8])
             w == [i \in 1..8 |-> IF i = 1 THEN c1 ELSE IF i = 2 THEN c2 ELSE IF i = 3 THEN c3
                                  ELSE IF i = 4 THEN c4 ELSE IF i = 5 THEN c5 ELSE IF i = 6 THEN c6
                                  ELSE IF i = 7 THEN c7 ELSE c8]
  <2>1. /\ c2 = Concat(c1, s[2]) /\ c3 = Concat(c2, s[3]) /\ c4 = Concat(c3, s[4])
        /\ c5 = Concat(c4, s[5]) /\ c6 = Concat(c5, s[6]) /\ c7 = Concat(c6, s[7])
        /\ c8 = Concat(c7, s[8]) /\ c1 = s[1]
    OBVIOUS
  <2> HIDE DEF c1, c2, c3, c4, c5, c6, c7, c8
  <2>2. /\ w[1] = c1 /\ w[2] = c2 /\ w[3] = c3 /\ w[4] = c4
        /\ w[5] = c5 /\ w[6] = c6 /\ w[7] = c7 /\ w[8] = c8
        /\ w = [i \in 1..8 |-> w[i]]
    OBVIOUS
  <2> HIDE DEF w
  <2>3. \A i \in 1..8 : w[i] = IF i = 1 THEN s[i] ELSE Concat(w[i - 1], s[i])
    BY <2>1, <2>2
  <2>4. IsFlatten(s, w)
    BY <2>2, <2>3 DEF IsFlatten
  <2> QED BY <2>4
<1>3. IsFlatten(s, flatten)
  BY <1>2
<1> HIDE DEF flatten
<1>4. /\ flatten[1] = s[1] /\ flatten[2] = Concat(flatten[1], s[2])
      /\ flatten[3] = Concat(flatten[2], s[3]) /\ flatten[4] = Concat(flatten[3], s[4])
      /\ flatten[5] = Concat(flatten[4], s[5]) /\ flatten[6] = Concat(flatten[5], s[6])
      /\ flatten[7] = Concat(flatten[6], s[7]) /\ flatten[8] = Concat(flatten[7], s[8])
  BY <1>3 DEF IsFlatten
<1> QED BY <1>1, <1>4 DEF Joined, Concat

LEMMA InOrderIs ==
  ASSUME NEW part
  PROVE  InOrder(part) = Joined(part["dns"], part["tcp"], part["tls"], part["http"], part["telegram"],
                                part["cloudflare"], part["throttling"], part["middlebox"])
<1> DEFINE s == [i \in DOMAIN MODULES |-> part[MODULES[i]]]
<1>1. /\ DOMAIN MODULES = 1..8
      /\ MODULES[1] = "dns" /\ MODULES[2] = "tcp" /\ MODULES[3] = "tls" /\ MODULES[4] = "http"
      /\ MODULES[5] = "telegram" /\ MODULES[6] = "cloudflare"
      /\ MODULES[7] = "throttling" /\ MODULES[8] = "middlebox"
  BY DEF MODULES
<1>2. /\ s[1] = part["dns"] /\ s[2] = part["tcp"] /\ s[3] = part["tls"] /\ s[4] = part["http"]
      /\ s[5] = part["telegram"] /\ s[6] = part["cloudflare"]
      /\ s[7] = part["throttling"] /\ s[8] = part["middlebox"]
  BY <1>1
<1>3. Len(s) = 8
  BY <1>1
<1>4. InOrder(part) = FlattenSeq(s)
  BY DEF InOrder
<1> HIDE DEF s
<1> QED BY <1>2, <1>3, <1>4, FlattenEight

\* The list has its elements from the parts.
LEMMA InOrderType ==
  ASSUME NEW T, NEW part, \A m \in Modules : part[m] \in Seq(T)
  PROVE  InOrder(part) \in Seq(T)
<1> DEFINE s1 == part["dns"] \o part["tcp"]
           s2 == s1 \o part["tls"]
           s3 == s2 \o part["http"]
           s4 == s3 \o part["telegram"]
           s5 == s4 \o part["cloudflare"]
           s6 == s5 \o part["throttling"]
<1>1. \A a, b \in Seq(T) : a \o b \in Seq(T)
  OBVIOUS
<1>2. s1 \in Seq(T)
  BY <1>1, ModuleNames
<1>3. s2 \in Seq(T)
  BY <1>1, <1>2, ModuleNames
<1>4. s3 \in Seq(T)
  BY <1>1, <1>3, ModuleNames
<1>5. s4 \in Seq(T)
  BY <1>1, <1>4, ModuleNames
<1>6. s5 \in Seq(T)
  BY <1>1, <1>5, ModuleNames
<1>7. s6 \in Seq(T)
  BY <1>1, <1>6, ModuleNames
<1>8. s6 \o part["middlebox"] \in Seq(T)
  BY <1>1, <1>7, ModuleNames
<1> QED BY <1>8, InOrderIs DEF Joined

\* r is p, empty from a module on, continued by q, which is empty before it.
Continues(p, q, r) ==
  \/ \A m \in Modules : p[m] = <<>> /\ r[m] = q[m]
  \/ /\ \A m \in Modules \ Serial : q[m] = <<>> /\ r[m] = p[m]
     /\ p["middlebox"] = <<>> /\ q["middlebox"] = <<>> /\ r["middlebox"] = <<>>
     /\ p["throttling"] = <<>> /\ r["throttling"] = q["throttling"]
  \/ /\ \A m \in Modules \ {"middlebox"} : q[m] = <<>> /\ r[m] = p[m]
     /\ p["middlebox"] = <<>> /\ r["middlebox"] = q["middlebox"]
LEMMA InOrderJoins ==
  ASSUME NEW T, NEW p, NEW q, NEW r,
         \A m \in Modules : p[m] \in Seq(T) /\ q[m] \in Seq(T) /\ r[m] \in Seq(T),
         Continues(p, q, r)
  PROVE  InOrder(p) \o InOrder(q) = InOrder(r)
<1>0. \A s \in Seq(T) : s \o <<>> = s /\ <<>> \o s = s
  OBVIOUS
<1>1. /\ InOrder(p) = Joined(p["dns"], p["tcp"], p["tls"], p["http"], p["telegram"],
                             p["cloudflare"], p["throttling"], p["middlebox"])
      /\ InOrder(q) = Joined(q["dns"], q["tcp"], q["tls"], q["http"], q["telegram"],
                             q["cloudflare"], q["throttling"], q["middlebox"])
      /\ InOrder(r) = Joined(r["dns"], r["tcp"], r["tls"], r["http"], r["telegram"],
                             r["cloudflare"], r["throttling"], r["middlebox"])
      /\ InOrder(p) \in Seq(T) /\ InOrder(q) \in Seq(T)
  BY InOrderIs, InOrderType
<1>2. \A t \in Seq(T) : /\ Joined(<<>>, <<>>, <<>>, <<>>, <<>>, <<>>, t, <<>>) = t
                        /\ Joined(<<>>, <<>>, <<>>, <<>>, <<>>, <<>>, <<>>, t) = t
                        /\ Joined(<<>>, <<>>, <<>>, <<>>, <<>>, <<>>, <<>>, <<>>) = <<>>
  BY <1>0 DEF Joined
<1>3. CASE \A m \in Modules : p[m] = <<>> /\ r[m] = q[m]
  <2>1. InOrder(p) = <<>> /\ InOrder(r) = InOrder(q)
    BY <1>1, <1>2, <1>3, ModuleNames
  <2> QED BY <1>0, <1>1, <2>1
<1> DEFINE six == ((((p["dns"] \o p["tcp"]) \o p["tls"]) \o p["http"]) \o p["telegram"]) \o p["cloudflare"]
<1>4. six \in Seq(T) /\ InOrder(p) = (six \o p["throttling"]) \o p["middlebox"]
  <2>0. \A a, b \in Seq(T) : a \o b \in Seq(T)
    OBVIOUS
  <2>1. /\ p["dns"] \in Seq(T) /\ p["tcp"] \in Seq(T) /\ p["tls"] \in Seq(T) /\ p["http"] \in Seq(T)
        /\ p["telegram"] \in Seq(T) /\ p["cloudflare"] \in Seq(T)
    BY ModuleNames
  <2>2. p["dns"] \o p["tcp"] \in Seq(T)
    BY <2>0, <2>1
  <2>3. (p["dns"] \o p["tcp"]) \o p["tls"] \in Seq(T)
    BY <2>0, <2>1, <2>2
  <2>4. ((p["dns"] \o p["tcp"]) \o p["tls"]) \o p["http"] \in Seq(T)
    BY <2>0, <2>1, <2>3
  <2>5. (((p["dns"] \o p["tcp"]) \o p["tls"]) \o p["http"]) \o p["telegram"] \in Seq(T)
    BY <2>0, <2>1, <2>4
  <2>6. six \in Seq(T)
    BY <2>0, <2>1, <2>5
  <2>7. InOrder(p) = (six \o p["throttling"]) \o p["middlebox"]
    BY <1>1, Zenon DEF Joined
  <2> QED BY <2>6, <2>7
<1>5. CASE /\ \A m \in Modules \ Serial : q[m] = <<>> /\ r[m] = p[m]
           /\ p["middlebox"] = <<>> /\ q["middlebox"] = <<>> /\ r["middlebox"] = <<>>
           /\ p["throttling"] = <<>> /\ r["throttling"] = q["throttling"]
  <2>1. {"dns", "tcp", "tls", "http", "telegram", "cloudflare"} \subseteq Modules \ Serial
    BY ModuleNames DEF Serial
  <2>2. InOrder(q) = q["throttling"]
    BY <1>1, <1>2, <1>5, <2>1, ModuleNames
  <2>3. InOrder(r) = (six \o q["throttling"]) \o <<>>
    BY <1>1, <1>5, <2>1 DEF Joined
  <2> HIDE DEF six
  <2>4. InOrder(p) = six
    BY <1>0, <1>4, <1>5
  <2>5. six \o q["throttling"] \in Seq(T)
    BY <1>4, ModuleNames
  <2> QED BY <1>0, <2>2, <2>3, <2>4, <2>5
<1>6. CASE /\ \A m \in Modules \ {"middlebox"} : q[m] = <<>> /\ r[m] = p[m]
           /\ p["middlebox"] = <<>> /\ r["middlebox"] = q["middlebox"]
  <2>1. {"dns", "tcp", "tls", "http", "telegram", "cloudflare", "throttling"} \subseteq Modules \ {"middlebox"}
    BY ModuleNames
  <2>2. InOrder(q) = q["middlebox"]
    BY <1>1, <1>2, <1>6, <2>1, ModuleNames
  <2>3. InOrder(r) = (six \o p["throttling"]) \o q["middlebox"]
    BY <1>1, <1>6, <2>1 DEF Joined
  <2> HIDE DEF six
  <2>4. six \o p["throttling"] \in Seq(T)
    BY <1>4, ModuleNames
  <2>5. InOrder(p) = six \o p["throttling"]
    BY <1>0, <1>4, <1>6, <2>4
  <2> QED BY <2>2, <2>3, <2>5
<1> QED BY <1>3, <1>5, <1>6 DEF Continues

-----------------------------------------------------------------------------
(* What the tests make of the replies *)

Tests == (UNION {MayAsk[m] : m \in Modules}) \cup {"ipv6Skipped", "health"}
Methods ==
  {"none", "ip_dropped", "tcp_rst_injection", "tcp_refused", "tcp_rst_after_tls_ch",
   "tls_handshake_failure", "ech_blocked", "doh_blocked", "dns_blocked_nxdomain",
   "dns_poisoning", "quic_dropped", "sni_throttling", "middlebox_http_manipulation"}
Rtts == {NoRtt, 5, 60, 5000}
ResultType == [category : Modules, test : Tests, verdict : Verdicts, method : Methods,
               rtt : Rtts]

\* What was lost, of what BlockedIsEarned asks of a blocking verdict.
Earned(m, test) ==
  CASE test = "syn" -> 2 * Lost(m, test) >= Repeats
    [] test \in {"ownSni", "get"} -> Lost(m, test) = Repeats
    [] test = "neutralSni" -> Last(asked[m][test]).lost
    [] test = "health" -> Lost(m, "dcV4") + Lost(m, "dcV6") > 0
    [] OTHER -> Lost(m, test) = 1

\* A result is as the properties want it.
Blocking(r) == r.verdict \in BLOCKING_VERDICTS
Seen(r) == \A seen \in Attributed : seen[1] = r.test =>
             Blocking(r) /\ r.method = seen[2] /\ r.method # "none"
Sound(m, r) ==
  /\ r \in ResultType /\ r.category = m
  /\ censor = "none" /\ Blocking(r) => Earned(m, r.test)
  /\ losses = 0 => Seen(r)

\* Who is to be seen by which test.
LEMMA Attribution ==
  ASSUME censor \in Censors, NEW seen \in Attributed
  PROVE  \/ /\ censor = "dropsIp" /\ seen[2] = "ip_dropped"
            /\ seen[1] \in {"syn", "ownSni", "get", "dcV4", "warpTcp", "page"}
         \/ censor = "resetsTcp" /\ seen[1] = "syn" /\ vantage /\ seen[2] = "tcp_rst_injection"
         \/ censor = "resetsTcp" /\ seen[1] = "syn" /\ ~ vantage /\ seen[2] = "tcp_refused"
         \/ censor = "resetsTcp" /\ seen[1] \in {"dcV4", "warpTcp"} /\ seen[2] = "tcp_refused"
         \/ censor \in {"resetsSni", "dropsSni"} /\ seen[1] = "ownSni" /\ seen[2] = "tcp_rst_after_tls_ch"
         \/ censor = "dropsSni" /\ seen[1] \in {"get", "web", "page"} /\ seen[2] = "ip_dropped"
         \/ /\ censor = "forgesCerts" /\ seen[1] \in {"get", "web", "page"}
            /\ seen[2] = "tls_handshake_failure"
         \/ censor = "poisonsDns" /\ seen[1] = "system" /\ seen[2] = "dns_poisoning"
         \/ censor = "deniesDns" /\ seen[1] = "system" /\ seen[2] = "dns_blocked_nxdomain"
         \/ censor = "blocksDoh" /\ seen[1] = "dohAccess" /\ seen[2] = "doh_blocked"
         \/ censor = "dropsQuic" /\ vantage /\ seen[1] = "quic" /\ seen[2] = "quic_dropped"
         \/ /\ censor = "throttles" /\ ~ (required /\ ~ vantage)
            /\ seen[1] = "trigger" /\ seen[2] = "sni_throttling"
<1>1. CASE censor = "dropsIp"
  BY <1>1 DEF Attributed
<1>2. CASE censor = "resetsTcp"
  <2>1. \/ vantage /\ seen = <<"syn", "tcp_rst_injection">>
        \/ ~ vantage /\ seen = <<"syn", "tcp_refused">>
        \/ seen = <<"dcV4", "tcp_refused">> \/ seen = <<"warpTcp", "tcp_refused">>
    BY <1>2 DEF Attributed
  <2>2. \/ vantage /\ seen[1] = "syn" /\ seen[2] = "tcp_rst_injection"
        \/ ~ vantage /\ seen[1] = "syn" /\ seen[2] = "tcp_refused"
        \/ seen[1] \in {"dcV4", "warpTcp"} /\ seen[2] = "tcp_refused"
    <3>1. CASE vantage /\ seen = <<"syn", "tcp_rst_injection">>
      BY <3>1
    <3>2. CASE ~ vantage /\ seen = <<"syn", "tcp_refused">>
      BY <3>2
    <3>3. CASE seen = <<"dcV4", "tcp_refused">>
      BY <3>3
    <3>4. CASE seen = <<"warpTcp", "tcp_refused">>
      BY <3>4
    <3> QED BY <2>1, <3>1, <3>2, <3>3, <3>4
  <2> QED BY <1>2, <2>2
<1>3. CASE censor = "resetsSni"
  <2>1. seen = <<"ownSni", "tcp_rst_after_tls_ch">>
    BY <1>3 DEF Attributed
  <2> QED BY <1>3, <2>1
<1>4. CASE censor = "dropsSni"
  <2>1. \/ seen = <<"ownSni", "tcp_rst_after_tls_ch">> \/ seen = <<"get", "ip_dropped">>
        \/ seen = <<"web", "ip_dropped">> \/ seen = <<"page", "ip_dropped">>
    BY <1>4 DEF Attributed
  <2>2. \/ seen[1] = "ownSni" /\ seen[2] = "tcp_rst_after_tls_ch"
        \/ seen[1] \in {"get", "web", "page"} /\ seen[2] = "ip_dropped"
    <3>1. CASE seen = <<"ownSni", "tcp_rst_after_tls_ch">>
      BY <3>1
    <3>2. CASE seen = <<"get", "ip_dropped">>
      BY <3>2
    <3>3. CASE seen = <<"web", "ip_dropped">>
      BY <3>3
    <3>4. CASE seen = <<"page", "ip_dropped">>
      BY <3>4
    <3> QED BY <2>1, <3>1, <3>2, <3>3, <3>4
  <2> QED BY <1>4, <2>2
<1>5. CASE censor = "forgesCerts"
  BY <1>5 DEF Attributed
<1>6. CASE censor = "poisonsDns"
  <2>1. seen = <<"system", "dns_poisoning">>
    BY <1>6 DEF Attributed
  <2> QED BY <1>6, <2>1
<1>7. CASE censor = "deniesDns"
  <2>1. seen = <<"system", "dns_blocked_nxdomain">>
    BY <1>7 DEF Attributed
  <2> QED BY <1>7, <2>1
<1>8. CASE censor = "blocksDoh"
  <2>1. seen = <<"dohAccess", "doh_blocked">>
    BY <1>8 DEF Attributed
  <2> QED BY <1>8, <2>1
<1>9. CASE censor = "dropsQuic"
  <2>1. vantage /\ seen = <<"quic", "quic_dropped">>
    BY <1>9 DEF Attributed
  <2> QED BY <1>9, <2>1
<1>10. CASE censor = "throttles"
  <2>1. ~ (required /\ ~ vantage) /\ seen = <<"trigger", "sni_throttling">>
    BY <1>10 DEF Attributed
  <2> QED BY <1>10, <2>1
<1>11. CASE censor \in {"none", "rewritesHttp"}
  BY <1>11 DEF Attributed
<1> QED BY <1>1, <1>2, <1>3, <1>4, <1>5, <1>6, <1>7, <1>8, <1>9, <1>10, <1>11 DEF Censors

-----------------------------------------------------------------------------
(* The attempts at one question *)

Repeated == {"syn", "ownSni", "neutralSni", "get"}

LEMMA Elements ==
  ASSUME NEW T, NEW s \in Seq(T)
  PROVE  \A i \in 1..Len(s) : s[i] \in T
OBVIOUS

LEMMA AttemptsOf ==
  ASSUME AskedInv, NEW m \in Modules, NEW q \in MayAsk[m]
  PROVE  /\ AttemptsInv(q, asked[m][q]) /\ DOMAIN asked[m][q] = 1..Len(asked[m][q])
         /\ Len(asked[m][q]) \in Nat /\ Len(Replies(asked[m], q)) = Len(asked[m][q])
         /\ Replies(asked[m], q) = <<>> <=> asked[m][q] = <<>>
         /\ \A i \in 1..Len(asked[m][q]) : Replies(asked[m], q)[i] = asked[m][q][i].reply
         /\ asked[m][q] # <<>> =>
              /\ Len(asked[m][q]) > 0
              /\ Reply(asked[m], q) = asked[m][q][Len(asked[m][q])].reply
              /\ Reply(asked[m], q) = Last(Replies(asked[m], q))
<1>1. AttemptsInv(q, asked[m][q])
  BY DEF AskedInv
<1>2. asked[m][q] \in Seq([reply : Answers(q) \cup Silence(q), lost : BOOLEAN])
  BY <1>1 DEF AttemptsInv
<1>3. DOMAIN asked[m][q] = 1..Len(asked[m][q]) /\ Len(asked[m][q]) \in Nat
  BY <1>2
<1>4. asked[m][q] # <<>> => Len(asked[m][q]) > 0
  BY <1>2
<1>5. /\ Len(Replies(asked[m], q)) = Len(asked[m][q])
      /\ \A i \in 1..Len(asked[m][q]) : Replies(asked[m], q)[i] = asked[m][q][i].reply
      /\ Replies(asked[m], q) = <<>> <=> asked[m][q] = <<>>
      /\ asked[m][q] # <<>> =>
           Last(Replies(asked[m], q)) = asked[m][q][Len(asked[m][q])].reply
  <2> DEFINE T == Answers(q) \cup Silence(q)
             R == [reply : T, lost : BOOLEAN]
             s == asked[m][q]
             r == Replies(asked[m], q)
  <2>1. s \in Seq(R)
    BY <1>2
  <2>2. r = [i \in 1..Len(s) |-> s[i].reply]
    BY <1>3 DEF Replies
  <2> HIDE DEF R, s, r
  <2>3. \A i \in 1..Len(s) : s[i] \in R
    BY <2>1, Elements
  <2>4. \A i \in 1..Len(s) : s[i].reply \in T
    BY <2>3 DEF R
  <2> HIDE DEF T
  <2>5. r \in Seq(T) /\ Len(r) = Len(s) /\ Len(s) \in Nat
    BY <2>1, <2>2, <2>4
  <2>6. r = <<>> <=> s = <<>>
    BY <2>1, <2>5
  <2>7. s # <<>> => Len(s) \in 1..Len(s)
    BY <2>1
  <2>8. s # <<>> => r[Len(r)] = s[Len(s)].reply
    BY <2>2, <2>5, <2>7
  <2> QED BY <2>2, <2>5, <2>6, <2>8 DEF s, r, Last
<1> QED BY <1>1, <1>3, <1>4, <1>5 DEF Reply

\* The last reply came over the path, or its attempt was lost.
LEMMA LastReply ==
  ASSUME AskedInv, NEW m \in Modules, NEW q \in MayAsk[m], asked[m][q] # <<>>
  PROVE  \/ /\ Reply(asked[m], q) \in Answers(q)
            /\ ~ asked[m][q][Len(asked[m][q])].lost
         \/ /\ losses # 0 /\ Reply(asked[m], q) \in Silence(q)
            /\ asked[m][q][Len(asked[m][q])].lost /\ Last(asked[m][q]).lost
<1>1. Len(asked[m][q]) \in 1..Len(asked[m][q])
  BY AttemptsOf
<1> DEFINE s == asked[m][q]
           n == Len(asked[m][q])
<1>2. IF s[n].lost THEN losses # 0 /\ s[n].reply \in Silence(q) ELSE s[n].reply \in Answers(q)
  BY <1>1, AttemptsOf DEF AttemptsInv
<1>3. Reply(asked[m], q) = s[n].reply /\ Last(s) = s[n]
  BY AttemptsOf DEF Last
<1> HIDE DEF s, n
<1>4. CASE s[n].lost
  BY <1>2, <1>3, <1>4 DEF s, n
<1>5. CASE ~ s[n].lost
  BY <1>2, <1>3, <1>5 DEF s, n
<1> QED BY <1>4, <1>5

\* A question that is put once: its one reply came over the path, or the one
\* attempt was lost.
LEMMA OnlyReply ==
  ASSUME AskedInv, NEW m \in Modules, NEW q \in MayAsk[m] \ Repeated, asked[m][q] # <<>>
  PROVE  \/ Reply(asked[m], q) \in Answers(q)
         \/ losses # 0 /\ Lost(m, q) = 1 /\ Reply(asked[m], q) \in Silence(q)
<1> DEFINE s == asked[m][q]
<1>1. /\ Len(s) \in Nat /\ Len(s) > 0 /\ DOMAIN s = 1..Len(s)
      /\ \A i \in 1..(Len(s) - 1) : AskedAgain(q, s[i].reply)
  BY AttemptsOf DEF AttemptsInv
<1>2. \A reply : ~ AskedAgain(q, reply)
  BY DEF AskedAgain, Repeated
<1>3. Len(s) = 1
  <2>1. Len(s) > 1 => 1 \in 1..(Len(s) - 1)
    BY <1>1
  <2> HIDE DEF s
  <2> QED BY <1>1, <1>2, <2>1
<1>4. CASE s[1].lost
  <2>1. {i \in DOMAIN s : s[i].lost} = {1}
    BY <1>1, <1>3, <1>4
  <2>2. Lost(m, q) = 1
    BY <2>1, FS_Singleton DEF Lost
  <2> QED BY <1>3, <1>4, <2>2, LastReply
<1>5. CASE ~ s[1].lost
  BY <1>3, <1>5, LastReply
<1> QED BY <1>4, <1>5

\* A module that is done has an answer to all its questions.
LEMMA DoneReplies ==
  ASSUME AskedInv, NEW m \in Modules, Done(m), NEW i \in DOMAIN Questions(m),
         Questions(m)[i] \in MayAsk[m]
  PROVE  /\ asked[m][Questions(m)[i]] # <<>>
         /\ Answered(Questions(m)[i], Replies(asked[m], Questions(m)[i]))
<1>1. Answered(Questions(m)[i], Replies(asked[m], Questions(m)[i]))
  BY DEF Done, Open
<1>2. Replies(asked[m], Questions(m)[i]) # <<>>
  BY <1>1 DEF Answered
<1> QED BY <1>1, <1>2, AttemptsOf

-----------------------------------------------------------------------------
(* Every module reports what the properties want *)

FoundType == [verdict : Verdicts, method : Methods]
Sounds(m) == {r \in ResultType : Sound(m, r)}
\* A finding of a test is as the properties want it.
Earns(m, test, found) == censor = "none" /\ found.verdict \in BLOCKING_VERDICTS => Earned(m, test)
Sees(test, found) ==
  losses = 0 => \A seen \in Attributed : seen[1] = test =>
                  /\ found.verdict \in BLOCKING_VERDICTS
                  /\ found.method = seen[2] /\ found.method # "none"
Fits(m, test, found) == found \in FoundType /\ Earns(m, test, found) /\ Sees(test, found)

LEMMA VerdictNames ==
  /\ Verdicts = {"BLOCKED", "THROTTLED", "ANOMALY", "HANDSHAKE_ONLY", "ERROR",
                 "SERVER_REFUSED", "INCONCLUSIVE", "OK"}
  /\ {"none", "ip_dropped", "tcp_rst_injection", "tcp_refused", "tcp_rst_after_tls_ch",
      "tls_handshake_failure", "ech_blocked", "doh_blocked", "dns_blocked_nxdomain",
      "dns_poisoning", "quic_dropped", "sni_throttling", "middlebox_http_manipulation"} = Methods
BY DEF Verdicts, Severity, Methods

\* The findings of the tests.
LEMMA KnownFindings ==
  /\ \A verdict \in {"OK", "INCONCLUSIVE", "ANOMALY", "ERROR", "SERVER_REFUSED"} :
       \A method \in Methods : /\ Is(verdict, method) \in FoundType
                                /\ Is(verdict, method).verdict \notin BLOCKING_VERDICTS
  /\ \A method \in Methods :
       /\ Is("BLOCKED", method) \in FoundType
       /\ Is("BLOCKED", method).verdict \in BLOCKING_VERDICTS /\ Is("BLOCKED", method).method = method
BY VerdictNames DEF Is, FoundType, BLOCKING_VERDICTS

LEMMA FitsSound ==
  ASSUME NEW m \in Modules, NEW test \in Tests, NEW found, Fits(m, test, found),
         NEW rtt \in Rtts
  PROVE  [category |-> m, test |-> test, verdict |-> found.verdict,
          method |-> found.method, rtt |-> rtt] \in Sounds(m)
<1> DEFINE r == [category |-> m, test |-> test, verdict |-> found.verdict,
                 method |-> found.method, rtt |-> rtt]
<1>1. found.verdict \in Verdicts /\ found.method \in Methods
  BY DEF Fits, FoundType
<1>2. /\ r.category = m /\ r.test = test /\ r.verdict = found.verdict /\ r.method = found.method
      /\ r \in ResultType
  BY <1>1 DEF ResultType
<1> HIDE DEF r
<1>3. Sound(m, r)
  BY <1>2 DEF Sound, Seen, Blocking, Fits, Earns, Sees
<1> QED BY <1>2, <1>3 DEF r, Sounds

\* A test sees a censor when its finding names the method.
LEMMA SeesAll ==
  ASSUME WorldTypeOK, NEW test, NEW found,
         losses = 0 => \A seen \in Attributed : seen[1] = test =>
                         found = Is("BLOCKED", seen[2]) \/ found = Is("THROTTLED", seen[2])
  PROVE  Sees(test, found)
<1> SUFFICES ASSUME losses = 0, NEW seen \in Attributed, seen[1] = test
             PROVE  /\ found.verdict \in BLOCKING_VERDICTS
                    /\ found.method = seen[2] /\ found.method # "none"
  BY DEF Sees
<1>1. seen[2] # "none"
  BY Attribution DEF WorldTypeOK
<1>2. found = Is("BLOCKED", seen[2]) \/ found = Is("THROTTLED", seen[2])
  OBVIOUS
<1> QED BY <1>1, <1>2 DEF Is, BLOCKING_VERDICTS

\* The tests that ask one question once.
LEMMA DohAccessFits ==
  ASSUME AskedInv, WorldTypeOK, asked["dns"]["dohAccess"] # <<>>
  PROVE  Fits("dns", "dohAccess", DohAccess[Reply(asked["dns"], "dohAccess")])
<1> DEFINE reply == Reply(asked["dns"], "dohAccess")
           found == DohAccess[reply]
<1>1. \/ reply \in Answers("dohAccess")
      \/ losses # 0 /\ Lost("dns", "dohAccess") = 1 /\ reply \in Silence("dohAccess")
  BY OnlyReply, ModuleNames DEF MayAsk, Repeated
<1>2. /\ Answers("dohAccess") = IF censor = "blocksDoh" THEN {"nothing"} ELSE {"address"}
      /\ Silence("dohAccess") = {"nothing"}
  BY DEF Answers, Silence
<1> HIDE DEF reply
<1>3. \/ losses # 0 /\ Lost("dns", "dohAccess") = 1 /\ reply = "nothing"
      \/ censor = "blocksDoh" /\ reply = "nothing"
      \/ censor # "blocksDoh" /\ reply = "address"
  BY <1>1, <1>2
<1>4. /\ reply = "nothing" => found = Is("BLOCKED", "doh_blocked")
      /\ reply = "address" => found = Is("OK", "none")
  <2>1. DohAccess["nothing"] = Is("BLOCKED", "doh_blocked")
    BY DEF DohAccess, Blocked, Ok
  <2>2. DohAccess["address"] = Is("OK", "none")
    BY DEF DohAccess, Blocked, Ok
  <2> QED BY <2>1, <2>2
<1> HIDE DEF found
<1>5. found \in FoundType
  BY <1>3, <1>4, KnownFindings, VerdictNames
<1>6. Earns("dns", "dohAccess", found)
  BY <1>3, <1>4, KnownFindings, VerdictNames DEF Earns, Earned
<1>7. Sees("dohAccess", found)
  <2> SUFFICES ASSUME losses = 0, NEW seen \in Attributed, seen[1] = "dohAccess"
               PROVE  found = Is("BLOCKED", seen[2])
    BY SeesAll
  <2>1. censor = "blocksDoh" /\ seen[2] = "doh_blocked"
    BY Attribution DEF WorldTypeOK
  <2> QED BY <1>3, <1>4, <2>1
<1> QED BY <1>5, <1>6, <1>7 DEF found, reply, Fits

LEMMA EchFits ==
  ASSUME AskedInv, WorldTypeOK, asked["tls"]["ech"] # <<>>
  PROVE  Fits("tls", "ech", EchOutcome[Reply(asked["tls"], "ech")])
<1> DEFINE reply == Reply(asked["tls"], "ech")
           found == EchOutcome[reply]
<1>1. \/ reply \in Answers("ech")
      \/ losses # 0 /\ Lost("tls", "ech") = 1 /\ reply \in Silence("ech")
  BY OnlyReply, ModuleNames DEF MayAsk, Repeated
<1>2. /\ Answers("ech") = IF censor = "blocksDoh" THEN {"absent"}
                       ELSE IF censor \in {"dropsIp", "resetsTcp"} THEN {"network"}
                       ELSE {"done", "absent"}
      /\ Silence("ech") = {"network", "killed"}
  BY DEF Answers, Silence
<1> HIDE DEF reply
<1>3. \/ losses # 0 /\ Lost("tls", "ech") = 1 /\ reply \in {"network", "killed"}
      \/ censor \in {"dropsIp", "resetsTcp"} /\ reply = "network"
      \/ reply \in {"done", "absent"}
  BY <1>1, <1>2
<1>4. /\ reply = "network" => found = Is("BLOCKED", "ech_blocked")
      /\ reply = "done" => found = Is("OK", "none")
      /\ reply \in {"absent", "killed"} => found = Is("INCONCLUSIVE", "none")
  <2>1. EchOutcome["network"] = Is("BLOCKED", "ech_blocked")
    BY DEF EchOutcome, Blocked, Ok, Inconclusive
  <2>2. EchOutcome["done"] = Is("OK", "none")
    BY DEF EchOutcome, Blocked, Ok, Inconclusive
  <2>3. EchOutcome["absent"] = Is("INCONCLUSIVE", "none")
    BY DEF EchOutcome, Blocked, Ok, Inconclusive
  <2>4. EchOutcome["killed"] = Is("INCONCLUSIVE", "none")
    BY DEF EchOutcome, Blocked, Ok, Inconclusive
  <2> QED BY <2>1, <2>2, <2>3, <2>4
<1> HIDE DEF found
<1>5. found \in FoundType
  BY <1>3, <1>4, KnownFindings, VerdictNames
<1>6. Earns("tls", "ech", found)
  BY <1>3, <1>4, KnownFindings, VerdictNames DEF Earns, Earned
<1>7. Sees("ech", found)
  <2> SUFFICES ASSUME losses = 0, NEW seen \in Attributed, seen[1] = "ech"
               PROVE  FALSE
    BY SeesAll
  <2> QED BY Attribution DEF WorldTypeOK
<1> QED BY <1>5, <1>6, <1>7 DEF found, reply, Fits

LEMMA DcFits ==
  ASSUME AskedInv, WorldTypeOK, NEW q \in {"dcV4", "dcV6"}, asked["telegram"][q] # <<>>
  PROVE  Fits("telegram", q, DcOutcome[Reply(asked["telegram"], q)])
<1> DEFINE reply == Reply(asked["telegram"], q)
           found == DcOutcome[reply]
<1>1. \/ reply \in Answers(q)
      \/ losses # 0 /\ Lost("telegram", q) = 1 /\ reply \in Silence(q)
  BY OnlyReply, ModuleNames DEF MayAsk, Repeated
<1>2. /\ Answers(q) = (IF censor = "dropsIp" THEN {"timeout"}
                     ELSE IF censor = "resetsTcp" THEN {"refused"} ELSE {"open"})
                      \cup (IF q = "dcV6" THEN {"noRoute"} ELSE {})
      /\ Silence(q) = {"timeout", "otherError"}
  BY DEF Answers, Silence
<1> HIDE DEF reply
<1>3. \/ losses # 0 /\ Lost("telegram", q) = 1 /\ reply \in {"timeout", "otherError"}
      \/ censor = "dropsIp" /\ reply = "timeout"
      \/ censor = "resetsTcp" /\ reply = "refused"
      \/ censor \notin {"dropsIp", "resetsTcp"} /\ reply = "open"
      \/ q = "dcV6" /\ reply = "noRoute"
  BY <1>1, <1>2
<1>4. /\ reply = "timeout" => found = Is("BLOCKED", "ip_dropped")
      /\ reply = "refused" => found = Is("BLOCKED", "tcp_refused")
      /\ reply = "open" => found = Is("OK", "none")
      /\ reply = "noRoute" => found = Is("INCONCLUSIVE", "none")
      /\ reply = "otherError" => found = Is("BLOCKED", "none")
  <2>1. DcOutcome["timeout"] = Is("BLOCKED", "ip_dropped")
    BY DEF DcOutcome, Blocked, Ok, Inconclusive
  <2>2. DcOutcome["refused"] = Is("BLOCKED", "tcp_refused")
    BY DEF DcOutcome, Blocked, Ok, Inconclusive
  <2>3. DcOutcome["open"] = Is("OK", "none")
    BY DEF DcOutcome, Blocked, Ok, Inconclusive
  <2>4. DcOutcome["noRoute"] = Is("INCONCLUSIVE", "none")
    BY DEF DcOutcome, Blocked, Ok, Inconclusive
  <2>5. DcOutcome["otherError"] = Is("BLOCKED", "none")
    BY DEF DcOutcome, Blocked, Ok, Inconclusive
  <2> QED BY <2>1, <2>2, <2>3, <2>4, <2>5
<1> HIDE DEF found
<1>5. found \in FoundType
  BY <1>3, <1>4, KnownFindings, VerdictNames
<1>6. Earns("telegram", q, found)
  BY <1>3, <1>4, KnownFindings, VerdictNames DEF Earns, Earned
<1>7. Sees(q, found)
  <2> SUFFICES ASSUME losses = 0, NEW seen \in Attributed, seen[1] = q
               PROVE  found = Is("BLOCKED", seen[2])
    BY SeesAll
  <2>1. /\ q = "dcV4"
        /\ \/ censor = "dropsIp" /\ seen[2] = "ip_dropped"
           \/ censor = "resetsTcp" /\ seen[2] = "tcp_refused"
    BY Attribution DEF WorldTypeOK
  <2>2. CASE censor = "dropsIp" /\ seen[2] = "ip_dropped" /\ q = "dcV4"
    <3>1. reply = "timeout"
      BY <1>3, <2>2
    <3> QED BY <1>4, <2>2, <3>1
  <2>3. CASE censor = "resetsTcp" /\ seen[2] = "tcp_refused" /\ q = "dcV4"
    <3>1. reply = "refused"
      BY <1>3, <2>3
    <3> QED BY <1>4, <2>3, <3>1
  <2> QED BY <2>1, <2>2, <2>3
<1> QED BY <1>5, <1>6, <1>7 DEF found, reply, Fits

LEMMA WebFits ==
  ASSUME AskedInv, WorldTypeOK, NEW q \in {"web", "aux", "cdn"}, asked["telegram"][q] # <<>>
  PROVE  Fits("telegram", q, WebOutcome[Reply(asked["telegram"], q)])
<1> DEFINE reply == Reply(asked["telegram"], q)
           found == WebOutcome[reply]
<1>1. \/ reply \in Answers(q)
      \/ losses # 0 /\ Lost("telegram", q) = 1 /\ reply \in Silence(q)
  BY OnlyReply, ModuleNames DEF MayAsk, Repeated
<1>2. /\ Answers(q) = TowardsTarget({"timeout"}, {"connectError"}, {"connectError"}, {"timeout"}, {"foreignCert"},
                                  {"ownedCert"}, {"connectError"}, {"page", "serverError"})
      /\ Silence(q) = {"timeout"}
  BY DEF Answers, Silence
<1> HIDE DEF reply
<1>3. \/ losses # 0 /\ Lost("telegram", q) = 1 /\ reply = "timeout"
      \/ censor \in {"dropsIp", "dropsSni"} /\ reply = "timeout"
      \/ censor \in {"resetsTcp", "resetsSni", "deniesDns"} /\ reply = "connectError"
      \/ censor = "forgesCerts" /\ reply = "foreignCert"
      \/ censor = "poisonsDns" /\ reply = "ownedCert"
      \/ /\ censor \notin {"dropsIp", "resetsTcp", "resetsSni", "dropsSni", "forgesCerts",
                           "poisonsDns", "deniesDns"}
         /\ reply \in {"page", "serverError"}
  BY <1>1, <1>2 DEF TowardsTarget
<1>4. /\ reply \in {"timeout", "connectError"} => found = Is("BLOCKED", "ip_dropped")
      /\ reply = "foreignCert" => found = Is("BLOCKED", "tls_handshake_failure")
      /\ reply \in {"page", "ownedCert"} => found = Is("OK", "none")
      /\ reply = "serverError" => found = Is("ANOMALY", "none")
  <2>1. WebOutcome["timeout"] = Is("BLOCKED", "ip_dropped")
    BY DEF WebOutcome, Blocked, Ok, Anomaly
  <2>2. WebOutcome["connectError"] = Is("BLOCKED", "ip_dropped")
    BY DEF WebOutcome, Blocked, Ok, Anomaly
  <2>3. WebOutcome["foreignCert"] = Is("BLOCKED", "tls_handshake_failure")
    BY DEF WebOutcome, Blocked, Ok, Anomaly
  <2>4. WebOutcome["page"] = Is("OK", "none")
    BY DEF WebOutcome, Blocked, Ok, Anomaly
  <2>5. WebOutcome["ownedCert"] = Is("OK", "none")
    BY DEF WebOutcome, Blocked, Ok, Anomaly
  <2>6. WebOutcome["serverError"] = Is("ANOMALY", "none")
    BY DEF WebOutcome, Blocked, Ok, Anomaly
  <2> QED BY <2>1, <2>2, <2>3, <2>4, <2>5, <2>6
<1> HIDE DEF found
<1>5. found \in FoundType
  BY <1>3, <1>4, KnownFindings, VerdictNames
<1>6. Earns("telegram", q, found)
  BY <1>3, <1>4, KnownFindings, VerdictNames DEF Earns, Earned
<1>7. Sees(q, found)
  <2> SUFFICES ASSUME losses = 0, NEW seen \in Attributed, seen[1] = q
               PROVE  found = Is("BLOCKED", seen[2])
    BY SeesAll
  <2>1. \/ censor = "dropsSni" /\ seen[2] = "ip_dropped"
        \/ censor = "forgesCerts" /\ seen[2] = "tls_handshake_failure"
    BY Attribution DEF WorldTypeOK
  <2>2. CASE censor = "dropsSni" /\ seen[2] = "ip_dropped"
    <3>1. reply = "timeout"
      BY <1>3, <2>2
    <3> QED BY <1>4, <2>2, <3>1
  <2>3. CASE censor = "forgesCerts" /\ seen[2] = "tls_handshake_failure"
    <3>1. reply = "foreignCert"
      BY <1>3, <2>3
    <3> QED BY <1>4, <2>3, <3>1
  <2> QED BY <2>1, <2>2, <2>3
<1> QED BY <1>5, <1>6, <1>7 DEF found, reply, Fits

LEMMA QuicFits ==
  ASSUME AskedInv, WorldTypeOK, asked["cloudflare"]["quic"] # <<>>
  PROVE  Fits("cloudflare", "quic", QuicResult(Reply(asked["cloudflare"], "quic"), vantage))
<1> DEFINE reply == Reply(asked["cloudflare"], "quic")
           found == QuicResult(reply, vantage)
<1>1. \/ reply \in Answers("quic")
      \/ losses # 0 /\ Lost("cloudflare", "quic") = 1 /\ reply \in Silence("quic")
  BY OnlyReply, ModuleNames DEF MayAsk, Repeated
<1>2. /\ Answers("quic") = IF censor \in {"dropsIp", "dropsQuic"} THEN {"timeout"} ELSE {"datagram"}
      /\ Silence("quic") = {"timeout"}
  BY DEF Answers, Silence
<1> HIDE DEF reply
<1>3. \/ losses # 0 /\ Lost("cloudflare", "quic") = 1 /\ reply = "timeout"
      \/ censor \in {"dropsIp", "dropsQuic"} /\ reply = "timeout"
      \/ censor \notin {"dropsIp", "dropsQuic"} /\ reply = "datagram"
  BY <1>1, <1>2
<1>4. /\ reply = "timeout" /\ vantage => found = Is("BLOCKED", "quic_dropped")
      /\ reply = "timeout" /\ ~ vantage => found = Is("INCONCLUSIVE", "none")
      /\ reply = "datagram" => found = Is("OK", "none")
  BY DEF QuicResult, Blocked, Ok, Inconclusive
<1> HIDE DEF found
<1>5. found \in FoundType
  BY <1>3, <1>4, KnownFindings, VerdictNames
<1>6. Earns("cloudflare", "quic", found)
  BY <1>3, <1>4, KnownFindings, VerdictNames DEF Earns, Earned
<1>7. Sees("quic", found)
  <2> SUFFICES ASSUME losses = 0, NEW seen \in Attributed, seen[1] = "quic"
               PROVE  found = Is("BLOCKED", seen[2])
    BY SeesAll
  <2>1. censor = "dropsQuic" /\ vantage /\ seen[2] = "quic_dropped"
    BY Attribution DEF WorldTypeOK
  <2> QED BY <1>3, <1>4, <2>1
<1> QED BY <1>5, <1>6, <1>7 DEF found, reply, Fits

LEMMA WarpTcpFits ==
  ASSUME AskedInv, WorldTypeOK, asked["cloudflare"]["warpTcp"] # <<>>
  PROVE  Fits("cloudflare", "warpTcp", WarpTcpOutcome[Reply(asked["cloudflare"], "warpTcp")])
<1> DEFINE reply == Reply(asked["cloudflare"], "warpTcp")
           found == WarpTcpOutcome[reply]
<1>1. \/ reply \in Answers("warpTcp")
      \/ losses # 0 /\ Lost("cloudflare", "warpTcp") = 1 /\ reply \in Silence("warpTcp")
  BY OnlyReply, ModuleNames DEF MayAsk, Repeated
<1>2. /\ Answers("warpTcp") = IF censor = "dropsIp" THEN {"timeout"}
                            ELSE IF censor = "resetsTcp" THEN {"refused"} ELSE {"open"}
      /\ Silence("warpTcp") = {"timeout", "otherError"}
  BY DEF Answers, Silence
<1> HIDE DEF reply
<1>3. \/ losses # 0 /\ Lost("cloudflare", "warpTcp") = 1 /\ reply \in {"timeout", "otherError"}
      \/ censor = "dropsIp" /\ reply = "timeout"
      \/ censor = "resetsTcp" /\ reply = "refused"
      \/ censor \notin {"dropsIp", "resetsTcp"} /\ reply = "open"
  BY <1>1, <1>2
<1>4. /\ reply = "timeout" => found = Is("BLOCKED", "ip_dropped")
      /\ reply = "refused" => found = Is("BLOCKED", "tcp_refused")
      /\ reply = "open" => found = Is("OK", "none")
      /\ reply = "otherError" => found = Is("BLOCKED", "none")
  <2>1. WarpTcpOutcome["timeout"] = Is("BLOCKED", "ip_dropped")
    BY DEF WarpTcpOutcome, DcOutcome, Blocked, Ok
  <2>2. WarpTcpOutcome["refused"] = Is("BLOCKED", "tcp_refused")
    BY DEF WarpTcpOutcome, DcOutcome, Blocked, Ok
  <2>3. WarpTcpOutcome["open"] = Is("OK", "none")
    BY DEF WarpTcpOutcome, DcOutcome, Blocked, Ok
  <2>4. WarpTcpOutcome["otherError"] = Is("BLOCKED", "none")
    BY DEF WarpTcpOutcome, DcOutcome, Blocked, Ok
  <2> QED BY <2>1, <2>2, <2>3, <2>4
<1> HIDE DEF found
<1>5. found \in FoundType
  BY <1>3, <1>4, KnownFindings, VerdictNames
<1>6. Earns("cloudflare", "warpTcp", found)
  BY <1>3, <1>4, KnownFindings, VerdictNames DEF Earns, Earned
<1>7. Sees("warpTcp", found)
  <2> SUFFICES ASSUME losses = 0, NEW seen \in Attributed, seen[1] = "warpTcp"
               PROVE  found = Is("BLOCKED", seen[2])
    BY SeesAll
  <2>1. \/ censor = "dropsIp" /\ seen[2] = "ip_dropped"
        \/ censor = "resetsTcp" /\ seen[2] = "tcp_refused"
    BY Attribution DEF WorldTypeOK
  <2>2. CASE censor = "dropsIp" /\ seen[2] = "ip_dropped"
    <3>1. reply = "timeout"
      BY <1>3, <2>2
    <3> QED BY <1>4, <2>2, <3>1
  <2>3. CASE censor = "resetsTcp" /\ seen[2] = "tcp_refused"
    <3>1. reply = "refused"
      BY <1>3, <2>3
    <3> QED BY <1>4, <2>3, <3>1
  <2> QED BY <2>1, <2>2, <2>3
<1> QED BY <1>5, <1>6, <1>7 DEF found, reply, Fits

LEMMA WarpUdpFits ==
  ASSUME AskedInv, WorldTypeOK, asked["cloudflare"]["warpUdp"] # <<>>
  PROVE  Fits("cloudflare", "warpUdp", WarpUdpOutcome[Reply(asked["cloudflare"], "warpUdp")])
<1> DEFINE reply == Reply(asked["cloudflare"], "warpUdp")
           found == WarpUdpOutcome[reply]
<1>1. \/ reply \in Answers("warpUdp")
      \/ losses # 0 /\ Lost("cloudflare", "warpUdp") = 1 /\ reply \in Silence("warpUdp")
  BY OnlyReply, ModuleNames DEF MayAsk, Repeated
<1>2. /\ Answers("warpUdp") = IF censor = "dropsIp" THEN {"timeout", "rejected"}
                            ELSE {"datagram", "timeout", "portUnreachable"}
      /\ Silence("warpUdp") = {"timeout"}
  BY DEF Answers, Silence
<1> HIDE DEF reply
<1>3. \/ censor = "dropsIp" /\ reply = "rejected"
      \/ reply \in {"datagram", "timeout", "portUnreachable"}
  BY <1>1, <1>2
<1>4. /\ reply = "rejected" => found = Is("BLOCKED", "ip_dropped")
      /\ reply \in {"timeout", "portUnreachable"} => found = Is("INCONCLUSIVE", "none")
      /\ reply = "datagram" => found = Is("OK", "none")
  <2>1. WarpUdpOutcome["rejected"] = Is("BLOCKED", "ip_dropped")
    BY DEF WarpUdpOutcome, Blocked, Ok, Inconclusive
  <2>2. WarpUdpOutcome["timeout"] = Is("INCONCLUSIVE", "none")
    BY DEF WarpUdpOutcome, Blocked, Ok, Inconclusive
  <2>3. WarpUdpOutcome["portUnreachable"] = Is("INCONCLUSIVE", "none")
    BY DEF WarpUdpOutcome, Blocked, Ok, Inconclusive
  <2>4. WarpUdpOutcome["datagram"] = Is("OK", "none")
    BY DEF WarpUdpOutcome, Blocked, Ok, Inconclusive
  <2> QED BY <2>1, <2>2, <2>3, <2>4
<1> HIDE DEF found
<1>5. found \in FoundType
  BY <1>3, <1>4, KnownFindings, VerdictNames
<1>6. Earns("cloudflare", "warpUdp", found)
  BY <1>3, <1>4, KnownFindings, VerdictNames DEF Earns, Earned
<1>7. Sees("warpUdp", found)
  <2> SUFFICES ASSUME losses = 0, NEW seen \in Attributed, seen[1] = "warpUdp"
               PROVE  FALSE
    BY SeesAll
  <2> QED BY Attribution DEF WorldTypeOK
<1> QED BY <1>5, <1>6, <1>7 DEF found, reply, Fits

LEMMA PageFits ==
  ASSUME AskedInv, WorldTypeOK, asked["cloudflare"]["page"] # <<>>
  PROVE  Fits("cloudflare", "page", PageResult(Reply(asked["cloudflare"], "page")))
<1> DEFINE reply == Reply(asked["cloudflare"], "page")
           found == PageResult(reply)
<1>1. \/ reply \in Answers("page")
      \/ losses # 0 /\ Lost("cloudflare", "page") = 1 /\ reply \in Silence("page")
  BY OnlyReply, ModuleNames DEF MayAsk, Repeated
<1>2. /\ Answers("page") = TowardsTarget({"timeout"}, {"connectError"}, {"connectError"}, {"timeout"},
                                       {"sslError"}, {"sslError"}, {"connectError"}, {"200", "403", "503"})
      /\ Silence("page") = {"timeout"}
  BY DEF Answers, Silence
<1> HIDE DEF reply
<1>3. \/ losses # 0 /\ Lost("cloudflare", "page") = 1 /\ reply = "timeout"
      \/ censor \in {"dropsIp", "dropsSni"} /\ reply = "timeout"
      \/ censor \in {"resetsTcp", "resetsSni", "deniesDns"} /\ reply = "connectError"
      \/ censor \in {"forgesCerts", "poisonsDns"} /\ reply = "sslError"
      \/ /\ censor \notin {"dropsIp", "resetsTcp", "resetsSni", "dropsSni", "forgesCerts",
                           "poisonsDns", "deniesDns"}
         /\ reply \in {"200", "403", "503"}
  BY <1>1, <1>2 DEF TowardsTarget
<1>4. /\ reply \in {"timeout", "connectError"} => found = Is("BLOCKED", "ip_dropped")
      /\ reply = "sslError" => found = Is("BLOCKED", "tls_handshake_failure")
      /\ reply = "200" => found = Is("OK", "none")
      /\ reply = "403" => found = Is("SERVER_REFUSED", "none")
      /\ reply = "503" => found = Is("ANOMALY", "none")
  BY DEF PageResult, Blocked, Refusals, Statuses, Ok, Anomaly
<1> HIDE DEF found
<1>5. found \in FoundType
  BY <1>3, <1>4, KnownFindings, VerdictNames
<1>6. Earns("cloudflare", "page", found)
  BY <1>3, <1>4, KnownFindings, VerdictNames DEF Earns, Earned
<1>7. Sees("page", found)
  <2> SUFFICES ASSUME losses = 0, NEW seen \in Attributed, seen[1] = "page"
               PROVE  found = Is("BLOCKED", seen[2])
    BY SeesAll
  <2>1. \/ censor \in {"dropsIp", "dropsSni"} /\ seen[2] = "ip_dropped"
        \/ censor = "forgesCerts" /\ seen[2] = "tls_handshake_failure"
    BY Attribution DEF WorldTypeOK
  <2>2. CASE censor \in {"dropsIp", "dropsSni"} /\ seen[2] = "ip_dropped"
    <3>1. reply = "timeout"
      BY <1>3, <2>2
    <3> QED BY <1>4, <2>2, <3>1
  <2>3. CASE censor = "forgesCerts" /\ seen[2] = "tls_handshake_failure"
    <3>1. reply = "sslError"
      BY <1>3, <2>3
    <3> QED BY <1>4, <2>3, <3>1
  <2> QED BY <2>1, <2>2, <2>3
<1> QED BY <1>5, <1>6, <1>7 DEF found, reply, Fits

LEMMA HeaderCaseFits ==
  ASSUME AskedInv, WorldTypeOK, NEW q \in {"hostCase", "agentCase"}, asked["middlebox"][q] # <<>>
  PROVE  Fits("middlebox", q, HeaderCase(Reply(asked["middlebox"], q)))
<1> DEFINE reply == Reply(asked["middlebox"], q)
           found == HeaderCase(reply)
<1>1. \/ reply \in Answers(q)
      \/ losses # 0 /\ Lost("middlebox", q) = 1 /\ reply \in Silence(q)
  BY OnlyReply, ModuleNames DEF MayAsk, Repeated
<1>2. /\ Answers(q) = IF censor = "rewritesHttp" THEN {"200"} ELSE {"301", "400"}
      /\ Silence(q) = {"nothing"}
  BY DEF Answers, Silence
<1> HIDE DEF reply
<1>3. reply \in {"200", "301", "400", "nothing"}
  BY <1>1, <1>2
<1>4. /\ reply = "200" => found = Is("ANOMALY", "middlebox_http_manipulation")
      /\ reply \in {"301", "400"} => found = Is("OK", "none")
      /\ reply = "nothing" => found = Is("INCONCLUSIVE", "none")
  BY DEF HeaderCase, Intact, Ok, Inconclusive
<1> HIDE DEF found
<1>5. found \in FoundType
  BY <1>3, <1>4, KnownFindings, VerdictNames
<1>6. Earns("middlebox", q, found)
  BY <1>3, <1>4, KnownFindings, VerdictNames DEF Earns, Earned
<1>7. Sees(q, found)
  <2> SUFFICES ASSUME losses = 0, NEW seen \in Attributed, seen[1] = q
               PROVE  FALSE
    BY SeesAll
  <2> QED BY Attribution DEF WorldTypeOK
<1> QED BY <1>5, <1>6, <1>7 DEF found, reply, Fits

LEMMA BadLineFits ==
  ASSUME AskedInv, WorldTypeOK, asked["middlebox"]["badLine"] # <<>>
  PROVE  Fits("middlebox", "badLine", InvalidLine(Reply(asked["middlebox"], "badLine")))
<1> DEFINE reply == Reply(asked["middlebox"], "badLine")
           found == InvalidLine(reply)
<1>1. \/ reply \in Answers("badLine")
      \/ losses # 0 /\ Lost("middlebox", "badLine") = 1 /\ reply \in Silence("badLine")
  BY OnlyReply, ModuleNames DEF MayAsk, Repeated
<1>2. /\ Answers("badLine") = IF censor = "rewritesHttp" THEN {"200"} ELSE {"400", "405", "501"}
      /\ Silence("badLine") = {"nothing"}
  BY DEF Answers, Silence
<1> HIDE DEF reply
<1>3. reply \in {"200", "400", "405", "501", "nothing"}
  BY <1>1, <1>2
<1>4. /\ reply = "200" => found = Is("ANOMALY", "middlebox_http_manipulation")
      /\ reply \in {"400", "405", "501"} => found = Is("OK", "none")
      /\ reply = "nothing" => found = Is("INCONCLUSIVE", "none")
  BY DEF InvalidLine, Intact, Ok, Inconclusive
<1> HIDE DEF found
<1>5. found \in FoundType
  BY <1>3, <1>4, KnownFindings, VerdictNames
<1>6. Earns("middlebox", "badLine", found)
  BY <1>3, <1>4, KnownFindings, VerdictNames DEF Earns, Earned
<1>7. Sees("badLine", found)
  <2> SUFFICES ASSUME losses = 0, NEW seen \in Attributed, seen[1] = "badLine"
               PROVE  FALSE
    BY SeesAll
  <2> QED BY Attribution DEF WorldTypeOK
<1> QED BY <1>5, <1>6, <1>7 DEF found, reply, Fits

DnsQuestions == <<"dohAccess", "system", "public", "doh">>
AndCert == <<"dohAccess", "system", "public", "doh", "cert">>

LEMMA DnsPositions ==
  /\ 1 \in DOMAIN DnsQuestions /\ 2 \in DOMAIN DnsQuestions
  /\ 3 \in DOMAIN DnsQuestions /\ 4 \in DOMAIN DnsQuestions
  /\ 1 \in DOMAIN AndCert /\ 2 \in DOMAIN AndCert /\ 3 \in DOMAIN AndCert
  /\ 4 \in DOMAIN AndCert /\ 5 \in DOMAIN AndCert
  /\ DnsQuestions[1] = "dohAccess" /\ DnsQuestions[2] = "system"
  /\ DnsQuestions[3] = "public" /\ DnsQuestions[4] = "doh"
  /\ AndCert[1] = "dohAccess" /\ AndCert[2] = "system" /\ AndCert[3] = "public"
  /\ AndCert[4] = "doh" /\ AndCert[5] = "cert"
<1>1. DOMAIN DnsQuestions = 1..4
  BY DEF DnsQuestions
<1>2. DOMAIN AndCert = 1..5
  BY DEF AndCert
<1> QED BY <1>1, <1>2 DEF DnsQuestions, AndCert

\* Which questions have an answer when a module is done.
LEMMA DnsAsked ==
  ASSUME AskedInv, Done("dns")
  PROVE  /\ \A q \in {"dohAccess", "system", "public", "doh"} : asked["dns"][q] # <<>>
         /\ Reply(asked["dns"], "system") \in {"address", "captive"} => asked["dns"]["cert"] # <<>>
<1> DEFINE s == Questions("dns")
<1>1. \A i \in DOMAIN s : s[i] \in MayAsk["dns"] => asked["dns"][s[i]] # <<>>
  BY DoneReplies, ModuleNames
<1>2. s = AndCert \/ s = DnsQuestions
  BY DEF Questions, DnsQuestions, AndCert
<1>3. /\ asked["dns"]["system"] # <<>>
      /\ Reply(asked["dns"], "system") \in {"address", "captive"} =>
           s = AndCert
  <2>1. 2 \in DOMAIN s /\ s[2] = "system"
    BY <1>2, DnsPositions
  <2>2. asked["dns"]["system"] # <<>>
    BY <1>1, <2>1 DEF MayAsk
  <2> QED BY <2>2 DEF Questions, AndCert
<1> HIDE DEF s
<1>4. {"dohAccess", "system", "public", "doh", "cert"} = MayAsk["dns"]
  BY DEF MayAsk
<1>5. /\ 1 \in DOMAIN s /\ 2 \in DOMAIN s /\ 3 \in DOMAIN s /\ 4 \in DOMAIN s
      /\ s[1] = "dohAccess" /\ s[2] = "system" /\ s[3] = "public" /\ s[4] = "doh"
  BY <1>2, DnsPositions
<1>6. s = AndCert => 5 \in DOMAIN s /\ s[5] = "cert"
  BY DnsPositions
<1> QED BY <1>1, <1>3, <1>4, <1>5, <1>6

\* dns: what the system resolver says.
LEMMA SystemFits ==
  ASSUME AskedInv, WorldTypeOK, Done("dns")
  PROVE  Fits("dns", "system", DnsResult(asked["dns"]))
<1> DEFINE system == Reply(asked["dns"], "system")
           doh == Reply(asked["dns"], "doh")
           cert == Reply(asked["dns"], "cert")
           found == DnsResult(asked["dns"])
<1>0. MayAsk["dns"] \ Repeated = {"dohAccess", "system", "public", "doh", "cert"}
  BY DEF MayAsk, Repeated
<1>1. \/ system = "captive" /\ censor = "poisonsDns"
      \/ system = "nxdomain" /\ censor = "deniesDns"
      \/ system = "address" /\ censor \notin {"poisonsDns", "deniesDns"}
      \/ system = "nothing" /\ losses # 0
  <2>1. Answers("system") = IF censor = "poisonsDns" THEN {"captive"}
                            ELSE IF censor = "deniesDns" THEN {"nxdomain"} ELSE {"address"}
    BY DEF Answers
  <2>2. Silence("system") = {"nothing"}
    BY DEF Silence
  <2> QED BY <1>0, <2>1, <2>2, DnsAsked, OnlyReply, ModuleNames
<1>2. doh \in {"address", "otherEdge", "nothing"} /\ (doh = "nothing" => losses # 0 \/ censor = "blocksDoh")
  <2>1. Answers("doh") = IF censor = "blocksDoh" THEN {"nothing"} ELSE {"address", "otherEdge"}
    BY DEF Answers
  <2>2. Silence("doh") = {"nothing"}
    BY DEF Silence
  <2> QED BY <1>0, <2>1, <2>2, DnsAsked, OnlyReply, ModuleNames
<1>3. system \in {"address", "captive"} =>
        \/ cert = "noConnection" /\ (losses # 0 \/ censor \in {"dropsIp", "resetsTcp", "resetsSni", "dropsSni"})
        \/ cert = "invalid" /\ censor \in {"forgesCerts", "poisonsDns"}
        \/ cert = "valid" /\ censor # "poisonsDns"
  <2>1. Answers("cert") = TowardsTarget({"noConnection"}, {"noConnection"}, {"noConnection"},
                            {"noConnection"}, {"invalid"}, {"invalid"}, {}, {"valid"})
    BY DEF Answers
  <2>2. Silence("cert") = {"noConnection"}
    BY DEF Silence
  <2> QED BY <1>0, <2>1, <2>2, DnsAsked, OnlyReply, ModuleNames DEF TowardsTarget
<1>4. /\ system = "nxdomain" => \/ found = Is("BLOCKED", "dns_blocked_nxdomain")
                                \/ /\ found = Is("INCONCLUSIVE", "dns_blocked_nxdomain")
                                   /\ doh = "nothing"
      /\ system = "nothing" => found = Is("INCONCLUSIVE", "none")
      /\ system \in {"address", "captive"} /\ cert = "invalid" =>
           IF system = doh \/ doh = "nothing" THEN found = Is("ANOMALY", "none")
                                              ELSE found = Is("BLOCKED", "dns_poisoning")
      /\ system \in {"address", "captive"} /\ cert = "valid" => found = Is("OK", "none")
      /\ system \in {"address", "captive"} /\ cert = "noConnection" =>
           found = Is("OK", "none") \/ found = Is("INCONCLUSIVE", "none")
  <2>1. CASE system = "nxdomain"
    BY <2>1 DEF DnsResult, Blocked
  <2>2. CASE system = "nothing"
    BY <2>2 DEF DnsResult, Inconclusive
  <2>3. CASE system \in {"address", "captive"} /\ cert = "invalid"
    BY <1>1, <2>3 DEF DnsResult, Blocked, Anomaly
  <2>4. CASE system \in {"address", "captive"} /\ cert = "valid"
    BY <2>4 DEF DnsResult, Ok
  <2>5. CASE system \in {"address", "captive"} /\ cert = "noConnection"
    BY <2>5 DEF DnsResult, Ok, Inconclusive
  <2> QED BY <1>1, <1>3, <2>1, <2>2, <2>3, <2>4, <2>5
<1> HIDE DEF system, doh, cert, found
<1>5. found \in FoundType
  BY <1>1, <1>3, <1>4, KnownFindings, VerdictNames
<1>6. Earns("dns", "system", found)
  <2> SUFFICES ASSUME censor = "none"
               PROVE  found.verdict \notin BLOCKING_VERDICTS
    BY DEF Earns
  <2> QED BY <1>1, <1>3, <1>4, KnownFindings, VerdictNames
<1>7. Sees("system", found)
  <2> SUFFICES ASSUME losses = 0, NEW seen \in Attributed, seen[1] = "system"
               PROVE  found = Is("BLOCKED", seen[2])
    BY SeesAll
  <2>1. \/ censor = "poisonsDns" /\ seen[2] = "dns_poisoning"
        \/ censor = "deniesDns" /\ seen[2] = "dns_blocked_nxdomain"
    BY Attribution DEF WorldTypeOK
  <2>2. CASE censor = "poisonsDns" /\ seen[2] = "dns_poisoning"
    <3>1. system = "captive" /\ cert = "invalid" /\ doh \notin {"captive", "nothing"}
      BY <1>1, <1>2, <1>3, <2>2
    <3> QED BY <1>4, <2>2, <3>1
  <2>3. CASE censor = "deniesDns" /\ seen[2] = "dns_blocked_nxdomain"
    <3>1. system = "nxdomain" /\ doh # "nothing"
      BY <1>1, <1>2, <2>3
    <3> QED BY <1>4, <2>3, <3>1
  <2> QED BY <2>1, <2>2, <2>3
<1> QED BY <1>5, <1>6, <1>7 DEF found, Fits

-----------------------------------------------------------------------------
(* tcp: the majority of the attempts *)

LEMMA LeastOf ==
  ASSUME NEW S, S \subseteq Nat, S # {}
  PROVE  \E n \in S : \A k \in S : n <= k
<1>1. PICK n \in S : \A k \in S : <<k, n>> \notin OpToRel(<, Nat)
  BY NatLessThanWellFounded, WFMin
<1>2. \A k \in S : ~ (k < n)
  BY <1>1 DEF OpToRel
<1>3. \A k \in S : n <= k
  BY <1>2
<1> QED BY <1>1, <1>3

CountOf(outcomes, o) == Cardinality({i \in DOMAIN outcomes : outcomes[i] = o})
Beats(outcomes, o, p) ==
  \/ CountOf(outcomes, o) > CountOf(outcomes, p)
  \/ /\ CountOf(outcomes, o) = CountOf(outcomes, p)
     /\ Severity[o.verdict] < Severity[p.verdict]

LEMMA MoreThenGraver ==
  ASSUME NEW n \in Nat, NEW ci \in Nat, NEW cj \in Nat, NEW si \in 0..7, NEW sj \in 0..7,
         8 * (n - ci) + si <= 8 * (n - cj) + sj
  PROVE  ~ (cj > ci) /\ ~ (cj = ci /\ sj < si)
OBVIOUS

\* Majority is one of the outcomes, and no other one beats it.
LEMMA MajorityIsUnbeaten ==
  ASSUME NEW outcomes, NEW n \in Nat \ {0}, DOMAIN outcomes = 1..n,
         \A i \in 1..n : Severity[outcomes[i].verdict] \in 0..7
  PROVE  \E i \in 1..n : /\ Majority(outcomes) = outcomes[i]
                         /\ \A j \in 1..n : ~ Beats(outcomes, outcomes[j], outcomes[i])
<1> DEFINE Unbeaten(i) == \A j \in DOMAIN outcomes : ~ Beats(outcomes, outcomes[j], outcomes[i])
           S == {i \in 1..n : Unbeaten(i)}
<1>1. \A o : CountOf(outcomes, o) \in Nat /\ CountOf(outcomes, o) <= n
  <2> SUFFICES ASSUME NEW o PROVE CountOf(outcomes, o) \in Nat /\ CountOf(outcomes, o) <= n
    OBVIOUS
  <2>1. IsFiniteSet(1..n) /\ Cardinality(1..n) = n
    <3>1. 1 \in Int /\ n \in Int /\ ~ (1 > n) /\ n - 1 + 1 = n
      OBVIOUS
    <3> QED BY <3>1, FS_Interval
  <2>2. {i \in DOMAIN outcomes : outcomes[i] = o} \in SUBSET (1..n)
    OBVIOUS
  <2> QED BY <2>1, <2>2, FS_Subset, FS_CardinalityType DEF CountOf
\* The fewer an outcome lacks of all, and the graver it is, the better.
<1>2. \E i \in 1..n : Unbeaten(i)
  <2> DEFINE lack == [i \in 1..n |-> 8 * (n - CountOf(outcomes, outcomes[i]))
                                     + Severity[outcomes[i].verdict]]
             lacks == {lack[i] : i \in 1..n}
  <2>1. \A i \in 1..n : lack[i] \in Nat
    BY <1>1
  <2>2. 1 \in 1..n /\ lack[1] \in lacks
    OBVIOUS
  <2>3. lacks \subseteq Nat /\ lacks # {}
    BY <2>1, <2>2
  <2>4. PICK least \in lacks : \A k \in lacks : least <= k
    <3> HIDE DEF lacks
    <3> QED BY <2>3, LeastOf
  <2>5. PICK i \in 1..n : \A j \in 1..n : lack[i] <= lack[j]
    BY <2>4
  <2>6. SUFFICES ASSUME NEW j \in 1..n, Beats(outcomes, outcomes[j], outcomes[i])
                 PROVE  FALSE
    OBVIOUS
  <2> DEFINE ci == CountOf(outcomes, outcomes[i])
             cj == CountOf(outcomes, outcomes[j])
             si == Severity[outcomes[i].verdict]
             sj == Severity[outcomes[j].verdict]
  <2>7. ci \in Nat /\ cj \in Nat /\ ci <= n /\ cj <= n /\ si \in 0..7 /\ sj \in 0..7
    BY <1>1
  <2>8. cj > ci \/ (cj = ci /\ sj < si)
    BY <2>6 DEF Beats
  <2>9. 8 * (n - ci) + si <= 8 * (n - cj) + sj
    <3>1. lack[i] <= lack[j]
      BY <2>5
    <3>2. lack[i] = 8 * (n - ci) + si /\ lack[j] = 8 * (n - cj) + sj
      OBVIOUS
    <3> HIDE DEF lack, ci, cj, si, sj
    <3> QED BY <3>1, <3>2
  <2> HIDE DEF ci, cj, si, sj
  <2> QED BY <2>7, <2>8, <2>9, MoreThenGraver
<1>3. S # {}
  BY <1>2
<1>4. PICK k \in S : \A j \in S : k <= j
  <2>1. S \subseteq Nat
    OBVIOUS
  <2> HIDE DEF S
  <2> QED BY <1>3, <2>1, LeastOf
<1> DEFINE first == CHOOSE i \in DOMAIN outcomes :
                      Unbeaten(i) /\ \A j \in DOMAIN outcomes : Unbeaten(j) => i <= j
<1>5. Majority(outcomes) = outcomes[first]
  BY DEF Majority, Beats, CountOf
<1>6. first \in 1..n /\ Unbeaten(first)
  BY <1>4
<1> QED BY <1>5, <1>6

\* How many attempts were lost, and how many were not.
LEMMA LostOf ==
  ASSUME AskedInv, NEW m \in Modules, NEW q \in MayAsk[m]
  PROVE  /\ Lost(m, q) \in Nat /\ Lost(m, q) <= Len(asked[m][q])
         /\ Cardinality({i \in 1..Len(asked[m][q]) : ~ asked[m][q][i].lost})
              = Len(asked[m][q]) - Lost(m, q)
         /\ (\A i \in 1..Len(asked[m][q]) : asked[m][q][i].lost) => Lost(m, q) = Len(asked[m][q])
         /\ Lost(m, q) = 0 => \A i \in 1..Len(asked[m][q]) : ~ asked[m][q][i].lost
<1> DEFINE n == Len(asked[m][q])
           L == {i \in 1..n : asked[m][q][i].lost}
<1>1. n \in Nat /\ DOMAIN asked[m][q] = 1..n
  BY AttemptsOf
<1>2. {i \in 1..n : ~ asked[m][q][i].lost} = (1..n) \ L
  OBVIOUS
<1>3. Lost(m, q) = Cardinality(L)
  BY <1>1 DEF Lost
<1>4. L \in SUBSET (1..n) /\ (1..n) \cap L = L
  OBVIOUS
<1>5. (\A i \in 1..n : asked[m][q][i].lost) => L = 1..n
  OBVIOUS
<1>6. L = {} => \A i \in 1..n : ~ asked[m][q][i].lost
  OBVIOUS
<1> HIDE DEF n, L
<1>7. IsFiniteSet(1..n) /\ Cardinality(1..n) = n
  <2>1. 1 \in Int /\ n \in Int /\ n >= 0
    BY <1>1
  <2>2. IsFiniteSet(1..n) /\ Cardinality(1..n) = IF 1 > n THEN 0 ELSE n - 1 + 1
    BY <2>1, FS_Interval
  <2> QED BY <2>1, <2>2
<1>8. IsFiniteSet(L) /\ Cardinality(L) \in Nat /\ Cardinality(L) <= n
  BY <1>4, <1>7, FS_Subset, FS_CardinalityType
<1>9. Cardinality((1..n) \ L) = n - Cardinality(L)
  <2>1. Cardinality((1..n) \ L) = Cardinality(1..n) - Cardinality((1..n) \cap L)
    BY <1>7, FS_Difference, Zenon
  <2> QED BY <1>4, <1>7, <2>1
<1>10. Cardinality(L) = 0 => L = {}
  BY <1>8, FS_EmptySet
<1> QED BY <1>2, <1>3, <1>5, <1>6, <1>7, <1>8, <1>9, <1>10 DEF n

LEMMA TcpAsked ==
  ASSUME AskedInv, Done("tcp")
  PROVE  asked["tcp"]["syn"] # <<>> /\ Len(asked["tcp"]["syn"]) = Repeats
<1>1. Questions("tcp") = <<"syn">> /\ "syn" \in MayAsk["tcp"]
  BY DEF Questions, MayAsk
<1>2. 1 \in DOMAIN Questions("tcp") /\ Questions("tcp")[1] = "syn"
  BY <1>1
<1>3. asked["tcp"]["syn"] # <<>> /\ Answered("syn", Replies(asked["tcp"], "syn"))
  BY <1>1, <1>2, DoneReplies, ModuleNames
<1>4. Len(Replies(asked["tcp"], "syn")) = Repeats
  BY <1>3 DEF Answered
<1> QED BY <1>1, <1>3, <1>4, AttemptsOf, ModuleNames

LEMMA SynFits ==
  ASSUME AskedInv, WorldTypeOK, Done("tcp")
  PROVE  /\ Fits("tcp", "syn", TcpResult(asked["tcp"], vantage))
         /\ Min({Rtt[r] : r \in ToSet(Replies(asked["tcp"], "syn"))}) \in {5, 60, 5000}
<1> DEFINE s == asked["tcp"]["syn"]
           n == Len(s)
           replies == Replies(asked["tcp"], "syn")
           outcomes == [i \in DOMAIN replies |-> TcpOutcome[replies[i]]]
           a == IF censor = "dropsIp" THEN Blocked("ip_dropped")
                ELSE IF censor = "resetsTcp" THEN Blocked("tcp_rst_injection") ELSE Ok
           b == Blocked("ip_dropped")
           found == TcpResult(asked["tcp"], vantage)
<1>0. "tcp" \in Modules /\ "syn" \in MayAsk["tcp"]
  BY ModuleNames DEF MayAsk
<1>1. n = Repeats /\ n \in Nat \ {0}
  BY TcpAsked, MeasurementsAssumption
<1>2. DOMAIN replies = 1..n /\ \A i \in 1..n : replies[i] = s[i].reply
  <2>1. DOMAIN replies = DOMAIN s
    BY DEF Replies
  <2> QED BY <2>1, <1>0, AttemptsOf
<1>3. \A i \in 1..n : IF s[i].lost
                        THEN losses # 0 /\ replies[i] \in {"timeout", "otherError"}
                        ELSE replies[i] = IF censor = "dropsIp" THEN "timeout"
                                          ELSE IF censor = "resetsTcp" THEN "fastReset" ELSE "open"
  <2>1. AttemptsInv("syn", s)
    BY <1>0, AttemptsOf
  <2>2. Answers("syn") = IF censor = "dropsIp" THEN {"timeout"}
                         ELSE IF censor = "resetsTcp" THEN {"fastReset"} ELSE {"open"}
    BY DEF Answers
  <2>3. Silence("syn") = {"timeout", "otherError"}
    BY DEF Silence
  <2>4. \A i \in 1..n : IF s[i].lost THEN losses # 0 /\ s[i].reply \in {"timeout", "otherError"}
                                     ELSE s[i].reply \in Answers("syn")
    BY <2>1, <2>3 DEF AttemptsInv
  <2> HIDE DEF s, n, replies
  <2> QED BY <1>2, <2>2, <2>4
<1> HIDE DEF s, n, replies
<1>4. /\ TcpOutcome["timeout"] = Blocked("ip_dropped") /\ TcpOutcome["otherError"] = Error
      /\ TcpOutcome["fastReset"] = Blocked("tcp_rst_injection") /\ TcpOutcome["open"] = Ok
  BY DEF TcpOutcome
<1>5. /\ DOMAIN outcomes = 1..n
      /\ \A i \in 1..n : IF s[i].lost THEN outcomes[i] \in {b, Error} ELSE outcomes[i] = a
  BY <1>2, <1>3, <1>4
<1>6. \A i \in 1..n : Severity[outcomes[i].verdict] \in 0..7
  <2>1. /\ Blocked("ip_dropped").verdict = "BLOCKED" /\ Ok.verdict = "OK"
        /\ Blocked("tcp_rst_injection").verdict = "BLOCKED" /\ Error.verdict = "ERROR"
    BY DEF Blocked, Ok, Is, Error
  <2>2. Severity["BLOCKED"] = 0 /\ Severity["OK"] = 7 /\ Severity["ERROR"] = 4
    BY DEF Severity
  <2>3. /\ a.verdict = "BLOCKED" \/ a.verdict = "OK"
        /\ b.verdict = "BLOCKED"
    BY <2>1
  <2> HIDE DEF a, b, outcomes
  <2>4. \A i \in 1..n : outcomes[i].verdict \in {"BLOCKED", "OK", "ERROR"}
    BY <1>5, <2>1, <2>3
  <2> QED BY <2>2, <2>4
<1>7. found = IF Majority(outcomes).method = "tcp_rst_injection" /\ ~ vantage
                THEN Blocked("tcp_refused") ELSE Majority(outcomes)
  BY DEF TcpResult, replies
<1>8. /\ Blocked("ip_dropped") = Is("BLOCKED", "ip_dropped")
      /\ Blocked("tcp_rst_injection") = Is("BLOCKED", "tcp_rst_injection")
      /\ Blocked("tcp_refused") = Is("BLOCKED", "tcp_refused") /\ Ok = Is("OK", "none")
      /\ Error = Is("ERROR", "none")
  BY DEF Blocked, Ok, Error
<1>9. /\ Is("BLOCKED", "ip_dropped").method = "ip_dropped" /\ Is("OK", "none").method = "none"
      /\ Is("BLOCKED", "tcp_rst_injection").method = "tcp_rst_injection"
      /\ Is("ERROR", "none").method = "none"
  BY DEF Is
<1> HIDE DEF outcomes, found
<1>10. PICK k \in 1..n : /\ Majority(outcomes) = outcomes[k]
                         /\ \A j \in 1..n : ~ Beats(outcomes, outcomes[j], outcomes[k])
  BY <1>1, <1>5, <1>6, MajorityIsUnbeaten
<1>11. found = Is("BLOCKED", "ip_dropped") \/ found = Is("BLOCKED", "tcp_rst_injection")
         \/ found = Is("BLOCKED", "tcp_refused") \/ found = Is("OK", "none")
         \/ found = Is("ERROR", "none")
  BY <1>5, <1>7, <1>8, <1>10
<1>12. found \in FoundType
  BY <1>11, KnownFindings, VerdictNames
<1>13. Earns("tcp", "syn", found)
  <2> SUFFICES ASSUME censor = "none", found.verdict \in BLOCKING_VERDICTS
               PROVE  2 * Lost("tcp", "syn") >= Repeats
    BY DEF Earns, Earned
  <2>1. a = Is("OK", "none") /\ b = Is("BLOCKED", "ip_dropped") /\ a # b
    BY <1>8, <1>9
  <2>2. outcomes[k] = b
    <3>1. outcomes[k] # Is("OK", "none") /\ outcomes[k] # Is("ERROR", "none")
      BY <1>7, <1>8, <1>9, <1>10, KnownFindings, VerdictNames
    <3> QED BY <1>5, <1>8, <2>1, <3>1
  <2>3. /\ CountOf(outcomes, b) \in Nat /\ CountOf(outcomes, b) <= Lost("tcp", "syn")
        /\ CountOf(outcomes, a) = n - Lost("tcp", "syn")
        /\ Lost("tcp", "syn") \in Nat /\ Lost("tcp", "syn") <= n
        /\ (\A i \in 1..n : s[i].lost) => Lost("tcp", "syn") = n
    <3>0. a # Error
      BY <1>8, <2>1 DEF Is
    <3> HIDE DEF a, b
    <3> DEFINE L == {i \in 1..n : s[i].lost}
               B == {i \in DOMAIN outcomes : outcomes[i] = b}
    <3>1. B \subseteq L /\ L \subseteq 1..n
      BY <1>5, <2>1
    <3>2. {i \in DOMAIN outcomes : outcomes[i] = a} = {i \in 1..n : ~ s[i].lost}
      BY <1>5, <2>1, <3>0
    <3>3. Lost("tcp", "syn") = Cardinality(L)
      BY <1>0, AttemptsOf DEF Lost, s, n
    <3>4. IsFiniteSet(1..n)
      <4>1. 1 \in Int /\ n \in Int
        BY <1>1
      <4> QED BY <4>1, FS_Interval
    <3>5. Cardinality(B) \in Nat /\ Cardinality(B) <= Cardinality(L)
      <4> HIDE DEF L, B
      <4>1. IsFiniteSet(L)
        BY <3>1, <3>4, FS_Subset
      <4> QED BY <3>1, <4>1, FS_Subset, FS_CardinalityType
    <3> QED BY <1>0, <3>2, <3>3, <3>5, LostOf DEF CountOf, s, n
  <2>4. CASE \A i \in 1..n : s[i].lost
    BY <1>1, <2>3, <2>4
  <2>5. CASE \E j \in 1..n : ~ s[j].lost
    <3>1. PICK j \in 1..n : outcomes[j] = a
      BY <1>5, <2>5
    <3>2. ~ (CountOf(outcomes, a) > CountOf(outcomes, b))
      BY <1>10, <2>2, <3>1 DEF Beats
    <3> QED BY <1>1, <2>3, <3>2
  <2> QED BY <2>4, <2>5
<1>14. Sees("syn", found)
  <2> SUFFICES ASSUME losses = 0, NEW seen \in Attributed, seen[1] = "syn"
               PROVE  found = Is("BLOCKED", seen[2])
    BY SeesAll
  <2>1. Majority(outcomes) = a
    <3>1. \A i \in 1..n : ~ s[i].lost
      BY <1>3
    <3> HIDE DEF a, b
    <3> QED BY <1>5, <1>10, <3>1
  <2>2. \/ censor = "dropsIp" /\ seen[2] = "ip_dropped"
        \/ censor = "resetsTcp" /\ vantage /\ seen[2] = "tcp_rst_injection"
        \/ censor = "resetsTcp" /\ ~ vantage /\ seen[2] = "tcp_refused"
    BY Attribution DEF WorldTypeOK
  <2>3. CASE censor = "dropsIp" /\ seen[2] = "ip_dropped"
    BY <1>7, <1>8, <1>9, <2>1, <2>3
  <2>4. CASE censor = "resetsTcp" /\ vantage /\ seen[2] = "tcp_rst_injection"
    BY <1>7, <1>8, <1>9, <2>1, <2>4
  <2>5. CASE censor = "resetsTcp" /\ ~ vantage /\ seen[2] = "tcp_refused"
    BY <1>7, <1>8, <1>9, <2>1, <2>5
  <2> QED BY <2>2, <2>3, <2>4, <2>5
<1>15. Min({Rtt[r] : r \in ToSet(replies)}) \in {5, 60, 5000}
  <2> DEFINE times == {Rtt[r] : r \in ToSet(replies)}
  <2>1. \A i \in 1..n : replies[i] \in {"timeout", "otherError", "fastReset", "open"}
    BY <1>3
  <2>2. ToSet(replies) = {replies[i] : i \in 1..n}
    BY <1>2 DEF ToSet
  <2>3. Rtt["timeout"] = 5000 /\ Rtt["fastReset"] = 5 /\ Rtt["open"] = 5 /\ Rtt["otherError"] = 5
    BY DEF Rtt
  <2>4. times \subseteq {5, 5000}
    BY <2>1, <2>2, <2>3
  <2>5. 1 \in 1..n
    BY <1>1
  <2>6. Rtt[replies[1]] \in times
    BY <2>2, <2>5
  <2> HIDE DEF times
  <2>7. \E x \in times : \A y \in times : x <= y
    <3>1. CASE 5 \in times
      BY <2>4, <3>1
    <3>2. CASE 5 \notin times
      <4>1. \A y \in times : y = 5000
        BY <2>4, <3>2
      <4> QED BY <2>6, <4>1
    <3> QED BY <3>1, <3>2
  <2>8. Min(times) \in times
    BY <2>7 DEF Min
  <2> QED BY <2>4, <2>8 DEF times
<1> QED BY <1>12, <1>13, <1>14, <1>15 DEF found, replies, Fits

-----------------------------------------------------------------------------
(* tls and http: questions put again until they are answered *)

\* When no answer that comes over the path would be asked for again, and the
\* last of all attempts is lost, they all are.
LEMMA AllAttemptsLost ==
  ASSUME AskedInv, NEW m \in Modules, NEW q \in MayAsk[m],
         asked[m][q] # <<>>, Len(asked[m][q]) = Repeats,
         \A reply \in Answers(q) : ~ AskedAgain(q, reply),
         asked[m][q][Len(asked[m][q])].lost
  PROVE  Lost(m, q) = Repeats
<1> DEFINE s == asked[m][q]
           n == Len(s)
<1>1. AttemptsInv(q, s) /\ n \in Nat /\ n > 0
  BY AttemptsOf
<1>2. \A i \in 1..n : s[i].lost
  <2> SUFFICES ASSUME NEW i \in 1..n, i # n PROVE s[i].lost
    OBVIOUS
  <2>1. i \in 1..(n - 1)
    BY <1>1
  <2>2. AskedAgain(q, s[i].reply)
    BY <1>1, <2>1 DEF AttemptsInv
  <2>3. IF s[i].lost THEN losses # 0 /\ s[i].reply \in Silence(q) ELSE s[i].reply \in Answers(q)
    BY <1>1 DEF AttemptsInv
  <2> QED BY <2>2, <2>3
<1> QED BY <1>2, LostOf

LEMMA TlsAsked ==
  ASSUME AskedInv, Done("tls")
  PROVE  \A q \in {"ownSni", "neutralSni", "ech"} :
           /\ q \in MayAsk["tls"] /\ asked["tls"][q] # <<>>
           /\ Answered(q, Replies(asked["tls"], q))
<1>1. \A q \in {"ownSni", "neutralSni", "ech"} : q \in MayAsk["tls"]
  BY DEF MayAsk
<1>2. Questions("tls") = <<"ownSni", "neutralSni", "ech">>
  BY DEF Questions
<1> DEFINE s == <<"ownSni", "neutralSni", "ech">>
<1>3. DOMAIN s = 1..3 /\ 1 \in 1..3 /\ 2 \in 1..3 /\ 3 \in 1..3
  OBVIOUS
<1>4. s[1] = "ownSni" /\ s[2] = "neutralSni" /\ s[3] = "ech"
  OBVIOUS
<1> HIDE DEF s
<1>5. Questions("tls") = s
  BY <1>2 DEF s
<1> QED BY <1>1, <1>3, <1>4, <1>5, DoneReplies, ModuleNames

\* What the two handshakes run into.
LEMMA Handshakes ==
  ASSUME AskedInv, WorldTypeOK, Done("tls")
  PROVE  LET own == Reply(asked["tls"], "ownSni")
             neutral == Reply(asked["tls"], "neutralSni")
         IN /\ \/ losses # 0 /\ own \in {"timeout", "hung"} /\ asked["tls"]["ownSni"][Len(asked["tls"]["ownSni"])].lost
               \/ censor = "dropsIp" /\ own \in {"timeout", "hung"}
               \/ censor = "resetsTcp" /\ own = "otherError"
               \/ censor = "resetsSni" /\ own = "reset"
               \/ censor = "dropsSni" /\ own = "timeout"
               \/ censor = "forgesCerts" /\ own = "untrusted"
               \/ /\ censor \notin {"dropsIp", "resetsTcp", "resetsSni", "dropsSni", "forgesCerts"}
                  /\ own = "done"
            /\ \/ losses # 0 /\ neutral \in {"timeout", "hung"} /\ Last(asked["tls"]["neutralSni"]).lost
               \/ censor = "dropsIp" /\ neutral \in {"timeout", "hung"}
               \/ censor = "resetsTcp" /\ neutral = "otherError"
               \/ censor \notin {"dropsIp", "resetsTcp"} /\ neutral \in {"done", "alert"}
<1> DEFINE own == Reply(asked["tls"], "ownSni")
           neutral == Reply(asked["tls"], "neutralSni")
<1>1. /\ Answers("ownSni") = TowardsTarget({"timeout", "hung"}, {"otherError"}, {"reset"}, {"timeout"},
                                            {"untrusted"}, {"done"}, {"done"}, {"done"})
      /\ Answers("neutralSni") = IF censor = "dropsIp" THEN {"timeout", "hung"}
                                  ELSE IF censor = "resetsTcp" THEN {"otherError"} ELSE {"done", "alert"}
      /\ Silence("ownSni") = {"timeout", "hung"} /\ Silence("neutralSni") = {"timeout", "hung"}
  BY DEF Answers, Silence
<1>2. \/ own \in Answers("ownSni")
      \/ /\ losses # 0 /\ own \in Silence("ownSni")
         /\ asked["tls"]["ownSni"][Len(asked["tls"]["ownSni"])].lost
  BY TlsAsked, LastReply, ModuleNames
<1>3. \/ neutral \in Answers("neutralSni")
      \/ losses # 0 /\ neutral \in Silence("neutralSni") /\ Last(asked["tls"]["neutralSni"]).lost
  BY TlsAsked, LastReply, ModuleNames
<1> HIDE DEF own, neutral
<1>4. \/ losses # 0 /\ own \in {"timeout", "hung"} /\ asked["tls"]["ownSni"][Len(asked["tls"]["ownSni"])].lost
      \/ censor = "dropsIp" /\ own \in {"timeout", "hung"}
      \/ censor = "resetsTcp" /\ own = "otherError"
      \/ censor = "resetsSni" /\ own = "reset"
      \/ censor = "dropsSni" /\ own = "timeout"
      \/ censor = "forgesCerts" /\ own = "untrusted"
      \/ /\ censor \notin {"dropsIp", "resetsTcp", "resetsSni", "dropsSni", "forgesCerts"}
         /\ own = "done"
  BY <1>1, <1>2 DEF TowardsTarget
<1>5. \/ losses # 0 /\ neutral \in {"timeout", "hung"} /\ Last(asked["tls"]["neutralSni"]).lost
      \/ censor = "dropsIp" /\ neutral \in {"timeout", "hung"}
      \/ censor = "resetsTcp" /\ neutral = "otherError"
      \/ censor \notin {"dropsIp", "resetsTcp"} /\ neutral \in {"done", "alert"}
  BY <1>1, <1>3
<1> QED BY <1>4, <1>5 DEF own, neutral

LEMMA OwnSniFits ==
  ASSUME AskedInv, WorldTypeOK, Done("tls")
  PROVE  Fits("tls", "ownSni", SniResult(asked["tls"]))
<1> DEFINE own == Reply(asked["tls"], "ownSni")
           neutral == Reply(asked["tls"], "neutralSni")
           s == asked["tls"]["ownSni"]
           found == SniResult(asked["tls"])
<1>1. \/ losses # 0 /\ own \in {"timeout", "hung"} /\ s[Len(s)].lost
      \/ censor = "dropsIp" /\ own \in {"timeout", "hung"}
      \/ censor = "resetsTcp" /\ own = "otherError"
      \/ censor = "resetsSni" /\ own = "reset"
      \/ censor = "dropsSni" /\ own = "timeout"
      \/ censor = "forgesCerts" /\ own = "untrusted"
      \/ /\ censor \notin {"dropsIp", "resetsTcp", "resetsSni", "dropsSni", "forgesCerts"}
         /\ own = "done"
  BY Handshakes
<1>2. \/ losses # 0 /\ neutral \in {"timeout", "hung"}
      \/ censor = "dropsIp" /\ neutral \in {"timeout", "hung"}
      \/ censor = "resetsTcp" /\ neutral = "otherError"
      \/ censor \notin {"dropsIp", "resetsTcp"} /\ neutral \in {"done", "alert"}
  BY Handshakes
<1>3. found = IF neutral \in {"done", "alert"} /\ own \in {"reset", "timeout"}
                THEN Blocked("tcp_rst_after_tls_ch") ELSE TlsOutcome[own]
  BY DEF SniResult, NeutralReachable
<1>4. /\ TlsOutcome["done"] = Is("OK", "none") /\ TlsOutcome["timeout"] = Is("BLOCKED", "ip_dropped")
      /\ TlsOutcome["hung"] = Is("BLOCKED", "ip_dropped")
      /\ TlsOutcome["reset"] = Is("BLOCKED", "tcp_rst_after_tls_ch")
      /\ TlsOutcome["untrusted"] = Is("ANOMALY", "tls_handshake_failure")
      /\ TlsOutcome["otherError"] = Is("ANOMALY", "none")
      /\ Blocked("tcp_rst_after_tls_ch") = Is("BLOCKED", "tcp_rst_after_tls_ch")
  BY DEF TlsOutcome, Ok, Blocked, Anomaly
<1> HIDE DEF own, neutral, found, s
<1>5. found \in FoundType
  <2>1. \/ found = Is("OK", "none") \/ found = Is("ANOMALY", "none")
        \/ found = Is("ANOMALY", "tls_handshake_failure")
        \/ found = Is("BLOCKED", "ip_dropped") \/ found = Is("BLOCKED", "tcp_rst_after_tls_ch")
    BY <1>1, <1>3, <1>4
  <2> QED BY <2>1, KnownFindings, VerdictNames
<1>6. Earns("tls", "ownSni", found)
  <2> SUFFICES ASSUME censor = "none", found.verdict \in BLOCKING_VERDICTS
               PROVE  Lost("tls", "ownSni") = Repeats
    BY DEF Earns, Earned
  <2>1. own # "done"
    BY <1>3, <1>4, KnownFindings, VerdictNames
  <2>2. s[Len(s)].lost
    BY <1>1, <2>1
  <2>3. Len(s) = Repeats /\ s # <<>>
    <3>1. Last(Replies(asked["tls"], "ownSni")) = own
      BY TlsAsked, AttemptsOf, ModuleNames DEF own
    <3>2. Last(Replies(asked["tls"], "ownSni")) = "done" \/ Len(Replies(asked["tls"], "ownSni")) = Repeats
      BY TlsAsked DEF Answered
    <3> QED BY <2>1, <3>1, <3>2, TlsAsked, AttemptsOf, ModuleNames DEF s
  <2>4. \A reply \in Answers("ownSni") : ~ AskedAgain("ownSni", reply)
    <3>1. Answers("ownSni") = {"done"}
      BY DEF Answers, TowardsTarget
    <3> QED BY <3>1 DEF AskedAgain
  <2> QED BY <2>2, <2>3, <2>4, AllAttemptsLost, TlsAsked, ModuleNames DEF s
<1>7. Sees("ownSni", found)
  <2>1. ASSUME losses = 0, NEW seen \in Attributed, seen[1] = "ownSni"
        PROVE  found = Is("BLOCKED", seen[2])
    <3>1. \/ censor = "dropsIp" /\ seen[2] = "ip_dropped"
          \/ censor \in {"resetsSni", "dropsSni"} /\ seen[2] = "tcp_rst_after_tls_ch"
      BY <2>1, Attribution DEF WorldTypeOK
    <3>2. CASE censor = "dropsIp" /\ seen[2] = "ip_dropped"
      <4>1. own \in {"timeout", "hung"} /\ neutral \in {"timeout", "hung"}
        BY <1>1, <1>2, <2>1, <3>2
      <4> QED BY <1>3, <1>4, <3>2, <4>1
    <3>3. CASE censor \in {"resetsSni", "dropsSni"} /\ seen[2] = "tcp_rst_after_tls_ch"
      <4>1. own \in {"reset", "timeout"} /\ neutral \in {"done", "alert"}
        BY <1>1, <1>2, <2>1, <3>3
      <4> QED BY <1>3, <1>4, <3>3, <4>1
    <3> QED BY <3>1, <3>2, <3>3
  <2> DEFINE test == "ownSni"
  <2>2. losses = 0 => \A seen \in Attributed : seen[1] = test =>
                        found = Is("BLOCKED", seen[2]) \/ found = Is("THROTTLED", seen[2])
    BY <2>1
  <2> HIDE DEF test
  <2>3. Sees(test, found)
    BY <2>2, SeesAll
  <2> QED BY <2>3 DEF test
<1> QED BY <1>5, <1>6, <1>7 DEF found, Fits

LEMMA NeutralFits ==
  ASSUME AskedInv, WorldTypeOK, Done("tls")
  PROVE  Fits("tls", "neutralSni", NeutralResult(asked["tls"]))
<1> DEFINE neutral == Reply(asked["tls"], "neutralSni")
           found == NeutralResult(asked["tls"])
<1>1. \/ losses # 0 /\ neutral \in {"timeout", "hung"} /\ Last(asked["tls"]["neutralSni"]).lost
      \/ censor = "dropsIp" /\ neutral \in {"timeout", "hung"}
      \/ censor = "resetsTcp" /\ neutral = "otherError"
      \/ censor \notin {"dropsIp", "resetsTcp"} /\ neutral \in {"done", "alert"}
  BY Handshakes
<1>2. found = IF neutral = "alert" THEN Is("INCONCLUSIVE", "none")
                                   ELSE Is(TlsOutcome[neutral].verdict, "none")
  BY DEF NeutralResult, Inconclusive
<1>3. /\ TlsOutcome["done"].verdict = "OK" /\ TlsOutcome["timeout"].verdict = "BLOCKED"
      /\ TlsOutcome["hung"].verdict = "BLOCKED" /\ TlsOutcome["otherError"].verdict = "ANOMALY"
  BY DEF TlsOutcome, Ok, Blocked, Anomaly, Is
<1> HIDE DEF neutral, found
<1>4. found \in FoundType
  BY <1>1, <1>2, <1>3, KnownFindings, VerdictNames
<1>5. Earns("tls", "neutralSni", found)
  <2> SUFFICES ASSUME censor = "none", found.verdict \in BLOCKING_VERDICTS
               PROVE  Last(asked["tls"]["neutralSni"]).lost
    BY DEF Earns, Earned
  <2>1. neutral \in {"done", "alert"} => found = Is("OK", "none") \/ found = Is("INCONCLUSIVE", "none")
    BY <1>2, <1>3
  <2>2. neutral \notin {"done", "alert"}
    BY <2>1, KnownFindings, VerdictNames
  <2> QED BY <1>1, <2>2
<1>6. Sees("neutralSni", found)
  <2> SUFFICES ASSUME losses = 0, NEW seen \in Attributed, seen[1] = "neutralSni"
               PROVE  FALSE
    BY SeesAll
  <2> QED BY Attribution DEF WorldTypeOK
<1> QED BY <1>4, <1>5, <1>6 DEF found, Fits

LEMMA GetAsked ==
  ASSUME AskedInv, Done("http")
  PROVE  /\ "get" \in MayAsk["http"] /\ asked["http"]["get"] # <<>>
         /\ Answered("get", Replies(asked["http"], "get"))
<1>1. Questions("http") = <<"get">> /\ "get" \in MayAsk["http"]
  BY DEF Questions, MayAsk
<1>2. 1 \in DOMAIN Questions("http") /\ Questions("http")[1] = "get"
  BY <1>1
<1> QED BY <1>1, <1>2, DoneReplies, ModuleNames

LEMMA GetFits ==
  ASSUME AskedInv, WorldTypeOK, Done("http")
  PROVE  Fits("http", "get", HttpResult(asked["http"]))
<1> DEFINE reply == Reply(asked["http"], "get")
           s == asked["http"]["get"]
           found == HttpResult(asked["http"])
<1>1. \/ reply \in Answers("get")
      \/ losses # 0 /\ reply \in Silence("get") /\ s[Len(s)].lost
  BY GetAsked, LastReply, ModuleNames
<1>2. /\ Answers("get") = TowardsTarget({"timeout"}, {"connectError"}, {"reset", "connectError"},
                            {"timeout"}, {"sslError"}, {"sslError"}, {"connectError"},
                            {"200", "403", "503"})
      /\ Silence("get") = {"timeout", "otherError"}
  BY DEF Answers, Silence
<1>3. /\ HttpError["timeout"] = Is("BLOCKED", "ip_dropped") /\ HttpError["connectError"] = Is("BLOCKED", "ip_dropped")
      /\ HttpError["sslError"] = Is("BLOCKED", "tls_handshake_failure")
      /\ HttpError["reset"] = Is("BLOCKED", "tcp_rst_injection")
      /\ HttpError["otherError"] = Is("ERROR", "none")
  BY DEF HttpError, Blocked, Error
<1>4. /\ reply = "403" => found = Is("SERVER_REFUSED", "none")
      /\ reply = "200" => found = Is("OK", "none")
      /\ reply = "503" => found = Is("ANOMALY", "none")
      /\ reply \in {"timeout", "connectError", "sslError", "reset", "otherError"} => found = HttpError[reply]
  BY DEF HttpResult, Refusals, Statuses, Ok, Anomaly
<1> HIDE DEF reply, s, found
<1>5. \/ losses # 0 /\ reply \in {"timeout", "otherError"} /\ s[Len(s)].lost
      \/ censor \in {"dropsIp", "dropsSni"} /\ reply = "timeout"
      \/ censor \in {"resetsTcp", "deniesDns"} /\ reply = "connectError"
      \/ censor = "resetsSni" /\ reply \in {"reset", "connectError"}
      \/ censor \in {"forgesCerts", "poisonsDns"} /\ reply = "sslError"
      \/ /\ censor \notin {"dropsIp", "resetsTcp", "resetsSni", "dropsSni", "forgesCerts",
                           "poisonsDns", "deniesDns"}
         /\ reply \in {"200", "403", "503"}
  BY <1>1, <1>2 DEF TowardsTarget
<1>6. found \in FoundType
  <2>1. \/ found = Is("OK", "none") \/ found = Is("ANOMALY", "none") \/ found = Is("ERROR", "none")
        \/ found = Is("SERVER_REFUSED", "none") \/ found = Is("BLOCKED", "ip_dropped")
        \/ found = Is("BLOCKED", "tcp_rst_injection") \/ found = Is("BLOCKED", "tls_handshake_failure")
    BY <1>3, <1>4, <1>5
  <2> QED BY <2>1, KnownFindings, VerdictNames
<1>7. Earns("http", "get", found)
  <2> SUFFICES ASSUME censor = "none", found.verdict \in BLOCKING_VERDICTS
               PROVE  Lost("http", "get") = Repeats
    BY DEF Earns, Earned
  <2>1. reply = "timeout" /\ s[Len(s)].lost
    BY <1>3, <1>4, <1>5, KnownFindings, VerdictNames
  <2>2. Len(s) = Repeats /\ s # <<>>
    <3>1. Last(Replies(asked["http"], "get")) = reply
      BY GetAsked, AttemptsOf, ModuleNames DEF reply
    <3>2. \/ Last(Replies(asked["http"], "get")) \notin HttpRetried
          \/ Len(Replies(asked["http"], "get")) = Repeats
      BY GetAsked DEF Answered
    <3>3. "timeout" \in HttpRetried
      BY DEF HttpRetried
    <3> QED BY <2>1, <3>1, <3>2, <3>3, GetAsked, AttemptsOf, ModuleNames DEF s
  <2>3. \A answer \in Answers("get") : ~ AskedAgain("get", answer)
    <3>1. Answers("get") = {"200", "403", "503"}
      BY <1>2 DEF TowardsTarget
    <3> QED BY <3>1 DEF AskedAgain, HttpRetried
  <2> QED BY <2>1, <2>2, <2>3, AllAttemptsLost, GetAsked, ModuleNames DEF s
<1>8. Sees("get", found)
  <2> SUFFICES ASSUME losses = 0, NEW seen \in Attributed, seen[1] = "get"
               PROVE  found = Is("BLOCKED", seen[2])
    BY SeesAll
  <2>1. \/ censor \in {"dropsIp", "dropsSni"} /\ seen[2] = "ip_dropped"
        \/ censor = "forgesCerts" /\ seen[2] = "tls_handshake_failure"
    BY Attribution DEF WorldTypeOK
  <2>2. CASE censor \in {"dropsIp", "dropsSni"} /\ seen[2] = "ip_dropped"
    <3>1. reply = "timeout"
      BY <1>5, <2>2
    <3> QED BY <1>3, <1>4, <2>2, <3>1
  <2>3. CASE censor = "forgesCerts" /\ seen[2] = "tls_handshake_failure"
    <3>1. reply = "sslError"
      BY <1>5, <2>3
    <3> QED BY <1>3, <1>4, <2>3, <3>1
  <2> QED BY <2>1, <2>2, <2>3
<1> QED BY <1>6, <1>7, <1>8 DEF found, Fits

-----------------------------------------------------------------------------
(* telegram: the health score; throttling: three bandwidths *)

LEMMA OkRatioIs ==
  ASSUME NEW found, IsFiniteSet(DOMAIN found)
  PROVE  /\ OkRatio(found) \in 0..100
         /\ /\ \E i \in DOMAIN found : found[i].verdict = "OK"
            /\ \A i \in DOMAIN found : found[i].verdict = "OK" \/ found[i].verdict = "INCONCLUSIVE"
            => OkRatio(found) = 100
<1> DEFINE decisive == {i \in DOMAIN found : found[i].verdict # "INCONCLUSIVE"}
           ok == {i \in decisive : found[i].verdict = "OK"}
           n == Cardinality(decisive)
           k == Cardinality(ok)
<1>1. OkRatio(found) = IF decisive = {} THEN 0 ELSE (100 * k) \div n
  BY DEF OkRatio
<1>2. decisive \in SUBSET DOMAIN found /\ ok \in SUBSET decisive
  OBVIOUS
<1>3. /\ \E i \in DOMAIN found : found[i].verdict = "OK"
      /\ \A i \in DOMAIN found : found[i].verdict = "OK" \/ found[i].verdict = "INCONCLUSIVE"
      => ok = decisive /\ decisive # {}
  OBVIOUS
<1> HIDE DEF decisive, ok
<1>4. n \in Nat /\ k \in Nat /\ k <= n /\ (decisive # {} => n > 0)
  <2>1. IsFiniteSet(decisive)
    BY <1>2, FS_Subset
  <2>2. k <= n /\ IsFiniteSet(ok)
    BY <1>2, <2>1, FS_Subset
  <2> QED BY <2>1, <2>2, FS_CardinalityType, FS_EmptySet
<1>5. n > 0 => (100 * k) \div n \in 0..100 /\ (k = n => (100 * k) \div n = 100)
  <2> SUFFICES ASSUME n > 0
               PROVE  (100 * k) \div n \in 0..100 /\ (k = n => (100 * k) \div n = 100)
    OBVIOUS
  <2> HIDE DEF n, k
  <2>1. (100 * k) \div n <= (100 * 1) \div 1 /\ (100 * 1) \div 1 = 100
    <3>1. k * 1 <= 1 * n
      BY <1>4
    <3> QED BY <1>4, <3>1, RatioRises
  <2>2. (100 * k) \div n \in Nat
    BY <1>4, Quotient
  <2>3. ASSUME k = n PROVE (100 * k) \div n >= 100
    <3>1. (100 * 1) \div 1 <= (100 * k) \div n
      <4>1. 1 * n <= k * 1
        BY <1>4, <2>3
      <4> QED BY <1>4, <4>1, RatioRises
    <3> QED BY <2>1, <3>1
  <2> QED BY <2>1, <2>2, <2>3
<1>6. CASE decisive = {}
  BY <1>1, <1>3, <1>6
<1>7. CASE decisive # {}
  BY <1>1, <1>3, <1>4, <1>5, <1>7
<1> QED BY <1>6, <1>7

LEMMA OkOnly ==
  ASSUME NEW a, NEW b, a.verdict = "OK", NEW s, NEW t, s = <<a>>, t = <<a, b>>
  PROVE  /\ OkRatio(s) = 100
         /\ b.verdict = "OK" \/ b.verdict = "INCONCLUSIVE" => OkRatio(t) = 100
<1>0. IsFiniteSet(1..1) /\ IsFiniteSet(1..2)
  BY FS_Interval, 1 \in Int, 2 \in Int
<1>1. DOMAIN s = 1..1 /\ \A i \in 1..1 : s[i] = a
  <2>1. DOMAIN <<a>> = 1..1 /\ \A i \in 1..1 : <<a>>[i] = a
    OBVIOUS
  <2> QED BY <2>1
<1>2. DOMAIN t = 1..2
  <2>1. DOMAIN <<a, b>> = 1..2
    OBVIOUS
  <2> QED BY <2>1
<1>3. t[1] = a /\ t[2] = b /\ (\A i \in 1..2 : i = 1 \/ i = 2) /\ 1 \in 1..2 /\ 1 \in 1..1
  OBVIOUS
<1>4. OkRatio(s) = 100
  <2>1. \A i \in DOMAIN s : s[i].verdict = "OK" \/ s[i].verdict = "INCONCLUSIVE"
    BY <1>1
  <2>2. \E i \in DOMAIN s : s[i].verdict = "OK"
    BY <1>1, <1>3
  <2>3. IsFiniteSet(DOMAIN s)
    BY <1>0, <1>1
  <2> QED BY <2>1, <2>2, <2>3, OkRatioIs
<1>5. ASSUME b.verdict = "OK" \/ b.verdict = "INCONCLUSIVE" PROVE OkRatio(t) = 100
  <2>1. \A i \in DOMAIN t : t[i].verdict = "OK" \/ t[i].verdict = "INCONCLUSIVE"
    BY <1>2, <1>3, <1>5
  <2>2. \E i \in DOMAIN t : t[i].verdict = "OK"
    BY <1>2, <1>3
  <2>3. IsFiniteSet(DOMAIN t)
    BY <1>0, <1>2
  <2> QED BY <2>1, <2>2, <2>3, OkRatioIs
<1> QED BY <1>4, <1>5

LEMMA TelegramAsked ==
  ASSUME AskedInv, Done("telegram")
  PROVE  /\ \A q \in {"dcV4", "web", "aux", "cdn"} : asked["telegram"][q] # <<>>
         /\ ipv6 => asked["telegram"]["dcV6"] # <<>>
         /\ {"dcV4", "dcV6", "web", "aux", "cdn"} = MayAsk["telegram"]
<1>1. {"dcV4", "dcV6", "web", "aux", "cdn"} = MayAsk["telegram"]
  BY DEF MayAsk
<1> DEFINE s == <<"dcV4", "dcV6", "web", "aux", "cdn">>
           t == <<"dcV4", "web", "aux", "cdn">>
<1>2. /\ DOMAIN s = 1..5 /\ 1 \in 1..5 /\ 2 \in 1..5 /\ 3 \in 1..5 /\ 4 \in 1..5 /\ 5 \in 1..5
      /\ s[1] = "dcV4" /\ s[2] = "dcV6" /\ s[3] = "web" /\ s[4] = "aux" /\ s[5] = "cdn"
  OBVIOUS
<1>3. /\ DOMAIN t = 1..4 /\ 1 \in 1..4 /\ 2 \in 1..4 /\ 3 \in 1..4 /\ 4 \in 1..4
      /\ t[1] = "dcV4" /\ t[2] = "web" /\ t[3] = "aux" /\ t[4] = "cdn"
  OBVIOUS
<1>4. Questions("telegram") = IF ipv6 THEN s ELSE t
  BY DEF Questions
<1> HIDE DEF s, t
<1>5. CASE ipv6
  <2>1. Questions("telegram") = s
    BY <1>4, <1>5
  <2> QED BY <1>1, <1>2, <2>1, DoneReplies, ModuleNames
<1>6. CASE ~ ipv6
  <2>1. Questions("telegram") = t
    BY <1>4, <1>6
  <2> QED BY <1>1, <1>3, <1>6, <2>1, DoneReplies, ModuleNames
<1> QED BY <1>5, <1>6

\* The results about the data centres.
DcResult(q) == [category |-> "telegram", test |-> q,
                verdict |-> DcOutcome[Reply(asked["telegram"], q)].verdict,
                method |-> DcOutcome[Reply(asked["telegram"], q)].method, rtt |-> NoRtt]
DcResults == IF ipv6 THEN <<DcResult("dcV4"), DcResult("dcV6")>> ELSE <<DcResult("dcV4")>>

LEMMA NoneOfEither ==
  ASSUME NEW a \in Nat, NEW b \in Nat, ~ (a + b > 0)
  PROVE  a = 0 /\ b = 0
OBVIOUS

\* Where nobody censors and no attempt at a data centre is lost, all that
\* decide are OK.
LEMMA DcsHealthy ==
  ASSUME AskedInv, WorldTypeOK, Done("telegram"), censor = "none",
         ~ (Lost("telegram", "dcV4") + Lost("telegram", "dcV6") > 0)
  PROVE  OkRatio(DcResults) = 100
<1>0. /\ "telegram" \in Modules /\ "dcV4" \in MayAsk["telegram"] \ Repeated
      /\ "dcV6" \in MayAsk["telegram"] \ Repeated
  BY TelegramAsked, ModuleNames DEF Repeated
<1>1. Lost("telegram", "dcV4") = 0 /\ Lost("telegram", "dcV6") = 0
  <2>1. Lost("telegram", "dcV4") \in Nat /\ Lost("telegram", "dcV6") \in Nat
    BY <1>0, LostOf
  <2> QED BY <2>1, NoneOfEither
<1>2. \A q \in {"dcV4", "dcV6"} : asked["telegram"][q] # <<>> => Reply(asked["telegram"], q) \in Answers(q)
  <2> SUFFICES ASSUME NEW q \in {"dcV4", "dcV6"}, asked["telegram"][q] # <<>>
               PROVE  Reply(asked["telegram"], q) \in Answers(q)
    OBVIOUS
  <2>1. q \in MayAsk["telegram"] \ Repeated /\ Lost("telegram", q) = 0
    BY <1>0, <1>1
  <2> DEFINE n == Lost("telegram", q)
  <2>2. n = 0
    BY <2>1
  <2> HIDE DEF n
  <2>3. n # 1
    BY <2>2
  <2> QED BY <1>0, <2>1, <2>3, OnlyReply DEF n
<1>3. Answers("dcV4") = {"open"} /\ Answers("dcV6") = {"open", "noRoute"}
  BY DEF Answers
<1>4. DcOutcome["open"].verdict = "OK" /\ DcOutcome["noRoute"].verdict = "INCONCLUSIVE"
  BY DEF DcOutcome, Ok, Inconclusive, Is
<1>5. /\ DcResult("dcV4").verdict = "OK"
      /\ ipv6 => DcResult("dcV6").verdict = "OK" \/ DcResult("dcV6").verdict = "INCONCLUSIVE"
  <2>1. Reply(asked["telegram"], "dcV4") = "open"
    BY <1>2, <1>3, TelegramAsked
  <2>2. ipv6 => Reply(asked["telegram"], "dcV6") = "open" \/ Reply(asked["telegram"], "dcV6") = "noRoute"
    BY <1>2, <1>3, TelegramAsked
  <2> QED BY <1>4, <2>1, <2>2 DEF DcResult
<1> DEFINE x == DcResult("dcV4")
           y == DcResult("dcV6")
           s == <<x>>
           t == <<x, y>>
<1>6. DcResults = IF ipv6 THEN t ELSE s
  BY DEF DcResults
<1>7. x.verdict = "OK" /\ (ipv6 => y.verdict = "OK" \/ y.verdict = "INCONCLUSIVE")
  BY <1>5
<1> HIDE DEF x, y
<1>8. s = <<x>> /\ t = <<x, y>>
  OBVIOUS
<1> HIDE DEF s, t
<1> QED BY <1>6, <1>7, <1>8, OkOnly

LEMMA HealthFits ==
  ASSUME AskedInv, WorldTypeOK, Done("telegram"), NEW a, NEW b
  PROVE  Fits("telegram", "health", HealthResult(Health(DcResults, <<a>>, <<b>>)))
<1> DEFINE x == OkRatio(DcResults)
           y == OkRatio(<<a>>)
           z == OkRatio(<<b>>)
           h == Health(DcResults, <<a>>, <<b>>)
           found == HealthResult(h)
<1>1. x \in 0..100 /\ y \in 0..100 /\ z \in 0..100
  <2>1. IsFiniteSet(1..1) /\ IsFiniteSet(1..2)
    BY FS_Interval, 1 \in Int, 2 \in Int
  <2>2. DOMAIN DcResults = 1..1 \/ DOMAIN DcResults = 1..2
    BY DEF DcResults
  <2>3. DOMAIN <<a>> = 1..1 /\ DOMAIN <<b>> = 1..1
    OBVIOUS
  <2> QED BY <2>1, <2>2, <2>3, OkRatioIs
<1>2. h = (55 * x + 25 * y + 20 * z) \div 100
  BY DEF Health
<1> HIDE DEF x, y, z
<1>3. h \in Nat /\ (x = 100 => h >= 30)
  <2> HIDE DEF h
  <2>1. 55 * x + 25 * y + 20 * z \in Nat /\ (x = 100 => 55 * x + 25 * y + 20 * z >= 5500)
    BY <1>1
  <2> QED BY <1>2, <2>1
<1> HIDE DEF h
<1>4. /\ found = Is("OK", "none") \/ found = Is("ANOMALY", "none") \/ found = Is("BLOCKED", "none")
      /\ h >= 30 => found # Is("BLOCKED", "none")
  <2>1. /\ Is("OK", "none") # Is("BLOCKED", "none") /\ Is("ANOMALY", "none") # Is("BLOCKED", "none")
    <3>1. Is("OK", "none").verdict # Is("BLOCKED", "none").verdict /\ Is("ANOMALY", "none").verdict # Is("BLOCKED", "none").verdict
      BY DEF Is
    <3> QED BY <3>1
  <2>2. CASE h >= 70
    BY <1>3, <2>1, <2>2 DEF HealthResult, Ok
  <2>3. CASE h >= 30 /\ h < 70
    BY <1>3, <2>1, <2>3 DEF HealthResult, Anomaly
  <2>4. CASE h < 30
    BY <1>3, <2>1, <2>4 DEF HealthResult
  <2> QED BY <1>3, <2>2, <2>3, <2>4
<1> HIDE DEF found
<1>5. found \in FoundType
  BY <1>4, KnownFindings, VerdictNames
<1>6. Earns("telegram", "health", found)
  <2> SUFFICES ASSUME censor = "none", found.verdict \in BLOCKING_VERDICTS,
                      ~ (Lost("telegram", "dcV4") + Lost("telegram", "dcV6") > 0)
               PROVE  FALSE
    BY DEF Earns, Earned
  <2>1. x = 100
    BY DcsHealthy DEF x
  <2>2. found = Is("OK", "none") \/ found = Is("ANOMALY", "none")
    BY <1>3, <1>4, <2>1
  <2> QED BY <2>2, KnownFindings, VerdictNames
<1>7. Sees("health", found)
  <2> SUFFICES ASSUME losses = 0, NEW seen \in Attributed, seen[1] = "health"
               PROVE  FALSE
    BY SeesAll
  <2> QED BY Attribution DEF WorldTypeOK
<1> QED BY <1>5, <1>6, <1>7 DEF found, h, Fits

LEMMA ThrottlingAsked ==
  ASSUME AskedInv, Done("throttling"), ~ (required /\ ~ vantage)
  PROVE  \A q \in {"correct", "trigger", "typo"} :
           q \in MayAsk["throttling"] \ Repeated /\ asked["throttling"][q] # <<>>
<1>1. {"correct", "trigger", "typo"} = MayAsk["throttling"] /\ MayAsk["throttling"] \ Repeated = MayAsk["throttling"]
  BY DEF MayAsk, Repeated
<1> DEFINE s == <<"correct", "trigger", "typo">>
<1>2. DOMAIN s = 1..3 /\ 1 \in 1..3 /\ 2 \in 1..3 /\ 3 \in 1..3
  OBVIOUS
<1>3. s[1] = "correct" /\ s[2] = "trigger" /\ s[3] = "typo"
  OBVIOUS
<1>4. Questions("throttling") = s
  BY DEF Questions
<1> HIDE DEF s
<1> QED BY <1>1, <1>2, <1>3, <1>4, DoneReplies, ModuleNames

LEMMA TriggerFits ==
  ASSUME AskedInv, WorldTypeOK, Done("throttling")
  PROVE  LET reply(q) == Reply(asked["throttling"], q)
         IN Fits("throttling", "trigger",
                 IF required /\ ~ vantage THEN Inconclusive
                 ELSE Throttled(reply("correct"), reply("trigger"), reply("typo")))
<1> DEFINE correct == Reply(asked["throttling"], "correct")
           trigger == Reply(asked["throttling"], "trigger")
           typo == Reply(asked["throttling"], "typo")
           found == IF required /\ ~ vantage THEN Inconclusive ELSE Throttled(correct, trigger, typo)
<1>1. CASE required /\ ~ vantage
  <2>1. found = Is("INCONCLUSIVE", "none")
    BY <1>1 DEF Inconclusive
  <2>2. Sees("trigger", found)
    <3> SUFFICES ASSUME losses = 0, NEW seen \in Attributed, seen[1] = "trigger"
                 PROVE  FALSE
      BY SeesAll
    <3> QED BY <1>1, Attribution DEF WorldTypeOK
  <2> HIDE DEF found
  <2>3. found \in FoundType /\ Earns("throttling", "trigger", found)
    BY <2>1, KnownFindings, VerdictNames DEF Earns
  <2> QED BY <2>2, <2>3 DEF found, Fits
<1>2. CASE ~ (required /\ ~ vantage)
  <2>1. /\ Answers("correct") = {8} /\ Answers("typo") = {8}
        /\ Answers("trigger") = IF censor = "throttles" THEN {1} ELSE {4, 8}
        /\ Silence("correct") = {0} /\ Silence("typo") = {0} /\ Silence("trigger") = {0}
    BY DEF Answers, Silence
  <2>2. \A q \in {"correct", "trigger", "typo"} :
          \/ Reply(asked["throttling"], q) \in Answers(q)
          \/ losses # 0 /\ Reply(asked["throttling"], q) \in Silence(q)
    BY <1>2, ThrottlingAsked, OnlyReply, ModuleNames
  <2>3. /\ correct = 8 \/ (losses # 0 /\ correct = 0)
        /\ typo = 8 \/ (losses # 0 /\ typo = 0)
        /\ \/ censor = "throttles" /\ trigger = 1
           \/ censor # "throttles" /\ trigger \in {4, 8}
           \/ losses # 0 /\ trigger = 0
    BY <2>1, <2>2
  <2>4. found = Throttled(correct, trigger, typo)
    BY <1>2
  <2> HIDE DEF correct, trigger, typo, found
  <2>5. CASE 0 \in {correct, trigger, typo}
    <3>1. found = Is("INCONCLUSIVE", "none")
      BY <2>4, <2>5 DEF Throttled, Inconclusive
    <3>2. losses # 0
      BY <2>3, <2>5
    <3>3. Sees("trigger", found)
      BY <3>2 DEF Sees
    <3>4. found \in FoundType /\ Earns("throttling", "trigger", found)
      BY <3>1, KnownFindings, VerdictNames DEF Earns
    <3> QED BY <3>3, <3>4 DEF found, correct, trigger, typo, Fits
  <2>6. CASE 0 \notin {correct, trigger, typo}
    <3>0. correct = 8 /\ typo = 8
      BY <2>3, <2>6
    <3>1. CASE censor # "throttles" /\ trigger \in {4, 8}
      <4>1. ~ (4 * trigger < 8)
        BY <3>1
      <4>2. found = Is("OK", "none")
        BY <2>4, <2>6, <3>0, <4>1 DEF Throttled, Ok
      <4>3. Sees("trigger", found)
        <5> SUFFICES ASSUME losses = 0, NEW seen \in Attributed, seen[1] = "trigger"
                     PROVE  FALSE
          BY SeesAll
        <5> QED BY <3>1, Attribution DEF WorldTypeOK
      <4>4. found \in FoundType /\ Earns("throttling", "trigger", found)
        BY <4>2, KnownFindings, VerdictNames DEF Earns
      <4> QED BY <4>3, <4>4 DEF found, correct, trigger, typo, Fits
    <3>2. CASE censor = "throttles" /\ trigger = 1
      <4>1. found = Is("THROTTLED", "sni_throttling")
        BY <2>4, <2>6, <3>0, <3>2 DEF Throttled
      <4>2. Sees("trigger", found)
        <5>1. \A seen \in Attributed : seen[1] = "trigger" => seen[2] = "sni_throttling"
          BY Attribution DEF WorldTypeOK
        <5> QED BY <4>1, <5>1, SeesAll
      <4>3. found \in FoundType
        BY <4>1, VerdictNames DEF FoundType, Is
      <4>4. Earns("throttling", "trigger", found)
        BY <3>2 DEF Earns
      <4> QED BY <4>2, <4>3, <4>4 DEF found, correct, trigger, typo, Fits
    <3> QED BY <2>3, <2>6, <3>1, <3>2
  <2> QED BY <2>5, <2>6
<1> QED BY <1>1, <1>2

-----------------------------------------------------------------------------
(* The results of each module *)

LEMMA TestNames ==
  /\ {"dohAccess", "system", "syn", "ownSni", "neutralSni", "ech", "get", "dcV4", "dcV6", "web",
      "aux", "cdn", "ipv6Skipped", "health", "quic", "warpTcp", "warpUdp", "page", "trigger",
      "hostCase", "agentCase", "badLine"} \subseteq Tests
  /\ NoRtt \in Rtts
<1>1. /\ MayAsk["dns"] = {"dohAccess", "system", "public", "doh", "cert"} /\ MayAsk["tcp"] = {"syn"}
      /\ MayAsk["tls"] = {"ownSni", "neutralSni", "ech"} /\ MayAsk["http"] = {"get"}
      /\ MayAsk["telegram"] = {"dcV4", "dcV6", "web", "aux", "cdn"}
      /\ MayAsk["cloudflare"] = {"quic", "warpTcp", "warpUdp", "page"}
      /\ MayAsk["throttling"] = {"correct", "trigger", "typo"}
      /\ MayAsk["middlebox"] = {"hostCase", "agentCase", "badLine"}
  BY DEF MayAsk
<1>2. \A m \in Modules : MayAsk[m] \subseteq Tests
  BY DEF Tests
<1>3. "ipv6Skipped" \in Tests /\ "health" \in Tests
  BY DEF Tests
<1>4. NoRtt \in Rtts
  BY DEF Rtts
<1> QED BY <1>1, <1>2, <1>3, <1>4, ModuleNames

LEMMA Lists ==
  ASSUME NEW T
  PROVE  /\ <<>> \in Seq(T)
         /\ \A a, b, c, d \in T : /\ <<a>> \in Seq(T) /\ <<a, b>> \in Seq(T)
                                  /\ <<a, b, c>> \in Seq(T) /\ <<a, b, c, d>> \in Seq(T)
OBVIOUS

LEMMA ConcatType ==
  ASSUME NEW T, NEW s \in Seq(T), NEW t \in Seq(T)
  PROVE  Concat(s, t) \in Seq(T)
BY DEF Concat

\* The result of a test without a time.
Plain(m, test, found) == [category |-> m, test |-> test, verdict |-> found.verdict,
                          method |-> found.method, rtt |-> NoRtt]

LEMMA PlainSound ==
  ASSUME NEW m \in Modules, NEW test \in Tests, NEW found, Fits(m, test, found)
  PROVE  Plain(m, test, found) \in Sounds(m)
BY FitsSound, TestNames DEF Plain

LEMMA DnsSound ==
  ASSUME AskedInv, WorldTypeOK, Done("dns")
  PROVE  ResultsOf("dns") \in Seq(Sounds("dns"))
<1> DEFINE r == Plain("dns", "dohAccess", DohAccess[Reply(asked["dns"], "dohAccess")])
           s == Plain("dns", "system", DnsResult(asked["dns"]))
<1>1. r \in Sounds("dns")
  BY DnsAsked, DohAccessFits, PlainSound, TestNames, ModuleNames
<1>2. s \in Sounds("dns")
  BY SystemFits, PlainSound, TestNames, ModuleNames
<1>3. ResultsOf("dns") = <<r, s>>
  BY DEF ResultsOf, Plain
<1> HIDE DEF r, s
<1> QED BY <1>1, <1>2, <1>3, Lists

LEMMA TcpSound ==
  ASSUME AskedInv, WorldTypeOK, Done("tcp")
  PROVE  ResultsOf("tcp") \in Seq(Sounds("tcp"))
<1> DEFINE time == Min({Rtt[r] : r \in ToSet(Replies(asked["tcp"], "syn"))})
           found == TcpResult(asked["tcp"], vantage)
           s == [category |-> "tcp", test |-> "syn", verdict |-> found.verdict,
                 method |-> found.method, rtt |-> time]
<1>1. ResultsOf("tcp") = <<s>>
  BY DEF ResultsOf
<1>2. Fits("tcp", "syn", found) /\ time \in Rtts
  BY SynFits DEF Rtts
<1> HIDE DEF found, time
<1>3. s \in Sounds("tcp")
  BY <1>2, FitsSound, TestNames, ModuleNames
<1> HIDE DEF s
<1> QED BY <1>1, <1>3, Lists

LEMMA TlsSound ==
  ASSUME AskedInv, WorldTypeOK, Done("tls")
  PROVE  ResultsOf("tls") \in Seq(Sounds("tls"))
<1> DEFINE r == Plain("tls", "ownSni", SniResult(asked["tls"]))
           s == Plain("tls", "neutralSni", NeutralResult(asked["tls"]))
           t == Plain("tls", "ech", EchOutcome[Reply(asked["tls"], "ech")])
<1>1. r \in Sounds("tls")
  BY OwnSniFits, PlainSound, TestNames, ModuleNames
<1>2. s \in Sounds("tls")
  BY NeutralFits, PlainSound, TestNames, ModuleNames
<1>3. t \in Sounds("tls")
  BY TlsAsked, EchFits, PlainSound, TestNames, ModuleNames
<1>4. ResultsOf("tls") = <<r, s, t>>
  BY DEF ResultsOf, Plain
<1> HIDE DEF r, s, t
<1> QED BY <1>1, <1>2, <1>3, <1>4, Lists

LEMMA HttpSound ==
  ASSUME AskedInv, WorldTypeOK, Done("http")
  PROVE  ResultsOf("http") \in Seq(Sounds("http"))
<1> DEFINE r == Plain("http", "get", HttpResult(asked["http"]))
<1>1. r \in Sounds("http")
  BY GetFits, PlainSound, TestNames, ModuleNames
<1>2. ResultsOf("http") = <<r>>
  BY DEF ResultsOf, Plain
<1> HIDE DEF r
<1> QED BY <1>1, <1>2, Lists

LEMMA TelegramSound ==
  ASSUME AskedInv, WorldTypeOK, Done("telegram")
  PROVE  ResultsOf("telegram") \in Seq(Sounds("telegram"))
<1> DEFINE skipped == Plain("telegram", "ipv6Skipped", Inconclusive)
           web(q) == Plain("telegram", q, WebOutcome[Reply(asked["telegram"], q)])
           health == Plain("telegram", "health", HealthResult(Health(DcResults, <<web("web")>>, <<web("cdn")>>)))
           first == IF ipv6 THEN <<>> ELSE <<skipped>>
           pages == <<web("web"), web("aux"), web("cdn")>>
<1>1. ResultsOf("telegram") = Concat(Concat(Concat(first, DcResults), pages), <<health>>)
  BY DEF ResultsOf, Plain, Concat, DcResults, DcResult
<1>2. skipped \in Sounds("telegram")
  <2>1. Inconclusive \in FoundType /\ Earns("telegram", "ipv6Skipped", Inconclusive)
    BY KnownFindings, VerdictNames DEF Inconclusive, Earns
  <2>2. Sees("ipv6Skipped", Inconclusive)
    <3> SUFFICES ASSUME losses = 0, NEW seen \in Attributed, seen[1] = "ipv6Skipped"
                 PROVE  FALSE
      BY SeesAll
    <3> QED BY Attribution DEF WorldTypeOK
  <2>3. Fits("telegram", "ipv6Skipped", Inconclusive)
    BY <2>1, <2>2 DEF Fits
  <2> QED BY <2>3, PlainSound, TestNames, ModuleNames
<1>3. \A q \in {"web", "aux", "cdn"} : web(q) \in Sounds("telegram")
  BY WebFits, TelegramAsked, PlainSound, TestNames, ModuleNames
<1>4. /\ DcResult("dcV4") \in Sounds("telegram")
      /\ ipv6 => DcResult("dcV6") \in Sounds("telegram")
  <2>1. \A q : DcResult(q) = Plain("telegram", q, DcOutcome[Reply(asked["telegram"], q)])
    BY DEF DcResult, Plain
  <2> QED BY <2>1, DcFits, TelegramAsked, PlainSound, TestNames, ModuleNames
<1>5. health \in Sounds("telegram")
  BY HealthFits, PlainSound, TestNames, ModuleNames
<1> HIDE DEF skipped, web, health
<1>6. DcResults \in Seq(Sounds("telegram"))
  BY <1>4, Lists DEF DcResults
<1>7. first \in Seq(Sounds("telegram")) /\ <<health>> \in Seq(Sounds("telegram"))
  BY <1>2, <1>5, Lists
<1>8. pages \in Seq(Sounds("telegram"))
  BY <1>3, Lists
<1> HIDE DEF first, pages
<1>9. Concat(first, DcResults) \in Seq(Sounds("telegram"))
  BY <1>6, <1>7, ConcatType
<1>10. Concat(Concat(first, DcResults), pages) \in Seq(Sounds("telegram"))
  BY <1>8, <1>9, ConcatType
<1> QED BY <1>1, <1>7, <1>10, ConcatType

LEMMA CloudflareAsked ==
  ASSUME AskedInv, Done("cloudflare")
  PROVE  \A q \in {"quic", "warpTcp", "warpUdp", "page"} : asked["cloudflare"][q] # <<>>
<1>1. {"quic", "warpTcp", "warpUdp", "page"} = MayAsk["cloudflare"]
  BY DEF MayAsk
<1> DEFINE s == <<"quic", "warpTcp", "warpUdp", "page">>
<1>2. DOMAIN s = 1..4 /\ 1 \in 1..4 /\ 2 \in 1..4 /\ 3 \in 1..4 /\ 4 \in 1..4
  OBVIOUS
<1>3. s[1] = "quic" /\ s[2] = "warpTcp" /\ s[3] = "warpUdp" /\ s[4] = "page"
  OBVIOUS
<1>4. Questions("cloudflare") = s
  BY DEF Questions
<1> HIDE DEF s
<1> QED BY <1>1, <1>2, <1>3, <1>4, DoneReplies, ModuleNames

LEMMA CloudflareSound ==
  ASSUME AskedInv, WorldTypeOK, Done("cloudflare")
  PROVE  ResultsOf("cloudflare") \in Seq(Sounds("cloudflare"))
<1> DEFINE r == Plain("cloudflare", "quic", QuicResult(Reply(asked["cloudflare"], "quic"), vantage))
           s == Plain("cloudflare", "warpTcp", WarpTcpOutcome[Reply(asked["cloudflare"], "warpTcp")])
           t == Plain("cloudflare", "warpUdp", WarpUdpOutcome[Reply(asked["cloudflare"], "warpUdp")])
           u == Plain("cloudflare", "page", PageResult(Reply(asked["cloudflare"], "page")))
<1>1. r \in Sounds("cloudflare") /\ u \in Sounds("cloudflare")
  BY CloudflareAsked, QuicFits, PageFits, PlainSound, TestNames, ModuleNames
<1>2. s \in Sounds("cloudflare") /\ t \in Sounds("cloudflare")
  BY CloudflareAsked, WarpTcpFits, WarpUdpFits, PlainSound, TestNames, ModuleNames
<1>3. ResultsOf("cloudflare") = <<r, s, t, u>>
  BY DEF ResultsOf, Plain
<1> HIDE DEF r, s, t, u
<1> QED BY <1>1, <1>2, <1>3, Lists

LEMMA ThrottlingSound ==
  ASSUME AskedInv, WorldTypeOK, Done("throttling")
  PROVE  ResultsOf("throttling") \in Seq(Sounds("throttling"))
<1> DEFINE reply(q) == Reply(asked["throttling"], q)
           found == IF required /\ ~ vantage THEN Inconclusive
                    ELSE Throttled(reply("correct"), reply("trigger"), reply("typo"))
           r == Plain("throttling", "trigger", found)
<1>1. Fits("throttling", "trigger", found)
  BY TriggerFits
<1>2. ResultsOf("throttling") = <<r>>
  BY DEF ResultsOf, Plain
<1> HIDE DEF found
<1>3. r \in Sounds("throttling")
  BY <1>1, PlainSound, TestNames, ModuleNames
<1> HIDE DEF r
<1> QED BY <1>2, <1>3, Lists

LEMMA MiddleboxSound ==
  ASSUME AskedInv, WorldTypeOK, Done("middlebox")
  PROVE  ResultsOf("middlebox") \in Seq(Sounds("middlebox"))
<1> DEFINE r == Plain("middlebox", "hostCase", HeaderCase(Reply(asked["middlebox"], "hostCase")))
           s == Plain("middlebox", "agentCase", HeaderCase(Reply(asked["middlebox"], "agentCase")))
           t == Plain("middlebox", "badLine", InvalidLine(Reply(asked["middlebox"], "badLine")))
<1>1. \A q \in {"hostCase", "agentCase", "badLine"} : asked["middlebox"][q] # <<>>
  <2>1. {"hostCase", "agentCase", "badLine"} = MayAsk["middlebox"]
    BY DEF MayAsk
  <2> DEFINE list == <<"hostCase", "agentCase", "badLine">>
  <2>2. DOMAIN list = 1..3 /\ 1 \in 1..3 /\ 2 \in 1..3 /\ 3 \in 1..3
    OBVIOUS
  <2>3. list[1] = "hostCase" /\ list[2] = "agentCase" /\ list[3] = "badLine"
    OBVIOUS
  <2>4. Questions("middlebox") = list
    BY DEF Questions
  <2> HIDE DEF list
  <2> QED BY <2>1, <2>2, <2>3, <2>4, DoneReplies, ModuleNames
<1>2. r \in Sounds("middlebox") /\ s \in Sounds("middlebox")
  BY <1>1, HeaderCaseFits, PlainSound, TestNames, ModuleNames
<1>3. t \in Sounds("middlebox")
  BY <1>1, BadLineFits, PlainSound, TestNames, ModuleNames
<1>4. ResultsOf("middlebox") = <<r, s, t>>
  BY DEF ResultsOf, Plain
<1> HIDE DEF r, s, t
<1> QED BY <1>2, <1>3, <1>4, Lists

\* Whatever was asked and answered, a module that is done reports what the
\* properties want.
LEMMA AllSound ==
  ASSUME AskedInv, WorldTypeOK, NEW m \in Modules, Done(m)
  PROVE  ResultsOf(m) \in Seq(Sounds(m))
BY DnsSound, TcpSound, TlsSound, HttpSound, TelegramSound, CloudflareSound, ThrottlingSound,
   MiddleboxSound, ModuleNames

-----------------------------------------------------------------------------
(* The names of modules *)

\* Two lists without repetition and without a common element.
LEMMA JoinDistinct ==
  ASSUME NEW T, NEW s \in Seq(T), NEW t \in Seq(T), IsInjective(s), IsInjective(t),
         ToSet(s) \cap ToSet(t) = {}
  PROVE  /\ s \o t \in Seq(T) /\ IsInjective(s \o t)
         /\ ToSet(s \o t) = ToSet(s) \cup ToSet(t)
<1> DEFINE u == s \o t
<1>1. /\ Len(s) \in Nat /\ Len(t) \in Nat
      /\ DOMAIN s = 1..Len(s) /\ DOMAIN t = 1..Len(t)
      /\ u \in Seq(T) /\ Len(u) = Len(s) + Len(t) /\ DOMAIN u = 1..(Len(s) + Len(t))
      /\ \A i \in 1..(Len(s) + Len(t)) : u[i] = IF i <= Len(s) THEN s[i] ELSE t[i - Len(s)]
  OBVIOUS
<1> HIDE DEF u
<1>2. \A i \in DOMAIN u : \/ i \in DOMAIN s /\ u[i] = s[i]
                          \/ i - Len(s) \in DOMAIN t /\ u[i] = t[i - Len(s)]
  BY <1>1
<1>3. /\ \A i \in DOMAIN s : i \in DOMAIN u /\ u[i] = s[i]
      /\ \A i \in DOMAIN t : i + Len(s) \in DOMAIN u /\ u[i + Len(s)] = t[i]
  BY <1>1
<1>4. \A i \in DOMAIN s, j \in DOMAIN t : s[i] # t[j]
  BY DEF ToSet
<1>5. IsInjective(u)
  <2> SUFFICES ASSUME NEW i \in DOMAIN u, NEW j \in DOMAIN u, u[i] = u[j] PROVE i = j
    BY DEF IsInjective
  <2>1. CASE i \in DOMAIN s /\ u[i] = s[i] /\ j \in DOMAIN s /\ u[j] = s[j]
    BY <2>1 DEF IsInjective
  <2>2. CASE /\ i - Len(s) \in DOMAIN t /\ u[i] = t[i - Len(s)]
             /\ j - Len(s) \in DOMAIN t /\ u[j] = t[j - Len(s)]
    <3>1. i - Len(s) = j - Len(s)
      BY <2>2 DEF IsInjective
    <3>2. i \in Int /\ j \in Int
      BY <1>1
    <3> QED BY <1>1, <3>1, <3>2
  <2> QED BY <1>2, <1>4, <2>1, <2>2
<1>6. ToSet(u) = ToSet(s) \cup ToSet(t)
  BY <1>2, <1>3 DEF ToSet
<1> QED BY <1>1, <1>5, <1>6 DEF u

\* One name more, or none.
WithName(s, m, S) == s \o (IF m \in S THEN <<m>> ELSE <<>>)
LEMMA OneName ==
  ASSUME NEW T, NEW s \in Seq(T), IsInjective(s), NEW m \in T, m \notin ToSet(s), NEW S
  PROVE  /\ WithName(s, m, S) \in Seq(T) /\ IsInjective(WithName(s, m, S))
         /\ ToSet(WithName(s, m, S)) = ToSet(s) \cup ({m} \cap S)
<1> DEFINE a == <<m>>
<1>1. a \in Seq(T) /\ IsInjective(a) /\ ToSet(a) = {m}
  <2>1. a \in Seq(T) /\ DOMAIN a = 1..1 /\ \A i \in 1..1 : a[i] = m
    OBVIOUS
  <2>2. 1 \in 1..1 /\ \A i \in 1..1 : i = 1
    OBVIOUS
  <2> HIDE DEF a
  <2> QED BY <2>1, <2>2 DEF IsInjective, ToSet
<1> HIDE DEF a
<1>2. CASE m \in S
  <2>1. ToSet(s) \cap ToSet(a) = {}
    BY <1>1
  <2>2. s \o a \in Seq(T) /\ IsInjective(s \o a) /\ ToSet(s \o a) = ToSet(s) \cup {m}
    BY <1>1, <2>1, JoinDistinct
  <2> QED BY <1>2, <2>2 DEF a, WithName
<1>3. CASE m \notin S
  <2>1. s \o <<>> = s
    OBVIOUS
  <2> QED BY <1>3, <2>1 DEF WithName
<1> QED BY <1>2, <1>3

\* The names of modules are those of the enabled ones among them, each once.
LEMMA NamesAre ==
  ASSUME NEW S
  PROVE  /\ Names(S) \in Seq(Modules) /\ IsInjective(Names(S))
         /\ ToSet(Names(S)) = Modules \cap active \cap S
<1> DEFINE A == active \cap S
           name(m) == IF m \in A THEN <<m>> ELSE <<>>
           s0 == <<>>
           s1 == WithName(s0, "dns", A)
           s2 == WithName(s1, "tcp", A)
           s3 == WithName(s2, "tls", A)
           s4 == WithName(s3, "http", A)
           s5 == WithName(s4, "telegram", A)
           s6 == WithName(s5, "cloudflare", A)
           s7 == WithName(s6, "throttling", A)
           s8 == WithName(s7, "middlebox", A)
<1>1. Names(S) = Joined(name("dns"), name("tcp"), name("tls"), name("http"), name("telegram"),
                        name("cloudflare"), name("throttling"), name("middlebox"))
  <2> DEFINE part == [m \in Modules |-> IF m \in active \cap S THEN <<m>> ELSE <<>>]
  <2>1. Names(S) = InOrder(part)
    BY DEF Names
  <2>2. \A m \in Modules : part[m] = name(m)
    OBVIOUS
  <2> HIDE DEF part, name
  <2> QED BY <2>1, <2>2, InOrderIs, ModuleNames
<1>2. s1 = name("dns")
  BY DEF WithName
<1>3. Names(S) = s8
  <2> HIDE DEF s1
  <2> QED BY <1>1, <1>2 DEF Joined, WithName
<1>4. s0 \in Seq(Modules) /\ IsInjective(s0) /\ ToSet(s0) = {}
  BY DEF IsInjective, ToSet
<1> HIDE DEF A, s0, s1, s2, s3, s4, s5, s6, s7, s8
<1>5. /\ s1 \in Seq(Modules) /\ IsInjective(s1)
      /\ ToSet(s1) = {"dns"} \cap A
  <2>1. "dns" \in Modules /\ "dns" \notin ToSet(s0)
    BY <1>4, ModuleNames
  <2>2. /\ s1 \in Seq(Modules) /\ IsInjective(s1)
        /\ ToSet(s1) = ToSet(s0) \cup ({"dns"} \cap A)
    BY <1>4, <2>1, OneName DEF s1
  <2> QED BY <1>4, <2>2, ModuleNames
<1>6. /\ s2 \in Seq(Modules) /\ IsInjective(s2)
      /\ ToSet(s2) = {"dns", "tcp"} \cap A
  <2>1. "tcp" \in Modules /\ "tcp" \notin ToSet(s1)
    BY <1>5, ModuleNames
  <2>2. /\ s2 \in Seq(Modules) /\ IsInjective(s2)
        /\ ToSet(s2) = ToSet(s1) \cup ({"tcp"} \cap A)
    BY <1>5, <2>1, OneName DEF s2
  <2> QED BY <1>5, <2>2, ModuleNames
<1>7. /\ s3 \in Seq(Modules) /\ IsInjective(s3)
      /\ ToSet(s3) = {"dns", "tcp", "tls"} \cap A
  <2>1. "tls" \in Modules /\ "tls" \notin ToSet(s2)
    BY <1>6, ModuleNames
  <2>2. /\ s3 \in Seq(Modules) /\ IsInjective(s3)
        /\ ToSet(s3) = ToSet(s2) \cup ({"tls"} \cap A)
    BY <1>6, <2>1, OneName DEF s3
  <2> QED BY <1>6, <2>2, ModuleNames
<1>8. /\ s4 \in Seq(Modules) /\ IsInjective(s4)
      /\ ToSet(s4) = {"dns", "tcp", "tls", "http"} \cap A
  <2>1. "http" \in Modules /\ "http" \notin ToSet(s3)
    BY <1>7, ModuleNames
  <2>2. /\ s4 \in Seq(Modules) /\ IsInjective(s4)
        /\ ToSet(s4) = ToSet(s3) \cup ({"http"} \cap A)
    BY <1>7, <2>1, OneName DEF s4
  <2> QED BY <1>7, <2>2, ModuleNames
<1>9. /\ s5 \in Seq(Modules) /\ IsInjective(s5)
      /\ ToSet(s5) = {"dns", "tcp", "tls", "http", "telegram"} \cap A
  <2>1. "telegram" \in Modules /\ "telegram" \notin ToSet(s4)
    BY <1>8, ModuleNames
  <2>2. /\ s5 \in Seq(Modules) /\ IsInjective(s5)
        /\ ToSet(s5) = ToSet(s4) \cup ({"telegram"} \cap A)
    BY <1>8, <2>1, OneName DEF s5
  <2> QED BY <1>8, <2>2, ModuleNames
<1>10. /\ s6 \in Seq(Modules) /\ IsInjective(s6)
       /\ ToSet(s6) = {"dns", "tcp", "tls", "http", "telegram", "cloudflare"} \cap A
  <2>1. "cloudflare" \in Modules /\ "cloudflare" \notin ToSet(s5)
    BY <1>9, ModuleNames
  <2>2. /\ s6 \in Seq(Modules) /\ IsInjective(s6)
        /\ ToSet(s6) = ToSet(s5) \cup ({"cloudflare"} \cap A)
    BY <1>9, <2>1, OneName DEF s6
  <2> QED BY <1>9, <2>2, ModuleNames
<1>11. /\ s7 \in Seq(Modules) /\ IsInjective(s7)
       /\ ToSet(s7) = {"dns", "tcp", "tls", "http", "telegram", "cloudflare", "throttling"} \cap A
  <2>1. "throttling" \in Modules /\ "throttling" \notin ToSet(s6)
    BY <1>10, ModuleNames
  <2>2. /\ s7 \in Seq(Modules) /\ IsInjective(s7)
        /\ ToSet(s7) = ToSet(s6) \cup ({"throttling"} \cap A)
    BY <1>10, <2>1, OneName DEF s7
  <2> QED BY <1>10, <2>2, ModuleNames
<1>12. /\ s8 \in Seq(Modules) /\ IsInjective(s8)
       /\ ToSet(s8) = Modules \cap A
  <2>1. "middlebox" \in Modules /\ "middlebox" \notin ToSet(s7)
    BY <1>11, ModuleNames
  <2>2. /\ s8 \in Seq(Modules) /\ IsInjective(s8)
        /\ ToSet(s8) = ToSet(s7) \cup ({"middlebox"} \cap A)
    BY <1>11, <2>1, OneName DEF s8
  <2> QED BY <1>11, <2>2, ModuleNames
<1> QED BY <1>3, <1>12 DEF A

-----------------------------------------------------------------------------
(* What a step leaves alone *)

\* What a module has asked and what it found do not change while neither the
\* network nor its own attempts do.
LEMMA Frame ==
  ASSUME NEW m \in Modules, UNCHANGED world, asked'[m] = asked[m]
  PROVE  (Done(m)' <=> Done(m)) /\ ResultsOf(m)' = ResultsOf(m)
<1>1. /\ censor' = censor /\ vantage' = vantage /\ required' = required
      /\ ipv6' = ipv6 /\ files' = files /\ active' = active
  BY DEF world
<1>2. Questions(m)' = Questions(m)
  BY <1>1 DEF Questions, Reply, Replies
<1>3. Open(m)' = Open(m)
  BY <1>1, <1>2 DEF Open, Replies
<1>4. MissingTargets(m)' <=> MissingTargets(m)
  BY <1>1 DEF MissingTargets
<1>5. ResultsOf(m)' = ResultsOf(m)
  BY <1>1 DEF ResultsOf, Reply, Replies
<1> QED BY <1>3, <1>4, <1>5 DEF Done

\* What is merged.
LEMMA ReportedFrame ==
  ASSUME UNCHANGED <<world, failures>>,
         \A m \in Modules : pc'[m] = "merged" <=> pc[m] = "merged",
         \A m \in Reported : asked'[m] = asked[m]
  PROVE  /\ Reported' = Reported
         /\ ResultsOfAll(Reported)' = ResultsOfAll(Reported)
<1>1. Reported' = Reported
  BY DEF Reported
<1>2. \A m \in Reported : ResultsOf(m)' = ResultsOf(m)
  BY Frame DEF Reported
<1>3. active' = active
  BY DEF world
<1> DEFINE p == [m \in Modules |-> IF m \in active \cap Reported THEN ResultsOf(m) ELSE <<>>]
<1>4. p' = p
  BY <1>1, <1>2, <1>3
<1>5. ResultsOfAll(Reported) = InOrder(p)
  BY DEF ResultsOfAll
<1>6. ResultsOfAll(Reported)' = InOrder(p')
  BY DEF ResultsOfAll
<1> QED BY <1>1, <1>4, <1>5, <1>6

\* The attempts made so far stay what they are.
LEMMA AskedFrame ==
  ASSUME AskedInv, UNCHANGED <<censor, asked>>, losses \in Nat, losses' \in Nat, losses' >= losses
  PROVE  AskedInv'
<1>1. ASSUME NEW m \in Modules, NEW q \in MayAsk[m]
      PROVE  AttemptsInv(q, asked[m][q])'
  <2>1. AttemptsInv(q, asked[m][q])
    BY DEF AskedInv
  <2>2. Answers(q)' = Answers(q)
    BY DEF Answers, TowardsTarget
  <2> QED BY <2>1, <2>2 DEF AttemptsInv
<1>2. asked' = [m \in Modules |-> [q \in MayAsk[m] |-> asked'[m][q]]]
  BY DEF AskedInv
<1> QED BY <1>1, <1>2 DEF AskedInv

-----------------------------------------------------------------------------
(* The start, and an attempt *)

LEMMA NothingInOrder ==
  ASSUME NEW p, \A m \in Modules : p[m] = <<>>
  PROVE  InOrder(p) = <<>>
<1>1. <<>> \o <<>> = <<>>
  OBVIOUS
<1> QED BY <1>1, InOrderIs, ModuleNames DEF Joined

LEMMA NothingReported == Reported = {} => ResultsOfAll(Reported) = <<>>
<1> SUFFICES ASSUME Reported = {} PROVE ResultsOfAll(Reported) = <<>>
  OBVIOUS
<1> DEFINE p == [m \in Modules |-> IF m \in active \cap Reported THEN ResultsOf(m) ELSE <<>>]
<1>1. \A m \in Modules : p[m] = <<>>
  OBVIOUS
<1>2. ResultsOfAll(Reported) = InOrder(p)
  BY DEF ResultsOfAll
<1> HIDE DEF p
<1> QED BY <1>1, <1>2, NothingInOrder

LEMMA SoloInit == Init => SoloInv
<1> SUFFICES ASSUME Init PROVE SoloInv
  OBVIOUS
<1>1. QuietInv
  BY QuietInit
<1>2. WorldTypeOK
  BY SoloRunAssumption DEF Init, WorldTypeOK
<1>3. AskedInv
  <2>1. asked = [m \in Modules |-> [q \in MayAsk[m] |-> asked[m][q]]]
    BY DEF Init
  <2>2. ASSUME NEW m \in Modules, NEW q \in MayAsk[m] PROVE AttemptsInv(q, asked[m][q])
    <3>1. asked[m][q] = <<>>
      BY DEF Init
    <3>2. \A T : <<>> \in Seq(T)
      OBVIOUS
    <3>3. Len(<<>>) = 0 /\ Repeats \in Nat /\ (\A i \in 1..0 : FALSE) /\ (\A i \in 1..(0 - 1) : FALSE)
      BY MeasurementsAssumption
    <3> QED BY <3>1, <3>2, <3>3 DEF AttemptsInv
  <2> QED BY <2>1, <2>2 DEF AskedInv
<1>4. Reported = {} /\ DoneInv /\ MergedInv
  BY DEF Init, Reported, DoneInv, MergedInv
<1>5. FailuresInv
  BY DEF Init, FailuresInv, IsInjective, ToSet
<1>6. ResultsInv
  BY <1>4, NothingReported DEF Init, ResultsInv
<1> QED BY <1>1, <1>2, <1>3, <1>4, <1>5, <1>6 DEF SoloInv

\* What a module asks is among what it may ask.
LEMMA QuestionsMayBe ==
  ASSUME NEW m \in Modules, NEW i \in DOMAIN Questions(m)
  PROVE  Questions(m)[i] \in MayAsk[m]
<1> DEFINE Q == MayAsk[m]
<1>1. CASE m = "dns"
  <2>1. Q = {"dohAccess", "system", "public", "doh", "cert"}
    BY <1>1 DEF MayAsk
  <2>2. \/ Questions(m) = <<"dohAccess", "system", "public", "doh", "cert">>
        \/ Questions(m) = <<"dohAccess", "system", "public", "doh">>
    BY <1>1 DEF Questions
  <2> QED BY <2>1, <2>2
<1>2. CASE m = "tcp"
  BY <1>2 DEF MayAsk, Questions
<1>3. CASE m = "tls"
  BY <1>3 DEF MayAsk, Questions
<1>4. CASE m = "http"
  BY <1>4 DEF MayAsk, Questions
<1>5. CASE m = "telegram"
  <2>1. Q = {"dcV4", "dcV6", "web", "aux", "cdn"}
    BY <1>5 DEF MayAsk
  <2>2. \/ Questions(m) = <<"dcV4", "dcV6", "web", "aux", "cdn">>
        \/ Questions(m) = <<"dcV4", "web", "aux", "cdn">>
    BY <1>5 DEF Questions
  <2> QED BY <2>1, <2>2
<1>6. CASE m = "cloudflare"
  BY <1>6 DEF MayAsk, Questions
<1>7. CASE m = "throttling"
  <2>1. Q = {"correct", "trigger", "typo"}
    BY <1>7 DEF MayAsk
  <2>2. Questions(m) = <<>> \/ Questions(m) = <<"correct", "trigger", "typo">>
    BY <1>7 DEF Questions
  <2> QED BY <2>1, <2>2
<1>8. CASE m = "middlebox"
  BY <1>8 DEF MayAsk, Questions
<1> QED BY <1>1, <1>2, <1>3, <1>4, <1>5, <1>6, <1>7, <1>8, ModuleNames

\* A question that is not answered may be put once more.
LEMMA OnceMore ==
  ASSUME AskedInv, NEW m \in Modules, NEW q \in MayAsk[m], ~ Answered(q, Replies(asked[m], q))
  PROVE  /\ Len(asked[m][q]) + 1 <= Repeats
         /\ \A i \in 1..Len(asked[m][q]) : AskedAgain(q, asked[m][q][i].reply)
<1> DEFINE s == asked[m][q]
           r == Replies(asked[m], q)
<1>1. /\ Len(s) \in Nat /\ Len(s) <= Repeats /\ Len(r) = Len(s)
      /\ Repeats \in Nat /\ Repeats > 0 /\ (r = <<>> <=> s = <<>>)
      /\ \A i \in 1..(Len(s) - 1) : AskedAgain(q, s[i].reply)
      /\ s # <<>> => Len(s) > 0 /\ s[Len(s)].reply = Last(r)
  <2>1. AttemptsInv(q, s)
    BY AttemptsOf
  <2>2. Len(s) <= Repeats /\ \A i \in 1..(Len(s) - 1) : AskedAgain(q, s[i].reply)
    BY <2>1 DEF AttemptsInv
  <2>3. /\ Len(s) \in Nat /\ Len(r) = Len(s) /\ (r = <<>> <=> s = <<>>)
        /\ s # <<>> => Len(s) > 0 /\ s[Len(s)].reply = Last(r)
    BY AttemptsOf
  <2> QED BY <2>2, <2>3, MeasurementsAssumption
<1>2. s = <<>> => Len(s) = 0
  OBVIOUS
<1>3. s # <<>> => Len(s) # Repeats /\ AskedAgain(q, Last(r))
  BY <1>1 DEF Answered, AskedAgain
<1> HIDE DEF s, r
<1>4. CASE s = <<>>
  BY <1>1, <1>2, <1>4 DEF s
<1>5. CASE s # <<>>
  <2>1. \A i \in 1..Len(s) : i = Len(s) \/ i \in 1..(Len(s) - 1)
    BY <1>1
  <2> QED BY <1>1, <1>3, <1>5, <2>1 DEF s
<1> QED BY <1>4, <1>5

\* One attempt more at a question.
LEMMA AttemptsGrow ==
  ASSUME NEW q, NEW s, NEW a, AttemptsInv(q, s), UNCHANGED censor,
         losses \in Nat, losses' \in Nat, losses' >= losses,
         Len(s) + 1 <= Repeats, \A i \in 1..Len(s) : AskedAgain(q, s[i].reply),
         \/ a = [reply |-> a.reply, lost |-> FALSE] /\ a.reply \in Answers(q)
         \/ a = [reply |-> a.reply, lost |-> TRUE] /\ a.reply \in Silence(q) /\ losses' # 0,
         NEW t, t = Append(s, a), NEW A, A = Answers(q)
  PROVE  /\ Answers(q)' = A
         /\ t \in Seq([reply : A \cup Silence(q), lost : BOOLEAN]) /\ Len(t) <= Repeats
         /\ \A i \in 1..Len(t) : IF t[i].lost THEN losses' # 0 /\ t[i].reply \in Silence(q)
                                              ELSE t[i].reply \in A
         /\ \A i \in 1..(Len(t) - 1) : AskedAgain(q, t[i].reply)
<1> DEFINE R == [reply : A \cup Silence(q), lost : BOOLEAN]
<1>1. Answers(q)' = A
  BY DEF Answers, TowardsTarget
<1>2. a \in R
  <2> DEFINE c == a.reply
  <2>1. c \in A \cup Silence(q) /\ (a = [reply |-> c, lost |-> FALSE] \/ a = [reply |-> c, lost |-> TRUE])
    OBVIOUS
  <2>2. /\ \A x \in A \cup Silence(q) : [reply |-> x, lost |-> FALSE] \in R
        /\ \A x \in A \cup Silence(q) : [reply |-> x, lost |-> TRUE] \in R
    OBVIOUS
  <2> HIDE DEF c, R
  <2> QED BY <2>1, <2>2
<1>3. s \in Seq(R)
  BY DEF AttemptsInv
<1>4. /\ \A i \in 1..Len(s) : IF s[i].lost THEN losses # 0 /\ s[i].reply \in Silence(q)
                                           ELSE s[i].reply \in A
  BY DEF AttemptsInv
<1>5. IF a.lost THEN losses' # 0 /\ a.reply \in Silence(q) ELSE a.reply \in A
  OBVIOUS
<1> HIDE DEF R
<1>6. /\ t \in Seq(R) /\ Len(t) = Len(s) + 1 /\ Len(s) \in Nat
      /\ t[Len(s) + 1] = a /\ \A i \in 1..Len(s) : t[i] = s[i]
  BY <1>2, <1>3
<1>7. \A i \in 1..Len(t) : i = Len(s) + 1 \/ i \in 1..Len(s)
  BY <1>6
<1>8. \A i \in 1..(Len(t) - 1) : i \in 1..Len(s)
  BY <1>6
<1>9. losses # 0 => losses' # 0
  OBVIOUS
<1>10. \A i \in 1..Len(t) : IF t[i].lost THEN losses' # 0 /\ t[i].reply \in Silence(q)
                                         ELSE t[i].reply \in A
  BY <1>4, <1>5, <1>6, <1>7, <1>9
<1>11. \A i \in 1..(Len(t) - 1) : AskedAgain(q, t[i].reply)
  BY <1>6, <1>8
<1>12. Len(t) <= Repeats
  BY <1>6
<1> QED BY <1>1, <1>6, <1>10, <1>11, <1>12 DEF R

-----------------------------------------------------------------------------
(* The steps *)

\* An attempt adds to what one module has asked.
LEMMA AttemptAsks ==
  ASSUME SoloInv, NEW m \in Modules, Attempt(m)
  PROVE  /\ AskedInv' /\ losses' \in 0..MaxLosses
         /\ \A n \in Modules \ {m} : asked'[n] = asked[n]
<1>0. /\ losses \in Nat /\ MaxLosses \in Nat /\ losses \in 0..MaxLosses /\ AskedInv
      /\ UNCHANGED censor
  BY SoloRunAssumption DEF SoloInv, WorldTypeOK, Attempt, world
<1>1. PICK i \in Open(m) :
        \E a : /\ asked' = [asked EXCEPT ![m][Questions(m)[i]] = Append(@, a)]
               /\ \/ /\ a = [reply |-> a.reply, lost |-> FALSE] /\ a.reply \in Answers(Questions(m)[i])
                     /\ losses' = losses
                  \/ /\ a = [reply |-> a.reply, lost |-> TRUE] /\ a.reply \in Silence(Questions(m)[i])
                     /\ losses < MaxLosses /\ losses' = losses + 1
  <2> DEFINE made(q, reply, lost) ==
               asked' = [asked EXCEPT ![m][q] = Append(@, [reply |-> reply, lost |-> lost])]
  <2>1. PICK i \in Open(m) :
          \/ (\E reply \in Answers(Questions(m)[i]) : made(Questions(m)[i], reply, FALSE)) /\ losses' = losses
          \/ /\ \E reply \in Silence(Questions(m)[i]) : made(Questions(m)[i], reply, TRUE)
             /\ losses < MaxLosses /\ losses' = losses + 1
    BY DEF Attempt
  <2>2. CASE /\ \E reply \in Answers(Questions(m)[i]) : made(Questions(m)[i], reply, FALSE)
             /\ losses' = losses
    <3>1. PICK reply \in Answers(Questions(m)[i]) : made(Questions(m)[i], reply, FALSE)
      BY <2>2
    <3> DEFINE a == [reply |-> reply, lost |-> FALSE]
    <3>2. a.reply = reply
      OBVIOUS
    <3>3. a = [reply |-> a.reply, lost |-> FALSE]
      OBVIOUS
    <3>4. asked' = [asked EXCEPT ![m][Questions(m)[i]] = Append(@, a)]
      BY <3>1
    <3> HIDE DEF a
    <3> QED BY <2>2, <3>2, <3>3, <3>4
  <2>3. CASE /\ \E reply \in Silence(Questions(m)[i]) : made(Questions(m)[i], reply, TRUE)
             /\ losses < MaxLosses /\ losses' = losses + 1
    <3>1. PICK reply \in Silence(Questions(m)[i]) : made(Questions(m)[i], reply, TRUE)
      BY <2>3
    <3> DEFINE a == [reply |-> reply, lost |-> TRUE]
    <3>2. a.reply = reply
      OBVIOUS
    <3>3. a = [reply |-> a.reply, lost |-> TRUE]
      OBVIOUS
    <3>4. asked' = [asked EXCEPT ![m][Questions(m)[i]] = Append(@, a)]
      BY <3>1
    <3> HIDE DEF a
    <3> QED BY <2>3, <3>2, <3>3, <3>4
  <2> QED BY <2>1, <2>2, <2>3
<1>2. PICK q \in MayAsk[m] : q = Questions(m)[i] /\ ~ Answered(q, Replies(asked[m], q))
  BY <1>1, QuestionsMayBe DEF Open
<1>3. PICK a : /\ asked' = [asked EXCEPT ![m][q] = Append(@, a)]
               /\ \/ /\ a = [reply |-> a.reply, lost |-> FALSE] /\ a.reply \in Answers(q)
                     /\ losses' = losses
                  \/ /\ a = [reply |-> a.reply, lost |-> TRUE] /\ a.reply \in Silence(q)
                     /\ losses < MaxLosses /\ losses' = losses + 1
  BY <1>1, <1>2
<1>3a. PICK s, t, A : s = asked[m][q] /\ t = Append(s, a) /\ A = Answers(q)
  OBVIOUS
<1>4. losses' \in 0..MaxLosses /\ losses' \in Nat /\ losses' >= losses
  BY <1>0, <1>3
<1>5. /\ asked = [n \in Modules |-> [p \in MayAsk[n] |-> asked[n][p]]]
      /\ \A n \in Modules : \A p \in MayAsk[n] : AttemptsInv(p, asked[n][p])
  BY <1>0 DEF AskedInv
<1>6. asked' = [n \in Modules |-> [p \in MayAsk[n] |-> IF n = m /\ p = q THEN t ELSE asked[n][p]]]
  BY <1>2, <1>3, <1>5, <1>3a
<1>7. /\ asked'[m][q] = t
      /\ \A n \in Modules : \A p \in MayAsk[n] : n # m \/ p # q => asked'[n][p] = asked[n][p]
      /\ asked' = [n \in Modules |-> [p \in MayAsk[n] |-> asked'[n][p]]]
  BY <1>2, <1>6
<1>8. \A n \in Modules \ {m} : asked'[n] = asked[n]
  BY <1>5, <1>6
<1>9. AttemptsInv(q, asked[m][q])'
  <2>1. Len(s) + 1 <= Repeats /\ \A j \in 1..Len(s) : AskedAgain(q, s[j].reply)
    BY <1>0, <1>2, <1>3a, OnceMore
  <2>2. \/ a = [reply |-> a.reply, lost |-> FALSE] /\ a.reply \in Answers(q)
        \/ a = [reply |-> a.reply, lost |-> TRUE] /\ a.reply \in Silence(q) /\ losses' # 0
    BY <1>0, <1>3
  <2>3. AttemptsInv(q, s)
    BY <1>2, <1>5, <1>3a
  <2>5. /\ Answers(q)' = A
        /\ t \in Seq([reply : A \cup Silence(q), lost : BOOLEAN]) /\ Len(t) <= Repeats
        /\ \A j \in 1..Len(t) : IF t[j].lost THEN losses' # 0 /\ t[j].reply \in Silence(q)
                                             ELSE t[j].reply \in A
        /\ \A j \in 1..(Len(t) - 1) : AskedAgain(q, t[j].reply)
    BY <1>0, <1>4, <2>1, <2>2, <2>3, <1>3a, AttemptsGrow
  <2> QED BY <1>7, <2>5 DEF AttemptsInv
<1>10. ASSUME NEW n \in Modules, NEW p \in MayAsk[n], n # m \/ p # q
       PROVE  AttemptsInv(p, asked[n][p])'
  <2>1. AttemptsInv(p, asked[n][p]) /\ asked'[n][p] = asked[n][p]
    BY <1>5, <1>7, <1>10
  <2>2. Answers(p)' = Answers(p)
    BY <1>0 DEF Answers, TowardsTarget
  <2>3. losses # 0 => losses' # 0
    BY <1>0, <1>4
  <2> QED BY <2>1, <2>2, <2>3 DEF AttemptsInv
<1>11. AskedInv'
  <2> SUFFICES ASSUME NEW n \in Modules, NEW p \in MayAsk[n]
               PROVE  AttemptsInv(p, asked[n][p])'
    BY <1>7 DEF AskedInv
  <2> QED BY <1>9, <1>10
<1> QED BY <1>4, <1>8, <1>11

-----------------------------------------------------------------------------
(* Merging *)

\* Names and results of the modules merged by a step: the raised ones get
\* among the failures, once each, the others among the results.
LEMMA AbsorbStep ==
  ASSUME SoloInv, NEW ms, ms \subseteq active, \A m \in ms : pc[m] # "merged", Absorb(ms),
         UNCHANGED <<world, asked, losses, raises>>,
         Reported = {} \/ ms = {"throttling"} \/ ms = {"middlebox"}
  PROVE  WorldTypeOK' /\ AskedInv' /\ DoneInv' /\ FailuresInv' /\ ResultsInv'
<1> DEFINE R == {m \in ms : pc[m] = "returned"}
           F == {m \in ms : pc[m] = "raised"}
<1>1. /\ QuietInv /\ WorldTypeOK /\ AskedInv /\ DoneInv /\ FailuresInv /\ ResultsInv
      /\ active \subseteq Modules /\ pc \in [Modules -> Stages]
  BY DEF SoloInv, QuietInv, PcTypeOK
<1>2. /\ \A m \in ms : m \in R \/ m \in F
      /\ R \cap F = {}
      /\ results' = results \o ResultsOfAll(R) /\ failures' = failures \o Names(F)
      /\ \A m \in Modules : pc'[m] = IF m \in ms THEN "merged" ELSE pc[m]
      /\ R \subseteq ms /\ F \subseteq ms
  BY DEF Absorb
<1>3. /\ censor' = censor /\ vantage' = vantage /\ required' = required /\ ipv6' = ipv6
      /\ files' = files /\ active' = active /\ asked' = asked
  BY DEF world
<1>4. \A m \in R : pc[m] = "returned"
  OBVIOUS
<1> HIDE DEF R, F
<1>5. WorldTypeOK'
  BY <1>1, <1>3 DEF WorldTypeOK
<1>6. AskedInv'
  <2>1. losses \in Nat /\ losses' = losses
    BY <1>1, SoloRunAssumption DEF WorldTypeOK
  <2> QED BY <1>1, <1>3, <2>1, AskedFrame
<1>7. /\ Names(F) \in Seq(Modules) /\ IsInjective(Names(F)) /\ ToSet(Names(F)) = F
  <2>1. Modules \cap active \cap F = F
    BY <1>1, <1>2
  <2>2. /\ Names(F) \in Seq(Modules) /\ IsInjective(Names(F))
        /\ ToSet(Names(F)) = Modules \cap active \cap F
    BY NamesAre
  <2> QED BY <2>1, <2>2
<1>8. /\ failures' \in Seq(Modules) /\ IsInjective(failures')
      /\ ToSet(failures') = ToSet(failures) \cup F
  <2>1. ToSet(failures) \cap F = {}
    BY <1>1, <1>2 DEF FailuresInv
  <2>2. failures \in Seq(Modules) /\ IsInjective(failures)
    BY <1>1 DEF FailuresInv
  <2> DEFINE s == failures
             t == Names(F)
  <2>3. s \o t \in Seq(Modules) /\ IsInjective(s \o t) /\ ToSet(s \o t) = ToSet(s) \cup ToSet(t)
    BY <1>7, <2>1, <2>2, JoinDistinct
  <2> QED BY <1>2, <1>7, <2>3
<1>9. FailuresInv'
  <2>1. \A m \in ToSet(failures) \cup F : m \in active /\ m \in Modules /\ pc'[m] = "merged"
    BY <1>1, <1>2 DEF FailuresInv
  <2> QED BY <1>3, <1>8, <2>1 DEF FailuresInv
<1>10. Reported' = Reported \cup R
  <2>1. Reported' = {m \in Modules : pc'[m] = "merged" /\ m \notin ToSet(failures')}
    BY DEF Reported
  <2>2. \A m \in ToSet(failures) : pc[m] = "merged"
    BY <1>1 DEF FailuresInv
  <2>3. \A m \in Modules : pc'[m] = "merged" /\ m \notin ToSet(failures) \cup F
                             <=> m \in Reported \/ m \in R
    BY <1>1, <1>2, <2>2 DEF Reported
  <2>4. Reported \cup R \subseteq Modules
    BY <1>1, <1>2 DEF Reported
  <2> QED BY <1>8, <2>1, <2>3, <2>4
<1>11. \A m \in Modules : (Done(m)' <=> Done(m)) /\ ResultsOf(m)' = ResultsOf(m)
  BY <1>3, Frame
<1>12. \A m \in Reported \cup R : m \in Modules /\ Done(m)
  BY <1>1, <1>2, <1>4 DEF DoneInv, Reported
<1>13. DoneInv'
  <2> SUFFICES ASSUME NEW m \in Modules, pc'[m] = "returned" \/ m \in Reported'
               PROVE  Done(m)'
    BY DEF DoneInv
  <2>1. pc'[m] = "returned" => pc[m] = "returned"
    BY <1>2
  <2>2. pc[m] = "returned" => Done(m)
    BY <1>1 DEF DoneInv
  <2> QED BY <1>10, <1>11, <1>12, <2>1, <2>2
<1>14. ResultsInv'
  <2> DEFINE p == [m \in Modules |-> IF m \in active \cap Reported THEN ResultsOf(m) ELSE <<>>]
             q == [m \in Modules |-> IF m \in active \cap R THEN ResultsOf(m) ELSE <<>>]
             r == [m \in Modules |-> IF m \in active \cap (Reported \cup R) THEN ResultsOf(m) ELSE <<>>]
  <2>1. results = InOrder(p) /\ ResultsOfAll(R) = InOrder(q)
    BY <1>1 DEF ResultsInv, ResultsOfAll
  <2>2. ResultsOfAll(Reported)' = InOrder(r)
    <3>1. r = [m \in Modules |-> IF m \in active' \cap Reported' THEN ResultsOf(m)' ELSE <<>>]
      BY <1>3, <1>10, <1>11
    <3> QED BY <3>1 DEF ResultsOfAll
  <2>3. \A m \in Reported \cup R : ResultsOf(m) \in Seq(ResultType)
    <3>1. ASSUME NEW m \in Reported \cup R PROVE ResultsOf(m) \in Seq(ResultType)
      <4>1. ResultsOf(m) \in Seq(Sounds(m))
        BY <1>1, <1>12, AllSound
      <4>2. Sounds(m) \subseteq ResultType
        BY DEF Sounds
      <4> HIDE DEF ResultType
      <4> QED BY <4>1, <4>2
    <3> QED BY <3>1
  <2>4. /\ \A m \in Modules : p[m] = IF m \in active \cap Reported THEN ResultsOf(m) ELSE <<>>
        /\ \A m \in Modules : q[m] = IF m \in active \cap R THEN ResultsOf(m) ELSE <<>>
        /\ \A m \in Modules : r[m] = IF m \in active \cap (Reported \cup R) THEN ResultsOf(m) ELSE <<>>
        /\ \A S : <<>> \in Seq(S)
    OBVIOUS
  <2> HIDE DEF p, q, r
  <2>5. \A m \in Modules : /\ p[m] \in Seq(ResultType) /\ q[m] \in Seq(ResultType)
                           /\ r[m] \in Seq(ResultType)
    BY <2>3, <2>4
  <2>6. \A m \in ms : m \notin Reported
    BY DEF Reported
  <2>7. Continues(p, q, r)
    <3>1. CASE Reported = {}
      BY <2>4, <3>1 DEF Continues
    <3>2. CASE ms = {"throttling"}
      <4>1. "middlebox" \notin Reported /\ "throttling" \notin Reported
        BY <1>1, <2>6, <3>2 DEF QuietInv, InTurn, Reported
      <4>2. R \subseteq {"throttling"} /\ "middlebox" \notin R
        BY <1>2, <3>2
      <4>3. \A m \in Modules \ Serial : m \notin R
        BY <4>2 DEF Serial
      <4> QED BY <2>4, <4>1, <4>2, <4>3, ModuleNames DEF Continues
    <3>3. CASE ms = {"middlebox"}
      <4>1. "middlebox" \notin Reported /\ R \subseteq {"middlebox"}
        BY <1>2, <2>6, <3>3
      <4> QED BY <2>4, <4>1, ModuleNames DEF Continues
    <3> QED BY <3>1, <3>2, <3>3
  <2>8. InOrder(p) \o InOrder(q) = InOrder(r)
    BY <2>5, <2>7, InOrderJoins
  <2> QED BY <1>2, <2>1, <2>2, <2>8 DEF ResultsInv
<1> QED BY <1>5, <1>6, <1>9, <1>13, <1>14

\* A step of the modules themselves, or of the runner before it merges: what
\* is merged stays as it is.
LEMMA UnmergedStep ==
  ASSUME SoloInv, QuietInv', UNCHANGED <<world, phase, results, failures>>,
         losses' \in 0..MaxLosses, raises' \in 0..MaxRaises, AskedInv',
         \A n \in Modules : pc'[n] = "merged" <=> pc[n] = "merged",
         \A n \in Modules : pc'[n] = "returned" \/ n \in Reported =>
           Done(n) /\ asked'[n] = asked[n]
  PROVE  SoloInv'
<1>1. WorldTypeOK'
  BY DEF SoloInv, WorldTypeOK, world
<1>2. active' = active /\ phase' = phase /\ failures' = failures /\ results' = results
  BY DEF world
<1>3. FailuresInv' /\ MergedInv'
  BY <1>2 DEF SoloInv, FailuresInv, MergedInv, QuietInv, PcTypeOK
<1>4. Reported' = Reported /\ ResultsOfAll(Reported)' = ResultsOfAll(Reported)
  <2>1. \A n \in Reported : asked'[n] = asked[n]
    BY DEF Reported
  <2>2. UNCHANGED <<world, failures>>
    OBVIOUS
  <2> QED BY <2>1, <2>2, ReportedFrame
<1>5. ResultsInv'
  BY <1>2, <1>4 DEF SoloInv, ResultsInv
<1>6. DoneInv'
  <2> SUFFICES ASSUME NEW n \in Modules, pc'[n] = "returned" \/ n \in Reported'
               PROVE  Done(n)'
    BY DEF DoneInv
  <2>1. Done(n) /\ asked'[n] = asked[n]
    BY <1>4
  <2> QED BY <2>1, Frame
<1> QED BY <1>1, <1>3, <1>5, <1>6 DEF SoloInv

LEMMA ModuleStep ==
  ASSUME SoloInv, QuietInv', NEW m \in Modules, Attempt(m) \/ Return(m) \/ Raise(m)
  PROVE  SoloInv'
<1>1. /\ losses \in 0..MaxLosses /\ raises \in 0..MaxRaises /\ MaxLosses \in Nat /\ MaxRaises \in Nat
      /\ losses \in Nat /\ raises \in Nat
      /\ AskedInv /\ DoneInv /\ pc \in [Modules -> Stages] /\ pc[m] = "running"
      /\ UNCHANGED <<world, phase, results, failures>> /\ UNCHANGED censor
  BY SoloRunAssumption DEF SoloInv, WorldTypeOK, QuietInv, PcTypeOK, Attempt, Return, Raise, world
<1>2. \A n \in Modules : pc[n] = "returned" \/ n \in Reported => Done(n) /\ n # m
  BY <1>1 DEF DoneInv, Reported
<1>3. CASE Attempt(m)
  <2>1. pc' = pc /\ raises' = raises
    BY <1>3 DEF Attempt
  <2>2. AskedInv' /\ losses' \in 0..MaxLosses /\ \A n \in Modules \ {m} : asked'[n] = asked[n]
    BY <1>3, AttemptAsks
  <2> QED BY <1>1, <1>2, <2>1, <2>2, UnmergedStep
<1>4. CASE Return(m)
  <2>1. /\ losses' = losses /\ raises' = raises /\ asked' = asked /\ Done(m)
        /\ pc' = [pc EXCEPT ![m] = "returned"]
    BY <1>4 DEF Return, Done
  <2>2. AskedInv'
    BY <1>1, <2>1, AskedFrame
  <2>3. \A n \in Modules : pc'[n] = IF n = m THEN "returned" ELSE pc[n]
    BY <1>1, <2>1
  <2> QED BY <1>1, <1>2, <2>1, <2>2, <2>3, UnmergedStep
<1>5. CASE Raise(m)
  <2>1. /\ losses' = losses /\ raises' \in 0..MaxRaises /\ asked' = asked
        /\ pc' = [pc EXCEPT ![m] = "raised"]
    BY <1>1, <1>5 DEF Raise
  <2>2. AskedInv'
    BY <1>1, <2>1, AskedFrame
  <2>3. \A n \in Modules : pc'[n] = IF n = m THEN "raised" ELSE pc[n]
    BY <1>1, <2>1
  <2> QED BY <1>1, <1>2, <2>1, <2>2, <2>3, UnmergedStep
<1> QED BY <1>3, <1>4, <1>5

LEMMA StartSerialStep ==
  ASSUME SoloInv, QuietInv', NEW m \in Serial, StartSerial(m)
  PROVE  SoloInv'
<1>1. /\ losses \in 0..MaxLosses /\ raises \in 0..MaxRaises /\ losses \in Nat
      /\ AskedInv /\ DoneInv /\ pc \in [Modules -> Stages] /\ pc[m] = "waiting" /\ m \in Modules
      /\ UNCHANGED <<world, phase, results, failures>> /\ UNCHANGED censor
      /\ losses' = losses /\ raises' = raises /\ asked' = asked
      /\ pc' = [pc EXCEPT ![m] = "running"]
  BY SoloRunAssumption, ModuleNames
     DEF SoloInv, WorldTypeOK, QuietInv, PcTypeOK, StartSerial, world
<1>2. \A n \in Modules : pc'[n] = IF n = m THEN "running" ELSE pc[n]
  BY <1>1
<1>3. \A n \in Modules : pc[n] = "returned" \/ n \in Reported => Done(n) /\ n # m
  BY <1>1 DEF DoneInv, Reported
<1>4. AskedInv'
  BY <1>1, AskedFrame
<1> QED BY <1>1, <1>2, <1>3, <1>4, UnmergedStep

LEMMA SaveReportStep ==
  ASSUME SoloInv, QuietInv', SaveReport
  PROVE  SoloInv'
<1>1. /\ losses \in 0..MaxLosses /\ losses \in Nat /\ losses' = losses
      /\ AskedInv /\ DoneInv /\ asked' = asked /\ active' = active /\ pc' = pc
      /\ UNCHANGED <<world, results, failures>> /\ UNCHANGED censor
      /\ phase = "serial" /\ phase' = "saved" /\ Remaining = {} /\ raises' = raises
  BY SoloRunAssumption DEF SoloInv, WorldTypeOK, SaveReport, world
<1>2. WorldTypeOK' /\ FailuresInv'
  BY <1>1 DEF SoloInv, WorldTypeOK, FailuresInv, world
<1>3. AskedInv'
  BY <1>1, AskedFrame
<1>4. MergedInv'
  BY <1>1 DEF SoloInv, MergedInv, Remaining
<1>5. Reported' = Reported /\ ResultsOfAll(Reported)' = ResultsOfAll(Reported)
  BY <1>1, ReportedFrame
<1>6. ResultsInv'
  BY <1>1, <1>5 DEF SoloInv, ResultsInv
<1>7. DoneInv'
  <2> SUFFICES ASSUME NEW n \in Modules, pc'[n] = "returned" \/ n \in Reported'
               PROVE  Done(n)'
    BY DEF DoneInv
  <2> QED BY <1>1, <1>5, Frame DEF DoneInv
<1> QED BY <1>2, <1>3, <1>4, <1>6, <1>7 DEF SoloInv

LEMMA StartParallelStep ==
  ASSUME SoloInv, QuietInv', StartParallel
  PROVE  SoloInv'
<1>1. /\ losses \in 0..MaxLosses /\ losses \in Nat /\ losses' = losses
      /\ AskedInv /\ DoneInv /\ asked' = asked /\ active' = active
      /\ UNCHANGED <<world, results, failures>> /\ UNCHANGED censor
      /\ phase = "starting" /\ phase' = "parallel" /\ raises' = raises
      /\ pc' = [m \in Modules |-> IF m \in active \ Serial THEN "running" ELSE pc[m]]
  BY SoloRunAssumption DEF SoloInv, WorldTypeOK, StartParallel, world
<1>2. \A m \in Modules : pc[m] # "merged" /\ pc'[m] # "merged"
  BY <1>1 DEF SoloInv, MergedInv
<1>3. WorldTypeOK' /\ FailuresInv' /\ MergedInv'
  BY <1>1, <1>2 DEF SoloInv, WorldTypeOK, FailuresInv, MergedInv, QuietInv, PcTypeOK, world
<1>4. AskedInv'
  BY <1>1, AskedFrame
<1>5. Reported' = Reported /\ ResultsOfAll(Reported)' = ResultsOfAll(Reported)
  BY <1>1, <1>2, ReportedFrame
<1>6. ResultsInv'
  BY <1>1, <1>5 DEF SoloInv, ResultsInv
<1>7. DoneInv'
  <2> SUFFICES ASSUME NEW n \in Modules, pc'[n] = "returned" \/ n \in Reported'
               PROVE  Done(n)'
    BY DEF DoneInv
  <2>1. pc'[n] = "returned" => pc[n] = "returned"
    BY <1>1
  <2> QED BY <1>1, <1>5, <2>1, Frame DEF DoneInv
<1> QED BY <1>3, <1>4, <1>6, <1>7 DEF SoloInv

LEMMA GatheredStep ==
  ASSUME SoloInv, QuietInv', Gathered
  PROVE  SoloInv'
<1>1. /\ phase = "parallel" /\ phase' = "serial" /\ Absorb(active \ Serial)
      /\ UNCHANGED <<world, asked, losses, raises>> /\ active' = active
      /\ pc' = [m \in Modules |-> IF m \in active \ Serial THEN "merged" ELSE pc[m]]
      /\ active \subseteq Modules
  BY DEF Gathered, Absorb, world, SoloInv, QuietInv, PcTypeOK
<1>2. \A m \in Modules : pc[m] # "merged"
  BY <1>1 DEF SoloInv, MergedInv
<1>3. Reported = {}
  BY <1>2 DEF Reported
<1>4. PICK ms : ms = active \ Serial
  OBVIOUS
<1>5. WorldTypeOK' /\ AskedInv' /\ DoneInv' /\ FailuresInv' /\ ResultsInv'
  BY <1>1, <1>2, <1>3, <1>4, AbsorbStep
<1>6. MergedInv'
  BY <1>1 DEF MergedInv
<1> QED BY <1>5, <1>6 DEF SoloInv

LEMMA SerialEndedStep ==
  ASSUME SoloInv, QuietInv', NEW m \in Serial, SerialEnded(m)
  PROVE  SoloInv'
<1>1. /\ phase = "serial" /\ phase' = "serial" /\ Absorb({m}) /\ Turn(m) /\ m \in Modules
      /\ UNCHANGED <<world, asked, losses, raises>> /\ active' = active
      /\ pc' = [n \in Modules |-> IF n \in {m} THEN "merged" ELSE pc[n]]
      /\ active \subseteq Modules
  BY ModuleNames DEF SerialEnded, Absorb, world, SoloInv, QuietInv, PcTypeOK
<1>2. m \in active /\ pc[m] # "merged"
  BY <1>1, TurnRemains
<1>3. {m} = {"throttling"} \/ {m} = {"middlebox"}
  BY DEF Serial
<1>4. WorldTypeOK' /\ AskedInv' /\ DoneInv' /\ FailuresInv' /\ ResultsInv'
  BY <1>1, <1>2, <1>3, AbsorbStep
<1>5. MergedInv'
  BY <1>1 DEF SoloInv, MergedInv
<1> QED BY <1>4, <1>5 DEF SoloInv

\* SoloInv is inductive.
LEMMA SoloStep == SoloInv /\ [Next]_vars => SoloInv'
<1> SUFFICES ASSUME SoloInv, [Next]_vars PROVE SoloInv'
  OBVIOUS
<1>1. QuietInv'
  BY QuietStep DEF SoloInv
<1>2. CASE UNCHANGED vars
  <2>1. /\ losses' \in 0..MaxLosses /\ raises' \in 0..MaxRaises /\ losses' = losses /\ losses \in Nat
        /\ AskedInv /\ DoneInv /\ UNCHANGED <<world, phase, results, failures>>
        /\ UNCHANGED <<censor, asked>> /\ asked' = asked /\ pc' = pc
    BY <1>2, SoloRunAssumption DEF vars, world, SoloInv, WorldTypeOK
  <2>2. AskedInv'
    BY <2>1, AskedFrame
  <2> QED BY <1>1, <2>1, <2>2, UnmergedStep DEF DoneInv
<1>3. CASE StartParallel \/ Gathered \/ SaveReport
  BY <1>1, <1>3, StartParallelStep, GatheredStep, SaveReportStep
<1>4. CASE \E m \in Modules : Attempt(m) \/ Return(m) \/ Raise(m)
  BY <1>1, <1>4, ModuleStep
<1>5. CASE \E m \in Serial : StartSerial(m) \/ SerialEnded(m)
  BY <1>1, <1>5, StartSerialStep, SerialEndedStep
<1> QED
  BY <1>2, <1>3, <1>4, <1>5 DEF Next

-----------------------------------------------------------------------------
(* The invariants *)

SoundOnes == {r \in ResultType : r.category \in active /\ Sound(r.category, r)}

\* Every result of the report is as the properties want it.
LEMMA ResultsSound ==
  ASSUME SoloInv
  PROVE  /\ results \in Seq(SoundOnes) /\ DOMAIN results = 1..Len(results) /\ Len(results) \in Nat
         /\ \A i \in DOMAIN results : results[i] \in SoundOnes
<1>1. /\ AskedInv /\ WorldTypeOK /\ DoneInv /\ results = ResultsOfAll(Reported)
  BY DEF SoloInv, ResultsInv
<1> DEFINE p == [m \in Modules |-> IF m \in active \cap Reported THEN ResultsOf(m) ELSE <<>>]
<1>2. ASSUME NEW m \in Modules PROVE p[m] \in Seq(SoundOnes)
  <2>1. CASE m \in active /\ m \in Reported
    <3>1. ResultsOf(m) \in Seq(Sounds(m))
      BY <1>1, <2>1, AllSound DEF DoneInv
    <3>2. Sounds(m) \subseteq SoundOnes
      BY <2>1 DEF Sounds, SoundOnes, Sound
    <3> DEFINE S == Sounds(m)
               T == SoundOnes
               s == ResultsOf(m)
    <3>3. p[m] = s
      BY <2>1
    <3>4. s \in Seq(S) /\ S \subseteq T
      BY <3>1, <3>2
    <3> HIDE DEF S, T, s
    <3>5. s \in Seq(T)
      BY <3>4
    <3> QED BY <3>3, <3>5 DEF T
  <2>2. CASE ~ (m \in active /\ m \in Reported)
    <3>1. p[m] = <<>> /\ \A T : <<>> \in Seq(T)
      BY <2>2
    <3> QED BY <3>1
  <2> QED BY <2>1, <2>2
<1>3. results = InOrder(p)
  BY <1>1 DEF ResultsOfAll
<1> HIDE DEF p
<1>4. results \in Seq(SoundOnes)
  BY <1>2, <1>3, InOrderType
<1>5. \A T : \A s \in Seq(T) : /\ DOMAIN s = 1..Len(s) /\ Len(s) \in Nat
                               /\ \A i \in DOMAIN s : s[i] \in T
  OBVIOUS
<1> QED BY <1>4, <1>5

LEMMA SoloInvImpliesTypeOK == SoloInv => TypeOK
<1> SUFFICES ASSUME SoloInv PROVE TypeOK
  OBVIOUS
<1>1. /\ WorldTypeOK /\ PcTypeOK /\ PhaseTypeOK /\ FailuresInv /\ AskedInv
  BY DEF SoloInv, QuietInv
<1>2. \A i \in DOMAIN results : results[i].verdict \in Verdicts /\ results[i].category \in active
  BY ResultsSound DEF SoundOnes, ResultType
<1>3. \A m \in Modules : \A q \in MayAsk[m] : Len(asked[m][q]) <= Repeats
  BY <1>1 DEF AskedInv, AttemptsInv
<1>4. ToSet(failures) \subseteq active
  BY <1>1 DEF FailuresInv
<1> QED BY <1>1, <1>2, <1>3, <1>4 DEF TypeOK, WorldTypeOK, PcTypeOK, PhaseTypeOK, Stages

LEMMA SoloInvImpliesNothingLost == SoloInv => NothingLost
<1> SUFFICES ASSUME SoloInv, phase = "saved" PROVE NothingLost
  BY DEF NothingLost
<1>1. /\ FailuresInv /\ DoneInv /\ MergedInv /\ active \subseteq Modules
      /\ results = ResultsOfAll(Reported) /\ \A m \in Modules : pc[m] # "waiting" => m \in active
  BY DEF SoloInv, QuietInv, PcTypeOK, OnlyActive, ResultsInv
<1>2. Reported = active \ ToSet(failures)
  BY <1>1 DEF MergedInv, Reported
<1>3. \A m \in active \ ToSet(failures) : Done(m)
  BY <1>1, <1>2 DEF DoneInv
<1>4. \A m \in active : MissingTargets(m) => m \in ToSet(failures)
  BY <1>3 DEF Done
<1> QED BY <1>1, <1>2, <1>3, <1>4 DEF NothingLost, FailuresInv, Done

LEMMA SoloInvImpliesBlockedIsEarned == SoloInv => BlockedIsEarned
<1> SUFFICES ASSUME SoloInv, censor = "none", NEW i \in DOMAIN results,
                    results[i].verdict \in BLOCKING_VERDICTS
             PROVE  Earned(results[i].category, results[i].test)
  BY DEF BlockedIsEarned, Earned
<1>1. Sound(results[i].category, results[i])
  BY ResultsSound DEF SoundOnes
<1> QED BY <1>1 DEF Sound, Blocking

LEMMA SoloInvImpliesCensorIsSeen == SoloInv => CensorIsSeen
<1> SUFFICES ASSUME SoloInv, losses = 0, NEW seen \in Attributed, NEW i \in DOMAIN results,
                    results[i].test = seen[1]
             PROVE  /\ results[i].verdict \in BLOCKING_VERDICTS /\ results[i].method = seen[2]
                    /\ seen[2] \in DetectedTechniques(results)
  BY DEF CensorIsSeen
<1>1. Sound(results[i].category, results[i])
  BY ResultsSound DEF SoundOnes
<1>2. results[i].verdict \in BLOCKING_VERDICTS /\ results[i].method = seen[2] /\ results[i].method # "none"
  BY <1>1 DEF Sound, Seen, Blocking
<1> QED BY <1>2 DEF DetectedTechniques

LEMMA SoloInvImpliesBetterNeverScoresLower == SoloInv => BetterNeverScoresLower
<1> SUFFICES ASSUME SoloInv, NEW i \in DOMAIN results, NEW v \in Verdicts,
                    Standing[v] > Standing[results[i].verdict]
             PROVE  LET better == [results EXCEPT ![i].verdict = v]
                    IN /\ ExitScore(better) >= ExitScore(results)
                       /\ RelayScore(better) >= RelayScore(results)
                       /\ \A reports \in ReportSets :
                            /\ EntryScore(better, reports) >= EntryScore(results, reports)
                            /\ Overall(better, reports) >= Overall(results, reports)
  BY DEF BetterNeverScoresLower
<1> DEFINE better == [results EXCEPT ![i].verdict = v]
<1>1. /\ DOMAIN results = 1..Len(results) /\ Len(results) \in Nat
      /\ \A j \in DOMAIN results : results[j] \in ResultType
  BY ResultsSound DEF SoundOnes
<1>2. IsFiniteSet(DOMAIN results)
  BY <1>1, FS_Interval
<1>3. /\ DOMAIN better = DOMAIN results
      /\ better[i] = [results[i] EXCEPT !.verdict = v]
      /\ \A j \in DOMAIN results : j # i => better[j] = results[j]
  OBVIOUS
<1>4. /\ better[i].category = results[i].category /\ better[i].rtt = results[i].rtt
      /\ better[i].verdict = v
  BY <1>1, <1>3 DEF ResultType
<1>5. results[i].verdict \in Verdicts
  BY <1>1 DEF ResultType
<1>6. /\ results[i].verdict # "OK" /\ v \in NON_SCORING_VERDICTS \cup {"OK"}
      /\ results[i].verdict \in NON_SCORING_VERDICTS => v = "OK"
  BY <1>5 DEF Standing, NON_SCORING_VERDICTS
<1> HIDE DEF better
<1>7. Improved(results, better, i)
  BY <1>2, <1>3, <1>4, <1>6 DEF Improved
<1>8. ExitScore(better) >= ExitScore(results) /\ RelayScore(better) >= RelayScore(results)
  <2>1. PICK reports : reports = <<>>
    OBVIOUS
  <2>2. DOMAIN reports = 1..0
    BY <2>1
  <2>3. IsFiniteSet(DOMAIN reports) /\ \A j \in DOMAIN reports : IsFiniteSet(DOMAIN reports[j])
    BY <2>2, FS_Interval
  <2> QED BY <1>7, <2>3, ScoresRise
<1>9. ASSUME NEW reports \in ReportSets
      PROVE  /\ EntryScore(better, reports) >= EntryScore(results, reports)
             /\ Overall(better, reports) >= Overall(results, reports)
  BY <1>7, SoloRunAssumption, ScoresRise
<1> QED BY <1>8, <1>9 DEF better

\* SoloInv always holds.
THEOREM SoloInvAlways == Spec => []SoloInv
BY SoloInit, SoloStep, PTL DEF Spec

\* The variables keep their types and the faults their bounds, no module that
\* is not enabled is among the failures or the results, and no question is
\* asked more often than RUNS_COUNT allows, for any RUNS_COUNT and whatever
\* mixture of replies and losses came back (the loops of modules/tcp.py,
\* tls.py and http.py under run_all in runner.py).
THEOREM TypeOKAlways == Spec => []TypeOK
BY SoloInvAlways, SoloInvImpliesTypeOK, PTL

\* A module that raises loses nothing but its own results, for any set of
\* enabled modules (run_all, _run_one and _absorb_module_outcome in
\* runner.py).
THEOREM NothingLostAlways == Spec => []NothingLost
BY SoloInvAlways, SoloInvImpliesNothingLost, PTL

\* Where nobody censors, a blocking verdict means as many lost attempts as the
\* test allows for: half of the tcp attempts, every handshake or page, or the
\* one attempt of the other tests (the verdicts of modules/*.py).
THEOREM BlockedIsEarnedAlways == Spec => []BlockedIsEarned
BY SoloInvAlways, SoloInvImpliesBlockedIsEarned, PTL

\* Without losses, a censor is seen by every test it disturbs, and its method
\* is among the detected techniques (modules/*.py, compute_scores in
\* scoring.py).
THEOREM CensorIsSeenAlways == Spec => []CensorIsSeen
BY SoloInvAlways, SoloInvImpliesCensorIsSeen, PTL

\* Less censorship never scores lower, for any weights and any listener
\* reports (compute_scores in scoring.py).
THEOREM BetterNeverScoresLowerAlways == Spec => []BetterNeverScoresLower
BY SoloInvAlways, SoloInvImpliesBetterNeverScoresLower, PTL
=============================================================================

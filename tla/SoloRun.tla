------------------------------ MODULE SoloRun ------------------------------
(***************************************************************************)
(* One run of censprobe-solo: ProbeRunner.run_all over the registered      *)
(* modules, the parallel ones at once and the serial ones one after the    *)
(* other, and the report that save_report writes.  The network around the  *)
(* server is chosen in the initial state: a censor that does one thing to  *)
(* the targets, or none, and packets that get lost on the way.             *)
(***************************************************************************)
EXTENDS Measurements, Scoring

CONSTANTS
  ActiveSets,  \* the sets of modules that censprobe.yaml may enable
  ReportSets,  \* sequences of listener reports the scores may be computed with
  MaxLosses,   \* bound on the attempts that get no answer for no reason
  MaxRaises    \* bound on the modules that raise for no modelled reason

MODULES == <<"dns", "tcp", "tls", "http", "telegram", "cloudflare", "throttling", "middlebox">>
Serial == {"throttling", "middlebox"}
Modules == ToSet(MODULES)

ASSUME SoloRunAssumption ==
  /\ ActiveSets \subseteq SUBSET Modules
  /\ {MaxLosses, MaxRaises} \subseteq Nat
  /\ \A reports \in ReportSets :
       IsFiniteSet(DOMAIN reports) /\ \A i \in DOMAIN reports : IsFiniteSet(DOMAIN reports[i])

Censors == {"none", "dropsIp", "resetsTcp", "resetsSni", "dropsSni", "forgesCerts",
            "poisonsDns", "deniesDns", "blocksDoh", "dropsQuic", "throttles",
            "rewritesHttp"}

VARIABLES
  censor,    \* what happens on the path to the targets
  vantage,   \* is_censoring_vantage
  required,  \* modules.throttling.require_censoring_vantage
  ipv6,      \* _host_has_ipv6
  files,     \* the targets of telegram and cloudflare were found
  active,    \* enabled_modules
  phase,     \* "starting", "parallel", "serial" or "saved"
  pc,        \* of each module, "waiting", "running", "returned", "raised" or "merged"
  asked,     \* of each module and question, the attempts made, and which were lost
  results, failures,  \* results and module_failures of the runner
  losses, raises      \* how often the bounded faults happened

world == <<censor, vantage, required, ipv6, files, active>>
vars == <<world, phase, pc, asked, results, failures, losses, raises>>

\* What each module contributes to a list, in the order of the registry.
InOrder(part) == FlattenSeq([i \in DOMAIN MODULES |-> part[MODULES[i]]])
Names(modules) == InOrder([m \in Modules |-> IF m \in active \cap modules THEN <<m>> ELSE <<>>])

-----------------------------------------------------------------------------
(* The network *)

TowardsTarget(timeouts, refused, reset, dropped, forged, poisoned, denied, otherwise) ==
  CASE censor = "dropsIp" -> timeouts
    [] censor = "resetsTcp" -> refused
    [] censor = "resetsSni" -> reset
    [] censor = "dropsSni" -> dropped
    [] censor = "forgesCerts" -> forged
    [] censor = "poisonsDns" -> poisoned
    [] censor = "deniesDns" -> denied
    [] OTHER -> otherwise

\* What the attempt may run into when its packets arrive.
Answers(question) ==
  LET unless(c, tampered, plain) == IF censor = c THEN tampered ELSE plain
      connecting(refused) ==
        unless("dropsIp", {"timeout"}, unless("resetsTcp", {refused}, {"open"}))
      webPage(captive) ==
        TowardsTarget({"timeout"}, {"connectError"}, {"connectError"}, {"timeout"},
                      {"foreignCert"}, captive, {"connectError"}, {"page", "serverError"})
  IN CASE question = "syn" -> connecting("fastReset")
       [] question = "ownSni" ->
            TowardsTarget({"timeout", "hung"}, {"otherError"}, {"reset"}, {"timeout"},
                          {"untrusted"}, {"done"}, {"done"}, {"done"})
       [] question = "neutralSni" ->
            unless("dropsIp", {"timeout", "hung"},
                   unless("resetsTcp", {"otherError"}, {"done", "alert"}))
       [] question = "ech" ->
            unless("blocksDoh", {"absent"},
                   IF censor \in {"dropsIp", "resetsTcp"} THEN {"network"} ELSE {"done", "absent"})
       [] question = "get" ->
            TowardsTarget({"timeout"}, {"connectError"}, {"reset", "connectError"}, {"timeout"},
                          {"sslError"}, {"sslError"}, {"connectError"}, {"200", "403", "503"})
       [] question = "dohAccess" -> unless("blocksDoh", {"nothing"}, {"address"})
       [] question = "system" ->
            unless("poisonsDns", {"captive"}, unless("deniesDns", {"nxdomain"}, {"address"}))
       [] question = "public" -> {"address"}
       [] question = "doh" -> unless("blocksDoh", {"nothing"}, {"address", "otherEdge"})
       [] question = "cert" ->
            TowardsTarget({"noConnection"}, {"noConnection"}, {"noConnection"}, {"noConnection"},
                          {"invalid"}, {"invalid"}, {}, {"valid"})
       [] question \in {"dcV4", "warpTcp"} -> connecting("refused")
       [] question = "dcV6" -> connecting("refused") \cup {"noRoute"}
       [] question \in {"web", "aux", "cdn"} -> webPage({"ownedCert"})
       [] question = "quic" ->
            IF censor \in {"dropsIp", "dropsQuic"} THEN {"timeout"} ELSE {"datagram"}
       [] question = "warpUdp" ->
            unless("dropsIp", {"timeout", "rejected"}, {"datagram", "timeout", "portUnreachable"})
       [] question = "page" ->
            TowardsTarget({"timeout"}, {"connectError"}, {"connectError"}, {"timeout"},
                          {"sslError"}, {"sslError"}, {"connectError"}, {"200", "403", "503"})
       [] question \in {"correct", "typo"} -> {8}
       [] question = "trigger" -> unless("throttles", {1}, {4, 8})
       [] question \in {"hostCase", "agentCase"} -> unless("rewritesHttp", {"200"}, {"301", "400"})
       [] question = "badLine" -> unless("rewritesHttp", {"200"}, {"400", "405", "501"})

\* What it runs into when they are lost, or when the host fails it.
Silence(question) ==
  CASE question \in {"ownSni", "neutralSni"} -> {"timeout", "hung"}
    [] question = "ech" -> {"network", "killed"}
    [] question \in {"syn", "get", "dcV4", "dcV6", "warpTcp"} -> {"timeout", "otherError"}
    [] question \in {"dohAccess", "system", "public", "doh"} -> {"nothing"}
    [] question = "cert" -> {"noConnection"}
    [] question \in {"correct", "trigger", "typo"} -> {0}
    [] question \in {"hostCase", "agentCase", "badLine"} -> {"nothing"}
    [] OTHER -> {"timeout"}

-----------------------------------------------------------------------------
(* The modules *)

MayAsk ==
  [dns |-> {"dohAccess", "system", "public", "doh", "cert"}, tcp |-> {"syn"},
   tls |-> {"ownSni", "neutralSni", "ech"}, http |-> {"get"},
   telegram |-> {"dcV4", "dcV6", "web", "aux", "cdn"},
   cloudflare |-> {"quic", "warpTcp", "warpUdp", "page"},
   throttling |-> {"correct", "trigger", "typo"},
   middlebox |-> {"hostCase", "agentCase", "badLine"}]

\* The questions of a module, in the order in which it asks them.
Questions(m) ==
  CASE m = "dns" ->
         IF asked[m]["system"] # <<>> /\ Reply(asked[m], "system") \in {"address", "captive"}
           THEN <<"dohAccess", "system", "public", "doh", "cert">>
           ELSE <<"dohAccess", "system", "public", "doh">>
    [] m = "tcp" -> <<"syn">>
    [] m = "tls" -> <<"ownSni", "neutralSni", "ech">>
    [] m = "http" -> <<"get">>
    [] m = "telegram" -> IF ipv6 THEN <<"dcV4", "dcV6", "web", "aux", "cdn">>
                                 ELSE <<"dcV4", "web", "aux", "cdn">>
    [] m = "cloudflare" -> <<"quic", "warpTcp", "warpUdp", "page">>
    [] m = "throttling" -> IF required /\ ~ vantage THEN <<>> ELSE <<"correct", "trigger", "typo">>
    [] m = "middlebox" -> <<"hostCase", "agentCase", "badLine">>

\* Mutant: a question is repeated once too often.
AnsweredLate(question, replies) ==
  replies # <<>> /\ (question \in {"syn", "ownSni", "neutralSni", "get"} => Len(replies) > Repeats)
\* Whether the replies to a question are enough not to ask it again.
Answered(question, replies) ==
  /\ replies # <<>>
  /\ CASE question = "syn" -> Len(replies) = Repeats
       [] question \in {"ownSni", "neutralSni"} -> Last(replies) = "done" \/ Len(replies) = Repeats
       [] question = "get" -> Last(replies) \notin HttpRetried \/ Len(replies) = Repeats
       [] OTHER -> TRUE

\* What is left to ask; the first of these is asked next.
Open(m) ==
  {i \in DOMAIN Questions(m) : ~ Answered(Questions(m)[i], Replies(asked[m], Questions(m)[i]))}

NoRtt == -1
Rtt == [open |-> 5, fastReset |-> 5, reset |-> 60, otherError |-> 5, timeout |-> 5000]

ResultsOf(m) ==
  LET reply(q) == Reply(asked[m], q)
      result(test, found) == [category |-> m, test |-> test, verdict |-> found.verdict,
                              method |-> found.method, rtt |-> NoRtt]
      dc(q) == result(q, DcOutcome[reply(q)])
      dcs == IF ipv6 THEN <<dc("dcV4"), dc("dcV6")>> ELSE <<dc("dcV4")>>
      web(q) == result(q, WebOutcome[reply(q)])
  IN CASE m = "dns" -> <<result("dohAccess", DohAccess[reply("dohAccess")]),
                         result("system", DnsResult(asked[m]))>>
       [] m = "tcp" -> <<[result("syn", TcpResult(asked[m], vantage)) EXCEPT
                            !.rtt = Min({Rtt[r] : r \in ToSet(Replies(asked[m], "syn"))})]>>
       [] m = "tls" -> <<result("ownSni", SniResult(asked[m])),
                         result("neutralSni", NeutralResult(asked[m])),
                         result("ech", EchOutcome[reply("ech")])>>
       [] m = "http" -> <<result("get", HttpResult(asked[m]))>>
       [] m = "telegram" ->
            (IF ipv6 THEN <<>> ELSE <<result("ipv6Skipped", Inconclusive)>>)
            \o dcs \o <<web("web"), web("aux"), web("cdn")>>
            \o <<result("health", HealthResult(Health(dcs, <<web("web")>>, <<web("cdn")>>)))>>
       [] m = "cloudflare" -> <<result("quic", QuicResult(reply("quic"), vantage)),
                                result("warpTcp", WarpTcpOutcome[reply("warpTcp")]),
                                result("warpUdp", WarpUdpOutcome[reply("warpUdp")]),
                                result("page", PageResult(reply("page")))>>
       [] m = "throttling" ->
            <<result("trigger", IF required /\ ~ vantage THEN Inconclusive
                                ELSE Throttled(reply("correct"), reply("trigger"), reply("typo")))>>
       [] m = "middlebox" -> <<result("hostCase", HeaderCase(reply("hostCase"))),
                               result("agentCase", HeaderCase(reply("agentCase"))),
                               result("badLine", InvalidLine(reply("badLine")))>>

ResultsOfAll(modules) ==
  InOrder([m \in Modules |-> IF m \in active \cap modules THEN ResultsOf(m) ELSE <<>>])

-----------------------------------------------------------------------------
(* The runner *)

Init ==
  /\ censor \in Censors
  /\ vantage \in BOOLEAN /\ required \in BOOLEAN /\ ipv6 \in BOOLEAN /\ files \in BOOLEAN
  /\ active \in ActiveSets
  \* What no enabled module reads is fixed.
  /\ {"tcp", "cloudflare", "throttling"} \cap active = {} => vantage
  /\ "throttling" \notin active => ~ required
  /\ "telegram" \notin active => ipv6
  /\ {"telegram", "cloudflare"} \cap active = {} => files
  /\ phase = "starting"
  /\ pc = [m \in Modules |-> "waiting"]
  /\ asked = [m \in Modules |-> [q \in MayAsk[m] |-> <<>>]]
  /\ results = <<>> /\ failures = <<>>
  /\ losses = 0 /\ raises = 0

MissingTargets(m) == m \in {"telegram", "cloudflare"} /\ ~ files

\* gather schedules every parallel module before the first of them runs.
StartParallel ==
  /\ phase = "starting"
  /\ phase' = "parallel"
  /\ pc' = [m \in Modules |-> IF m \in active \ Serial THEN "running" ELSE pc[m]]
  /\ UNCHANGED <<world, asked, results, failures, losses, raises>>

Attempt(m) ==
  /\ pc[m] = "running" /\ ~ MissingTargets(m)
  /\ \E i \in Open(m) :
       /\ \A j \in Open(m) : i <= j
       /\ LET question == Questions(m)[i]
              made(reply, lost) ==
                asked' = [asked EXCEPT ![m][question] = Append(@, [reply |-> reply, lost |-> lost])]
          IN \/ /\ \E reply \in Answers(question) : made(reply, FALSE)
                /\ UNCHANGED losses
             \/ /\ losses < MaxLosses
                /\ \E reply \in Silence(question) : made(reply, TRUE)
                /\ losses' = losses + 1
  /\ UNCHANGED <<world, phase, pc, results, failures, raises>>

\* A blocking call that was given up on at its outer timeout leaves a thread
\* of the executor behind, which ends by itself and is not modelled.
Return(m) ==
  /\ pc[m] = "running" /\ ~ MissingTargets(m) /\ Open(m) = {}
  /\ pc' = [pc EXCEPT ![m] = "returned"]
  /\ UNCHANGED <<world, phase, asked, results, failures, losses, raises>>

Raise(m) ==
  /\ pc[m] = "running"
  /\ \/ MissingTargets(m) /\ UNCHANGED raises
     \/ /\ ~ MissingTargets(m) /\ raises < MaxRaises
        /\ raises' = raises + 1
  /\ pc' = [pc EXCEPT ![m] = "raised"]
  /\ UNCHANGED <<world, phase, asked, results, failures, losses>>

\* Mutant: the exception of one module ends the whole gather.
AbsorbOrAbort(ms) ==
  /\ \A m \in ms : pc[m] \in {"returned", "raised"}
  /\ results' = IF \E m \in ms : pc[m] = "raised" THEN results ELSE results \o ResultsOfAll(ms)
  /\ failures' = failures \o Names({m \in ms : pc[m] = "raised"})
  /\ pc' = [m \in Modules |-> IF m \in ms THEN "merged" ELSE pc[m]]
\* _absorb_module_outcome for each of ms, which have all ended.
Absorb(ms) ==
  /\ \A m \in ms : pc[m] \in {"returned", "raised"}
  /\ results' = results \o ResultsOfAll({m \in ms : pc[m] = "returned"})
  /\ failures' = failures \o Names({m \in ms : pc[m] = "raised"})
  /\ pc' = [m \in Modules |-> IF m \in ms THEN "merged" ELSE pc[m]]

\* Mutant: a module that raised is waited for.
GatheredIfAllReturned ==
  /\ phase = "parallel"
  /\ \A m \in active \ Serial : pc[m] = "returned"
  /\ Absorb(active \ Serial)
  /\ phase' = "serial"
  /\ UNCHANGED <<world, asked, losses, raises>>
Gathered ==
  /\ phase = "parallel"
  /\ Absorb(active \ Serial)
  /\ phase' = "serial"
  /\ UNCHANGED <<world, asked, losses, raises>>

\* The serial modules that have not been merged yet, and the next one of them.
Remaining == {m \in active \cap Serial : pc[m] # "merged"}
Turn(m) ==
  \E i \in DOMAIN MODULES : /\ MODULES[i] = m /\ m \in Remaining
                            /\ \A j \in 1..(i - 1) : MODULES[j] \notin Remaining

\* Mutant: the serial modules are gathered too.
StartSerialAtOnce(m) ==
  /\ phase = "serial" /\ m \in Remaining
  /\ pc[m] = "waiting"
  /\ pc' = [pc EXCEPT ![m] = "running"]
  /\ UNCHANGED <<world, phase, asked, results, failures, losses, raises>>
StartSerial(m) ==
  /\ phase = "serial" /\ Turn(m)
  /\ pc[m] = "waiting"
  /\ pc' = [pc EXCEPT ![m] = "running"]
  /\ UNCHANGED <<world, phase, asked, results, failures, losses, raises>>

SerialEnded(m) ==
  /\ phase = "serial" /\ Turn(m)
  /\ Absorb({m})
  /\ UNCHANGED <<world, phase, asked, losses, raises>>

SaveReport ==
  /\ phase = "serial" /\ Remaining = {}
  /\ phase' = "saved"
  /\ UNCHANGED <<world, pc, asked, results, failures, losses, raises>>

Next ==
  \/ StartParallel \/ Gathered \/ SaveReport
  \/ \E m \in Modules : Attempt(m) \/ Return(m) \/ Raise(m)
  \/ \E m \in Serial : StartSerial(m) \/ SerialEnded(m)

Spec == Init /\ [][Next]_vars
\* Every attempt is bounded by a timeout, and asyncio runs what is ready.
FairSpec == Spec /\ WF_vars(Next)

-----------------------------------------------------------------------------
(* Properties *)

Verdicts == DOMAIN Severity
Lost(m, question) == Cardinality({i \in DOMAIN asked[m][question] : asked[m][question][i].lost})

\* The variables have their types, the bounds hold, and no question is asked
\* more often than RUNS_COUNT allows, whatever mixture of replies came back.
TypeOK ==
  /\ censor \in Censors /\ active \in ActiveSets
  /\ {vantage, required, ipv6, files} \subseteq BOOLEAN
  /\ phase \in {"starting", "parallel", "serial", "saved"}
  /\ pc \in [Modules -> {"waiting", "running", "returned", "raised", "merged"}]
  /\ losses \in 0..MaxLosses /\ raises \in 0..MaxRaises
  /\ ToSet(failures) \subseteq active
  /\ \A i \in DOMAIN results : /\ results[i].verdict \in Verdicts
                               /\ results[i].category \in active
  /\ \A m \in Modules : \A q \in MayAsk[m] : Len(asked[m][q]) <= Repeats

\* A module that raises loses nothing but its own results: the saved report
\* has, of every enabled module, either its name among module_failures, once,
\* or all its results, in the order of the registry (run_all, _run_one and
\* _absorb_module_outcome).
NothingLost ==
  phase = "saved" =>
    /\ IsInjective(failures)
    /\ \A m \in active \ ToSet(failures) : Open(m) = {}
    /\ results = ResultsOfAll(active \ ToSet(failures))
    /\ \A m \in active : MissingTargets(m) => m \in ToSet(failures)

\* The uplink is quiet while it is measured: no other module runs while a
\* serial module does (Phase.SERIAL in module_registry.py).
QuietUplink ==
  \A m \in Serial, n \in Modules : pc[m] = "running" /\ n # m => pc[n] # "running"

\* Lost packets alone are not called censorship: where nobody censors, a
\* blocking verdict means that half of the tcp attempts, every attempt at the
\* own handshake or a page, or the single attempt of the other tests was lost.
\* The neutral handshake is the exception: a server that rejects the neutral
\* name is asked again, and one lost attempt at the end is enough.
BlockedIsEarned ==
  censor = "none" =>
    \A i \in DOMAIN results :
      LET m == results[i].category
          test == results[i].test
      IN results[i].verdict \in BLOCKING_VERDICTS =>
           CASE test = "syn" -> 2 * Lost(m, test) >= Repeats
             [] test \in {"ownSni", "get"} -> Lost(m, test) = Repeats
             [] test = "neutralSni" -> Last(asked[m][test]).lost
             [] test = "health" -> Lost(m, "dcV4") + Lost(m, "dcV6") > 0
             [] OTHER -> Lost(m, test) = 1

\* A tie is not decided for the path: tcp is OK only where more attempts came
\* through than ended in any other one way (_majority).
TieIsCautious ==
  \A i \in DOMAIN results : results[i].test = "syn" /\ results[i].verdict = "OK" =>
    LET replies == Replies(asked["tcp"], "syn")
        Times(r) == Cardinality({n \in DOMAIN replies : replies[n] = r})
    IN \A r \in ToSet(replies) \ {"open"} : Times(r) < Times("open")

\* What the tests of each module promise to make of each censor.
Attributed ==
  CASE censor = "dropsIp" -> {"syn", "ownSni", "get", "dcV4", "warpTcp", "page"} \X {"ip_dropped"}
    [] censor = "resetsTcp" -> {<<"syn", IF vantage THEN "tcp_rst_injection" ELSE "tcp_refused">>,
                                 <<"dcV4", "tcp_refused">>, <<"warpTcp", "tcp_refused">>}
    [] censor = "resetsSni" -> {<<"ownSni", "tcp_rst_after_tls_ch">>}
    [] censor = "dropsSni" -> {<<"ownSni", "tcp_rst_after_tls_ch">>, <<"get", "ip_dropped">>,
                                <<"web", "ip_dropped">>, <<"page", "ip_dropped">>}
    [] censor = "forgesCerts" -> {"get", "web", "page"} \X {"tls_handshake_failure"}
    [] censor = "poisonsDns" -> {<<"system", "dns_poisoning">>}
    [] censor = "deniesDns" -> {<<"system", "dns_blocked_nxdomain">>}
    [] censor = "blocksDoh" -> {<<"dohAccess", "doh_blocked">>}
    [] censor = "dropsQuic" -> IF vantage THEN {<<"quic", "quic_dropped">>} ELSE {}
    [] censor = "throttles" -> IF required /\ ~ vantage THEN {} ELSE {<<"trigger", "sni_throttling">>}
    [] OTHER -> {}

\* A censor is seen by every test of the saved report that it disturbs, with
\* the method that names it, and the method is among the techniques the
\* summary and the scores list, unless packets were lost.
CensorIsSeen ==
  phase = "saved" /\ losses = 0 =>
    \A seen \in Attributed : \A i \in DOMAIN results :
      LET test == seen[1]
          method == seen[2]
      IN results[i].test = test =>
           /\ results[i].verdict \in BLOCKING_VERDICTS /\ results[i].method = method
           /\ method \in DetectedTechniques(results)

Standing == [v \in Verdicts |-> IF v = "OK" THEN 2 ELSE IF v \in NON_SCORING_VERDICTS THEN 1 ELSE 0]

\* Less censorship never scores lower: when one result of the saved report is
\* replaced by a better one, no score falls, with or without listener reports.
BetterNeverScoresLower ==
  phase = "saved" =>
    \A i \in DOMAIN results : \A v \in Verdicts :
      LET better == [results EXCEPT ![i].verdict = v]
      IN Standing[v] > Standing[results[i].verdict] =>
           /\ ExitScore(better) >= ExitScore(results)
           /\ RelayScore(better) >= RelayScore(results)
           /\ \A reports \in ReportSets :
                /\ EntryScore(better, reports) >= EntryScore(results, reports)
                /\ Overall(better, reports) >= Overall(results, reports)

\* The run ends with a report whatever its modules and the network do.
RunEnds == <>(phase = "saved")
=============================================================================

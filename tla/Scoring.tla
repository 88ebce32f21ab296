------------------------------- MODULE Scoring -------------------------------
(***************************************************************************)
(* scoring.py: the scores of a server from the results of a solo run and   *)
(* the protocol verdicts of the listener reports.  A result is a record    *)
(* with a category, a verdict, a method and an rtt in milliseconds, which  *)
(* is negative where the code has None; a report is a function from        *)
(* protocols to verdicts.  Fractions are in hundredths of a percent,       *)
(* rounded down, where the code has floats.  A list of results that the    *)
(* code selects is the set of their positions.                             *)
(***************************************************************************)
EXTENDS Integers, Sequences, SequencesExt, FiniteSets, FiniteSetsExt

CONSTANTS EntryWeights, ExitWeights, RelayWeights   \* censprobe.yaml, in percent

ASSUME ScoringAssumption ==
  /\ EntryWeights \in [protocol : Nat, uplink : Nat, latency : Nat]
  /\ ExitWeights \in [uplink : Nat, censorship : Nat]
  /\ RelayWeights \in [tcp : Nat, latency : Nat]

BLOCKING_VERDICTS == {"BLOCKED", "THROTTLED"}
NON_SCORING_VERDICTS == {"SERVER_REFUSED", "INCONCLUSIVE"}
Whole == 10000

OfCategory(results, category) == {i \in DOMAIN results : results[i].category = category}

OkPct(results, selected) ==
  LET relevant == {i \in selected : results[i].verdict \notin NON_SCORING_VERDICTS}
      ok == {i \in relevant : results[i].verdict = "OK"}
  IN CASE selected = {} -> 0
       [] selected # {} /\ relevant = {} -> Whole
       [] OTHER -> (Whole * Cardinality(ok)) \div Cardinality(relevant)

ProtocolCredit(verdict) ==
  IF verdict = "OK" THEN Whole ELSE IF verdict = "HANDSHAKE_ONLY" THEN Whole \div 2 ELSE 0

\* The mean over every protocol of every report.
ProtocolReachability(reports) ==
  LET verdicts == UNION {{<<i, p>> : p \in DOMAIN reports[i]} : i \in DOMAIN reports}
      credit == [v \in verdicts |-> ProtocolCredit(reports[v[1]][v[2]])]
      total == FoldSet(LAMBDA v, sum : sum + credit[v], 0, verdicts)
  IN IF verdicts = {} THEN Whole \div 2 ELSE total \div Cardinality(verdicts)

\* The score of the median, the element at n \div 2, counted from 0, of the
\* sorted times: it is below a limit when more than n \div 2 of them are.
LatencyScore(results, timed) ==
  LET below(ms) == Cardinality({i \in timed : results[i].rtt < ms}) > Cardinality(timed) \div 2
  IN IF timed = {} THEN 50
     ELSE CASE below(10) -> 100
            [] below(50) /\ ~ below(10) -> 90
            [] below(100) /\ ~ below(50) -> 75
            [] below(200) /\ ~ below(100) -> 50
            [] below(500) /\ ~ below(200) -> 25
            [] ~ below(500) -> 0

Uplink(results) == OkPct(results, OfCategory(results, "http"))
TcpOk(results) == OkPct(results, OfCategory(results, "tcp"))

Latency(results) ==
  LET timed == {i \in OfCategory(results, "tcp") : results[i].rtt >= 0}
  IN (Whole * LatencyScore(results, timed)) \div 100

ThrottlingDetected(results) ==
  \E i \in DOMAIN results : results[i].category = "throttling" /\ results[i].verdict = "THROTTLED"

\* Mutant: the penalty is taken from the runs that are not throttled.
CensorshipSwapped(results) ==
  IF ThrottlingDetected(results) THEN Uplink(results) ELSE Max({0, Uplink(results) - 2000})
\* The penalty of a throttled uplink is 20 percent, down to zero.
Censorship(results) ==
  IF ThrottlingDetected(results)
    THEN Max({0, Uplink(results) - 2000})
    ELSE Uplink(results)

DetectedTechniques(results) ==
  {results[i].method : i \in {j \in DOMAIN results : /\ results[j].verdict \in BLOCKING_VERDICTS
                                                     /\ results[j].method # "none"}}

Clamped(score) == Max({0, Min({100, score \div Whole})})

EntryScore(results, reports) ==
  Clamped(ProtocolReachability(reports) * EntryWeights.protocol
            + Uplink(results) * EntryWeights.uplink + Latency(results) * EntryWeights.latency)
ExitScore(results) ==
  Clamped(Uplink(results) * ExitWeights.uplink + Censorship(results) * ExitWeights.censorship)
RelayScore(results) ==
  Clamped(TcpOk(results) * RelayWeights.tcp + Latency(results) * RelayWeights.latency)

\* Without a listener report the entry score does not enter the mean.
Overall(results, reports) ==
  IF reports = <<>>
    THEN (ExitScore(results) + RelayScore(results)) \div 2
    ELSE (EntryScore(results, reports) + ExitScore(results) + RelayScore(results)) \div 3
=============================================================================

---------------------------- MODULE Measurements ----------------------------
(***************************************************************************)
(* What the eight measurement modules of probe-core (modules/*.py) ask the *)
(* network, how often they ask again, and what they conclude from what     *)
(* comes back.  A question is one kind of attempt a module makes against   *)
(* its target, a reply is what that attempt runs into, and asked has of    *)
(* every question the attempts made so far, as records with a reply.  Each *)
(* module has one target of each kind; questions the code sends at once    *)
(* are listed in the order of its results.                                 *)
(***************************************************************************)
EXTENDS Integers, Sequences, SequencesExt, FiniteSets

CONSTANT Repeats   \* RUNS_COUNT: attempts of the tcp, tls and http modules

ASSUME MeasurementsAssumption == Repeats \in Nat \ {0}

Is(verdict, method) == [verdict |-> verdict, method |-> method]
Ok == Is("OK", "none")
Inconclusive == Is("INCONCLUSIVE", "none")
Anomaly == Is("ANOMALY", "none")
Error == Is("ERROR", "none")
Blocked(method) == Is("BLOCKED", method)

Replies(asked, question) == [i \in DOMAIN asked[question] |-> asked[question][i].reply]
Reply(asked, question) == Last(Replies(asked, question))

-----------------------------------------------------------------------------
(* tcp: every attempt is made, and the majority decides. *)

TcpOutcome == [open |-> Ok, timeout |-> Blocked("ip_dropped"),
               fastReset |-> Blocked("tcp_rst_injection"),
               reset |-> Blocked("tcp_refused"), otherError |-> Error]

Severity == [BLOCKED |-> 0, THROTTLED |-> 1, ANOMALY |-> 2, HANDSHAKE_ONLY |-> 3,
             ERROR |-> 4, SERVER_REFUSED |-> 5, INCONCLUSIVE |-> 6, OK |-> 7]

\* Mutant: any blocked attempt decides.
MajorityIfNoneBlocked(outcomes) ==
  LET Gravest(i) == \A j \in DOMAIN outcomes :
                      Severity[outcomes[i].verdict] <= Severity[outcomes[j].verdict]
  IN outcomes[CHOOSE i \in DOMAIN outcomes : Gravest(i)]
\* Mutant: a tie goes to the outcome that came first.
MajorityFirstCame(outcomes) ==
  LET Count(o) == Cardinality({i \in DOMAIN outcomes : outcomes[i] = o})
      Unbeaten(i) == \A j \in DOMAIN outcomes : Count(outcomes[j]) <= Count(outcomes[i])
  IN outcomes[CHOOSE i \in DOMAIN outcomes :
                Unbeaten(i) /\ \A j \in DOMAIN outcomes : Unbeaten(j) => i <= j]
\* The most frequent outcome, of these the one of the gravest verdict, and of
\* these the one that came first.
Majority(outcomes) ==
  LET Count(o) == Cardinality({i \in DOMAIN outcomes : outcomes[i] = o})
      Wins(o, p) == \/ Count(o) > Count(p)
                    \/ /\ Count(o) = Count(p)
                       /\ Severity[o.verdict] < Severity[p.verdict]
      Unbeaten(i) == \A j \in DOMAIN outcomes : ~ Wins(outcomes[j], outcomes[i])
  IN outcomes[CHOOSE i \in DOMAIN outcomes :
                Unbeaten(i) /\ \A j \in DOMAIN outcomes : Unbeaten(j) => i <= j]

TcpResult(asked, vantage) ==
  LET replies == Replies(asked, "syn")
      found == Majority([i \in DOMAIN replies |-> TcpOutcome[replies[i]]])
  IN IF found.method = "tcp_rst_injection" /\ ~ vantage
       THEN Blocked("tcp_refused")
       ELSE found

-----------------------------------------------------------------------------
(* tls: the first handshake that succeeds decides, otherwise the last one. *)

TlsOutcome == [done |-> Ok, reset |-> Blocked("tcp_rst_after_tls_ch"),
               timeout |-> Blocked("ip_dropped"), hung |-> Blocked("ip_dropped"),
               alert |-> Is("ANOMALY", "tls_handshake_failure"),
               untrusted |-> Is("ANOMALY", "tls_handshake_failure"),
               otherError |-> Anomaly]

\* Mutant: a server that rejects the neutral SNI counts as unreachable.
NeutralAccepted(asked) == Reply(asked, "neutralSni") = "done"
\* The neutral SNI shows that the address is reachable when the handshake is
\* done, or when the server itself rejects it.
NeutralReachable(asked) == Reply(asked, "neutralSni") \in {"done", "alert"}

SniResult(asked) ==
  IF NeutralReachable(asked) /\ Reply(asked, "ownSni") \in {"reset", "timeout"}
    THEN Blocked("tcp_rst_after_tls_ch")
    ELSE TlsOutcome[Reply(asked, "ownSni")]

NeutralResult(asked) ==
  IF Reply(asked, "neutralSni") = "alert"
    THEN Inconclusive
    ELSE Is(TlsOutcome[Reply(asked, "neutralSni")].verdict, "none")

\* "absent" stands for a curl that cannot do ECH, a domain without an ECH
\* configuration, or one that cannot be fetched.
EchOutcome == [done |-> Ok, absent |-> Inconclusive, killed |-> Inconclusive,
               network |-> Blocked("ech_blocked"), otherError |-> Anomaly]

-----------------------------------------------------------------------------
(* http: a response or a final error ends the attempts. *)

Refusals == {"403", "429", "451"}
Statuses == Refusals \cup {"200", "301", "302", "400", "405", "501", "503"}

HttpError == [sslError |-> Blocked("tls_handshake_failure"),
              reset |-> Blocked("tcp_rst_injection"),
              connectError |-> Blocked("ip_dropped"),
              timeout |-> Blocked("ip_dropped"), otherError |-> Error]
HttpRetried == {"connectError", "timeout", "otherError"}

HttpResult(asked) ==
  LET reply == Reply(asked, "get")
  IN CASE reply \in Refusals -> Is("SERVER_REFUSED", "none")
       [] reply \in Statuses \ Refusals -> IF reply = "200" THEN Ok ELSE Anomaly
       [] OTHER -> HttpError[reply]

-----------------------------------------------------------------------------
(* dns: what the system resolver says against what DoH says, and whose    *)
(* certificate the address presents.                                       *)

DohAccess == [address |-> Ok, otherStatus |-> Anomaly, nothing |-> Blocked("doh_blocked")]

DnsResult(asked) ==
  LET system == Reply(asked, "system")
      cert == Reply(asked, "cert")
      agrees == system = Reply(asked, "doh")
      dohAnswers == Reply(asked, "doh") # "nothing"
  IN CASE system = "nxdomain" ->
            IF dohAnswers \/ Reply(asked, "public") = "address"
              THEN Blocked("dns_blocked_nxdomain")
              ELSE Is("INCONCLUSIVE", "dns_blocked_nxdomain")
       [] system = "nothing" -> Inconclusive
       [] system \in {"address", "captive"} ->
            CASE cert = "invalid" -> IF agrees \/ ~ dohAnswers
                                       THEN Anomaly
                                       ELSE Blocked("dns_poisoning")
              [] cert = "valid" -> Ok
              [] cert = "noConnection" -> IF agrees THEN Ok ELSE Inconclusive

-----------------------------------------------------------------------------
(* telegram: data centres and web domains, and a health score over them.   *)

DcOutcome == [open |-> Ok, timeout |-> Blocked("ip_dropped"),
              refused |-> Blocked("tcp_refused"), noRoute |-> Inconclusive,
              reset |-> Blocked("tcp_rst_injection"), otherError |-> Blocked("none")]

\* After a failed TLS handshake the certificate is fetched without checks.
WebOutcome == [page |-> Ok, serverError |-> Anomaly, timeout |-> Blocked("ip_dropped"),
               ownedCert |-> Ok, foreignCert |-> Blocked("tls_handshake_failure"),
               connectError |-> Blocked("ip_dropped"), otherError |-> Error]

\* Percent of the decisive results that are OK, none when there is none.
OkRatio(found) ==
  LET decisive == {i \in DOMAIN found : found[i].verdict # "INCONCLUSIVE"}
      ok == {i \in decisive : found[i].verdict = "OK"}
  IN IF decisive = {} THEN 0 ELSE (100 * Cardinality(ok)) \div Cardinality(decisive)

Health(dcs, web, cdn) ==
  (55 * OkRatio(dcs) + 25 * OkRatio(web) + 20 * OkRatio(cdn)) \div 100

HealthResult(health) ==
  CASE health >= 70 -> Ok
    [] health >= 30 /\ health < 70 -> Anomaly
    [] health < 30 -> Is("BLOCKED", "none")

-----------------------------------------------------------------------------
(* cloudflare *)

QuicResult(reply, vantage) ==
  CASE reply = "datagram" -> Ok
    [] reply = "timeout" -> IF vantage THEN Blocked("quic_dropped") ELSE Inconclusive
    [] reply = "socketError" -> Inconclusive

WarpTcpOutcome == DcOutcome
WarpUdpOutcome == [datagram |-> Ok, timeout |-> Inconclusive, portUnreachable |-> Inconclusive,
                   rejected |-> Blocked("ip_dropped")]

PageResult(reply) ==
  CASE reply \in Refusals -> Is("SERVER_REFUSED", "none")
    [] reply \in Statuses \ Refusals -> IF reply = "200" THEN Ok ELSE Anomaly
    [] reply \in {"timeout", "connectError"} -> Blocked("ip_dropped")
    [] reply = "sslError" -> Blocked("tls_handshake_failure")
    [] reply = "otherError" -> Inconclusive

-----------------------------------------------------------------------------
(* throttling: three downloads from one host, under three names.  A reply  *)
(* is a bandwidth, zero when the download failed.                          *)

Throttled(correct, trigger, typo) ==
  CASE 0 \in {correct, trigger, typo} -> Inconclusive
    [] OTHER -> IF 4 * trigger < correct /\ 4 * trigger < typo
                  THEN Is("THROTTLED", "sni_throttling")
                  ELSE Ok

-----------------------------------------------------------------------------
(* middlebox: requests that a box rewriting HTTP would not pass intact.    *)

Intact(reply, expected) ==
  CASE reply = "nothing" -> Inconclusive
    [] reply = "otherError" -> Error
    [] OTHER -> IF reply \in expected THEN Ok ELSE Is("ANOMALY", "middlebox_http_manipulation")
HeaderCase(reply) == Intact(reply, {"301", "302", "400"})
InvalidLine(reply) == Intact(reply, {"400", "405", "501"})
=============================================================================

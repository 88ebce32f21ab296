------------------------------ MODULE Verdicts ------------------------------
(***************************************************************************)
(* How a verdict comes out of what was counted: ProtocolResult.finalize of *)
(* probe-core's models.py, which the listener's report and the client's    *)
(* cross-verification both call; and how the client combines its own       *)
(* verdict with the listener's.                                            *)
(***************************************************************************)
EXTENDS Naturals

Verdict == {"OK", "HANDSHAKE_ONLY", "BLOCKED", "ERROR", "SERVER_REFUSED"}
NoCap == "no cap"

(* The usability ladder.                                                    *)
Rank == [v \in Verdict |-> IF v = "OK" THEN 2 ELSE IF v = "HANDSHAKE_ONLY" THEN 1 ELSE 0]

(* Data wins over the handshake; where the counters could not be installed  *)
(* a handshake alone is believed.                                           *)
Derived(handshook, dataOk, countersAvailable) ==
  IF dataOk \/ (~countersAvailable /\ handshook) THEN "OK"
  ELSE IF handshook THEN "HANDSHAKE_ONLY" ELSE "BLOCKED"

Finalize(handshook, dataOk, countersAvailable, capAt) ==
  LET v == Derived(handshook, dataOk, countersAvailable)
  IN  IF capAt # NoCap /\ Rank[v] > Rank[capAt] THEN capAt ELSE v

-----------------------------------------------------------------------------
(* What is said of a failed probe, as far as anything depends on it.        *)
NoError == "none"
ASYMMETRIC_DPI_ERROR_MARKERS ==
  {"welcome_read_timeout", "resPQ_len_timeout", "resPQ_body_timeout", "resPQ_truncated"}

Notes == {"", "overread", "dc unreachable", "asymmetric", "listener saw data", "client differs"}

(* _agreed_verdict: the listener wins, unless the client read nothing after *)
(* a handshake that the listener saw.                                       *)
(* Mutant: the listener always wins.                                        *)
AsymmetricNever(client, listener, error) == FALSE
Asymmetric(client, listener, error) ==
  /\ client = "BLOCKED" /\ listener \in {"OK", "HANDSHAKE_ONLY"}
  /\ error \in ASYMMETRIC_DPI_ERROR_MARKERS

Agreed(client, listener, error, dcLost) ==
  CASE client = listener -> [final |-> listener, note |-> ""]
    [] client # listener /\ client = "OK" -> [final |-> listener, note |-> "overread"]
    [] Asymmetric(client, listener, error) ->
         [final |-> "HANDSHAKE_ONLY", note |-> IF dcLost THEN "dc unreachable" ELSE "asymmetric"]
    [] OTHER -> [final |-> listener,
                 note |-> IF listener = "OK" THEN "listener saw data" ELSE "client differs"]
=============================================================================

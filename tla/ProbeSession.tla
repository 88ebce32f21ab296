---------------------------- MODULE ProbeSession ----------------------------
(***************************************************************************)
(* What a probe session promises its operator and its clients, however its *)
(* threads, retries and lost messages interleave: the credentials go to at *)
(* most MaxServes clients, only one of them or the operator ends the       *)
(* session, the listener's view is published once, after that nobody reads *)
(* anything else, and the report is written once and true to all of it.    *)
(***************************************************************************)
EXTENDS Naturals, FiniteSets

CONSTANTS Clients, Protocols, MaxServes, NoSnapshots, NoReport

VARIABLES
  mode,      \* "open", "closing" or "over"
  asked,     \* the operator asked for the end
  started,   \* the protocols that are served
  settled,   \* the protocols whose figures are final
  holders,   \* the clients that came to hold the credentials
  probed,    \* the ones among them that have probed
  measured,  \* what each of them measured
  view,      \* the listener's view of the protocols, once it is published
  read,      \* the view that each client read
  report     \* the report, once it is saved

runVars == <<mode, asked, started, settled>>
clientVars == <<holders, probed, measured>>
outVars == <<view, read, report>>
vars == <<runVars, clientVars, outVars>>

Views == [Protocols -> {"seen", "unseen", "error"}]
Reports == [connected : BOOLEAN, results : [Protocols -> BOOLEAN], throughput : SUBSET Protocols]

Init ==
  /\ mode = "open" /\ asked = FALSE /\ started = {} /\ settled = {}
  /\ holders = {} /\ probed = {} /\ measured = [c \in Clients |-> {}]
  /\ view = NoSnapshots /\ read = [c \in Clients |-> NoSnapshots] /\ report = NoReport

Serve == /\ mode = "open" /\ started = {}
         /\ started' \in (SUBSET Protocols) \ {{}}
         /\ UNCHANGED <<mode, asked, settled, clientVars, outVars>>

Grant(c) == /\ c \notin holders /\ Cardinality(holders) < MaxServes
            /\ holders' = holders \cup {c}
            /\ UNCHANGED <<runVars, probed, measured, outVars>>

Probe(c) == /\ c \in holders \ probed
            /\ probed' = probed \cup {c}
            /\ \E m \in SUBSET Protocols : measured' = [measured EXCEPT ![c] = m]
            /\ UNCHANGED <<runVars, holders, outVars>>

Ask == /\ mode = "open" /\ ~asked
       /\ asked' = TRUE
       /\ UNCHANGED <<mode, started, settled, clientVars, outVars>>

(* The operator, or a client that has probed.                               *)
Close == /\ mode = "open" /\ started # {}
         /\ asked \/ probed # {}
         /\ mode' = "closing"
         /\ UNCHANGED <<asked, started, settled, clientVars, outVars>>

Settle(p) == /\ mode = "closing" /\ view = NoSnapshots
             /\ p \in started \ settled
             /\ settled' = settled \cup {p}
             /\ UNCHANGED <<mode, asked, started, clientVars, outVars>>

Publish == /\ mode = "closing" /\ view = NoSnapshots
           /\ view' \in Views
           /\ UNCHANGED <<runVars, clientVars, read, report>>

Read(c) == /\ c \in probed /\ view # NoSnapshots /\ read[c] = NoSnapshots
           /\ read' = [read EXCEPT ![c] = view]
           /\ UNCHANGED <<runVars, clientVars, view, report>>

(* A report that is true: it says of a settled protocol what the view says, *)
(* and of a session that a client closed that there was one, with its       *)
(* numbers for the protocols that were served.                              *)
True(r) ==
  /\ \A p \in settled : view[p] # "error" => r.results[p] = (view[p] = "seen")
  /\ r.throughput \subseteq started
  /\ ~asked => r.connected /\ \E c \in probed : measured[c] \cap started \subseteq r.throughput

Save == /\ mode = "closing" /\ view # NoSnapshots
        /\ report' \in {r \in Reports : True(r)}
        /\ mode' = "over"
        /\ UNCHANGED <<asked, started, settled, clientVars, view, read>>

(* The process ends without a report.                                       *)
Die == /\ mode # "over"
       /\ mode' = "over"
       /\ UNCHANGED <<asked, started, settled, clientVars, outVars>>

Next == \/ Serve \/ Ask \/ Close \/ Publish \/ Save \/ Die
        \/ \E c \in Clients : Grant(c) \/ Probe(c) \/ Read(c)
        \/ \E p \in Protocols : Settle(p)

Spec == Init /\ [][Next]_vars
=============================================================================

----------------------------- MODULE EchoServer -----------------------------
(***************************************************************************)
(* The listener's echo_server.py for one protocol: its sockets, a handler  *)
(* per connection, and the throughput it measures while the body of        *)
(* /throughput crosses the link, from the byte counter of an iptables rule *)
(* that the responder installs (_responder_base.py) or else from the time  *)
(* the connection takes to close.                                          *)
(*                                                                         *)
(* Time passes in ticks of one poll interval.  Bytes are counted in units, *)
(* of which the link carries at most Rate in a tick.  Between the handler  *)
(* and the link are buffers, the kernel's and the tunnel binary's, that    *)
(* take Buffer units at once.                                              *)
(***************************************************************************)
EXTENDS Naturals, FiniteSets, FiniteSetsExt

CONSTANTS
  Conns,        \* connections that may be made
  N,            \* the body that is asked for, at most _MAX_THROUGHPUT_BYTES
  Rate, Buffer, \* the link, and what is buffered before it
  Samples,      \* _WIRE_THROUGHPUT_QUIESCE_SAMPLES
  MaxPoll,      \* _WIRE_THROUGHPUT_QUIESCE_MAX_SEC
  Timeout,      \* _THROUGHPUT_RESPONSE_TIMEOUT_SEC
  NoReading,    \* the None of read_throughput_bytes
  MaxFaults     \* bound on readings of the counter that fail

ASSUME EchoServerAssumption ==
  /\ IsFiniteSet(Conns)
  /\ {N, Rate, Buffer, Samples, MaxPoll, Timeout} \subseteq Nat \ {0}
  /\ MaxFaults \in Nat
  /\ NoReading \notin Nat

VARIABLES
  via,         \* configuration: "socks" on the loopback or "tun" on the tunnel
  bound,       \* _servers: whether the protocol's socket is open
  echo,        \* main.py: "none", "failed", "up" or "stopped"
  rule, wire,  \* host: the rule and its byte counter
  status,      \* the responder's _throughput_counter_status is not empty
  registered,  \* _throughput_readers
  binary,      \* the tunnel is up
  pc,          \* where each handler is
  queued,      \* of each connection, units written and not yet on the link
  age, waited, \* of each handler, time since t0 and in the current wait
  took,        \* wait_closed_duration
  before,      \* bytes_before
  prev, same,  \* the poll's last reading and how often it came
  figure,      \* throughput_mbps
  faults,      \* failed readings so far
  misread,     \* history: handlers whose first reading failed
  cut          \* how drain and wait_closed fared: "whole", "hung up", or a
               \* timeout of either, "undrained" or "unclosed"

counterVars == <<rule, wire, status, registered>>
hostVars == <<via, bound, echo, counterVars, binary>>
pollVars == <<before, prev, same>>
timeVars == <<age, waited, took>>
historyVars == <<misread, cut>>
vars == <<hostVars, pc, queued, timeVars, pollVars, figure, faults, historyVars>>

NoFigure == [how |-> "none"]
Figures == {NoFigure} \cup [how : {"wire", "closed"}, units : Nat, time : Nat, of : Conns]
Pcs == {"idle", "request", "draining", "closing", "polling", "ending", "done"}
Cuts == {"whole", "hung up", "undrained", "unclosed"}
MaxAge == 2 * Timeout + MaxPoll
MaxWire == Cardinality(Conns) * (N + 1)

TypeOK ==
  /\ via \in {"socks", "tun"} /\ bound \in BOOLEAN /\ echo \in {"none", "failed", "up", "stopped"}
  /\ rule \in BOOLEAN /\ wire \in 0..MaxWire /\ status \in BOOLEAN
  /\ registered \in BOOLEAN /\ binary \in BOOLEAN
  /\ pc \in [Conns -> Pcs] /\ queued \in [Conns -> 0..N]
  /\ age \in [Conns -> 0..MaxAge] /\ waited \in [Conns -> 0..Timeout]
  /\ took \in [Conns -> 0..MaxAge]
  /\ before \in [Conns -> 0..MaxWire \cup {NoReading}]
  /\ prev \in [Conns -> 0..MaxWire] /\ same \in [Conns -> 0..Samples]
  /\ figure \in Figures /\ faults \in 0..MaxFaults
  /\ misread \subseteq Conns
  /\ cut \in [Conns -> Cuts]

Init ==
  /\ via \in {"socks", "tun"} /\ bound = FALSE /\ echo = "none"
  /\ rule = FALSE /\ wire = 0 /\ status = FALSE /\ registered = FALSE /\ binary = FALSE
  /\ pc = [k \in Conns |-> "idle"] /\ queued = [k \in Conns |-> 0]
  /\ age = [k \in Conns |-> 0] /\ waited = [k \in Conns |-> 0]
  /\ took = [k \in Conns |-> 0]
  /\ before = [k \in Conns |-> NoReading]
  /\ prev = [k \in Conns |-> 0] /\ same = [k \in Conns |-> 0]
  /\ figure = NoFigure /\ faults = 0
  /\ misread = {} /\ cut = [k \in Conns |-> "whole"]

-----------------------------------------------------------------------------
(* The sockets and the responder.                                           *)

(* start(): the loopback sockets; one that cannot be opened takes the rest  *)
(* with it, and main.py goes on without an echo server.                     *)
StartEcho ==
  /\ echo = "none" /\ ~binary
  /\ \/ echo' = "up" /\ bound' = (via = "socks")
     \/ echo' = "failed" /\ UNCHANGED bound
  /\ UNCHANGED <<via, counterVars, binary, pc, queued, timeVars, pollVars, figure, faults, historyVars>>

(* SubprocessResponder.start: the rule may not go in, and only with it is   *)
(* the reader registered.  A tunnel responder binds the echo to its address *)
(* instead.                                                                 *)
StartResponder ==
  /\ ~binary /\ ~\E k \in Conns : pc[k] # "idle"
  /\ echo \in {"failed", "up"}
  /\ binary' = TRUE
  /\ \E installed \in {via = "socks", FALSE} :
       /\ rule' = installed /\ status' = installed
       /\ registered' = (installed /\ echo = "up")
  /\ bound' \in {bound, bound \/ (via = "tun" /\ echo = "up")}
  /\ UNCHANGED <<via, echo, wire, pc, queued, timeVars, pollVars, figure, faults, historyVars>>

(* SubprocessResponder.stop: the rule goes, then the status that says so,   *)
(* then the registration with the tunnel itself; or remove_tun_bind.        *)
RemoveRule ==
  /\ binary /\ rule
  /\ rule' = FALSE /\ wire' = 0
  /\ UNCHANGED <<via, bound, echo, status, registered, binary, pc, queued, timeVars, pollVars, figure, faults, historyVars>>

EmptyStatus ==
  /\ binary /\ status /\ ~rule
  /\ status' = FALSE
  /\ UNCHANGED <<via, bound, echo, rule, wire, registered, binary, pc, queued, timeVars, pollVars, figure, faults, historyVars>>

Waiting(k) == pc[k] \in {"draining", "closing"}

(* The handlers of D come to the end of _handle: their locals are gone, the *)
(* connection is closed.                                                    *)
Leave(D) ==
  /\ pc' = [k \in Conns |-> IF k \in D THEN "ending" ELSE pc[k]]
  /\ age' = [k \in Conns |-> IF k \in D THEN 0 ELSE age[k]]
  /\ waited' = [k \in Conns |-> IF k \in D THEN 0 ELSE waited[k]]
  /\ took' = [k \in Conns |-> IF k \in D THEN 0 ELSE took[k]]
  /\ before' = [k \in Conns |-> IF k \in D THEN NoReading ELSE before[k]]
  /\ prev' = [k \in Conns |-> IF k \in D THEN 0 ELSE prev[k]]
  /\ same' = [k \in Conns |-> IF k \in D THEN 0 ELSE same[k]]

(* The connections that came through the tunnel end with it.                *)
StopResponder ==
  /\ binary /\ ~status
  /\ binary' = FALSE /\ registered' = FALSE
  /\ bound' = (bound /\ via = "socks")
  /\ queued' = [k \in Conns |-> 0]
  /\ Leave({k \in Conns : pc[k] \in {"request", "draining"}})
  /\ cut' = [k \in Conns |-> IF Waiting(k) THEN "hung up" ELSE cut[k]]
  /\ UNCHANGED <<via, echo, rule, wire, status, figure, faults, misread>>

StopEcho ==
  /\ echo = "up" /\ ~binary /\ \E k \in Conns : pc[k] # "idle"
  /\ echo' = "stopped" /\ bound' = FALSE
  /\ UNCHANGED <<via, counterVars, binary, pc, queued, timeVars, pollVars, figure, faults, historyVars>>

-----------------------------------------------------------------------------
(* A connection.                                                            *)
Open(k) ==
  /\ pc[k] = "idle" /\ bound /\ binary
  /\ pc' = [pc EXCEPT ![k] = "request"]
  /\ UNCHANGED <<hostVars, queued, timeVars, pollVars, figure, faults, historyVars>>

(* Anything but a well-formed /throughput is answered, with less than what  *)
(* drain() would wait for, and closed; nothing within 3 s is closed.        *)
Answer(k) ==
  /\ pc[k] = "request" /\ Leave({k})
  /\ queued' \in {queued, [queued EXCEPT ![k] = 1]}
  /\ UNCHANGED <<hostVars, figure, faults, historyVars>>

(* read_throughput_bytes: None without a rule, 0 where iptables fails.      *)
Reading(failed) == IF ~status THEN NoReading ELSE IF failed \/ ~rule THEN 0 ELSE wire
ReadingFails(failed) ==
  IF failed THEN status /\ rule /\ faults < MaxFaults /\ faults' = faults + 1
  ELSE UNCHANGED faults

(* _serve_throughput: the first reading, and then the body is written.      *)
(* Mutant: the first reading is taken for zero.                             *)
FirstReadingZero(k, failed) ==
  before' = [before EXCEPT ![k] = IF registered THEN 0 ELSE NoReading]
FirstReading(k, failed) ==
  before' = [before EXCEPT ![k] = IF registered THEN Reading(failed) ELSE NoReading]

ServeThroughput(k) ==
  /\ pc[k] = "request"
  /\ pc' = [pc EXCEPT ![k] = "draining"]
  /\ \E failed \in BOOLEAN :
       /\ registered \/ ~failed
       /\ ReadingFails(failed) /\ FirstReading(k, failed)
       /\ misread' = IF failed \/ (registered /\ ~rule) THEN misread \cup {k} ELSE misread
  /\ queued' = [queued EXCEPT ![k] = N]
  /\ age' = [age EXCEPT ![k] = 0] /\ waited' = [waited EXCEPT ![k] = 0]
  /\ UNCHANGED <<hostVars, took, prev, same, figure, cut>>

(* drain() and wait_closed() are over when the buffers have the rest, or    *)
(* after Timeout; a peer that hangs up breaks the first and ends the second.*)
Drained(k) ==
  /\ pc[k] = "draining" /\ queued[k] <= Buffer
  /\ pc' = [pc EXCEPT ![k] = "closing"] /\ waited' = [waited EXCEPT ![k] = 0]
  /\ UNCHANGED <<hostVars, queued, age, took, pollVars, figure, faults, historyVars>>

HangUp(k) ==
  /\ \/ Waiting(k) /\ cut[k] = "whole" /\ cut' = [cut EXCEPT ![k] = "hung up"]
     \/ pc[k] \in {"polling", "ending"} /\ queued[k] > 0 /\ UNCHANGED cut
  /\ queued' = [queued EXCEPT ![k] = 0]
  /\ Leave({k} \cap {c \in Conns : pc[c] = "draining"})
  /\ UNCHANGED <<hostVars, figure, faults, misread>>

(* _record_wait_closed_throughput: what the buffers took at once is no      *)
(* measurement.                                                             *)
RecordWaitClosed(k, duration) ==
  figure' = IF duration = 0 THEN NoFigure
            ELSE [how |-> "closed", units |-> N, time |-> duration, of |-> k]

(* The wait is over, and how long it took is noted: the counter is polled   *)
(* if there was a first reading.                                            *)
(* Mutant: a wait without a timeout.                                        *)
OutlastsNever(k) == FALSE
Outlasts(k) == waited[k] = Timeout

Measure(k) ==
  /\ Waiting(k)
  /\ \/ pc[k] = "closing" /\ queued[k] <= Buffer /\ UNCHANGED cut
     \/ /\ Outlasts(k)
        /\ cut' = [cut EXCEPT ![k] = IF pc[k] = "closing" THEN "unclosed" ELSE "undrained"]
  /\ IF before[k] # NoReading
     THEN /\ pc' = [pc EXCEPT ![k] = "polling"] /\ took' = [took EXCEPT ![k] = age[k]]
          /\ prev' = [prev EXCEPT ![k] = before[k]] /\ same' = [same EXCEPT ![k] = 0]
          /\ waited' = [waited EXCEPT ![k] = 0] /\ UNCHANGED <<age, before, figure>>
     ELSE Leave({k}) /\ RecordWaitClosed(k, age[k])
  /\ UNCHANGED <<hostVars, queued, faults, misread>>

(* _measure_throughput_via_counter.                                         *)
Counted(k, total) ==
  figure' = IF total <= before[k] \/ age[k] = 0 THEN NoFigure
            ELSE [how |-> "wire", units |-> total - before[k], time |-> age[k], of |-> k]

(* The deadline passed before the first poll: no delta.                     *)
TooLate(k) ==
  /\ pc[k] = "polling" /\ waited[k] = 0 /\ age[k] >= MaxPoll
  /\ Leave({k}) /\ Counted(k, before[k])
  /\ UNCHANGED <<hostVars, queued, faults, historyVars>>

(* A poll, one tick after the last: without a reading the figure is the     *)
(* other one; otherwise the counter has come to rest, or time is up, or not.*)
Poll(k) ==
  /\ pc[k] = "polling" /\ waited[k] = 1
  /\ \E failed \in BOOLEAN :
       LET total == Reading(failed)
           count == IF total = prev[k] THEN same[k] + 1 ELSE 0
       IN  /\ ReadingFails(failed)
           /\ IF total = NoReading
              THEN Leave({k}) /\ RecordWaitClosed(k, took[k])
              ELSE IF count = Samples \/ age[k] >= MaxPoll
              THEN Leave({k}) /\ Counted(k, total)
              ELSE /\ prev' = [prev EXCEPT ![k] = total] /\ same' = [same EXCEPT ![k] = count]
                   /\ waited' = [waited EXCEPT ![k] = 0]
                   /\ UNCHANGED <<pc, age, took, before, figure>>
  /\ UNCHANGED <<hostVars, queued, misread, cut>>

(* The finally of _handle closes and awaits wait_closed() without a         *)
(* timeout: the buffers must take the rest, or the peer hang up.  A         *)
(* wait_closed() that timed out before has cancelled what this one awaits,  *)
(* which raises at once.                                                    *)
CanEnd(k) == pc[k] = "ending" /\ (queued[k] <= Buffer \/ cut[k] = "unclosed")

End(k) ==
  /\ CanEnd(k)
  /\ pc' = [pc EXCEPT ![k] = "done"]
  /\ UNCHANGED <<hostVars, queued, timeVars, pollVars, figure, faults, historyVars>>

-----------------------------------------------------------------------------
(* A tick: the link carries what it can or less, and nobody who has         *)
(* something to do oversleeps.                                              *)
(* Mutant: no wait has an end.                                              *)
DueNever(k) == FALSE
Due(k) == \/ Waiting(k) /\ (waited[k] = Timeout \/ cut[k] = "hung up")
          \/ pc[k] = "polling" /\ (waited[k] = 1 \/ age[k] >= MaxPoll)
          \/ CanEnd(k)
Timed(k) == pc[k] \in {"draining", "closing", "polling"}

Units(out) == FoldSet(LAMBDA k, sum : sum + out[k], 0, Conns)
Carried == {out \in [Conns -> 0..Rate] :
              (\A k \in Conns : out[k] <= queued[k]) /\ Units(out) <= Rate}

Tick ==
  /\ \E k \in Conns : Timed(k) \/ pc[k] = "ending"
  /\ ~\E k \in Conns : Due(k)
  /\ \E out \in Carried :
       /\ queued' = [k \in Conns |-> queued[k] - out[k]]
       /\ wire' = IF rule THEN wire + Units(out) ELSE wire
  /\ age' = [k \in Conns |-> IF Timed(k) THEN age[k] + 1 ELSE age[k]]
  /\ waited' = [k \in Conns |-> IF Timed(k) THEN waited[k] + 1 ELSE waited[k]]
  /\ UNCHANGED <<via, bound, echo, rule, status, registered, binary, pc, took, pollVars, figure, faults, misread, cut>>

Over == echo \in {"failed", "stopped"} /\ UNCHANGED vars

HandlerStep(k) ==
  \/ Answer(k) \/ ServeThroughput(k) \/ Drained(k) \/ Measure(k) \/ TooLate(k) \/ Poll(k) \/ End(k)
ResponderStep == StartResponder \/ RemoveRule \/ EmptyStatus \/ StopResponder
Next ==
  \/ StartEcho \/ StopEcho \/ ResponderStep
  \/ \E k \in Conns : Open(k) \/ HangUp(k) \/ HandlerStep(k)
  \/ Tick \/ Over

Spec == Init /\ [][Next]_vars

(* Handlers run, and time passes for those who wait for it; nothing makes a *)
(* peer read.                                                               *)
FairSpec == Spec /\ WF_vars(Tick /\ \E k \in Conns : Timed(k)) /\ \A k \in Conns : WF_vars(HandlerStep(k))

-----------------------------------------------------------------------------
(* A figure is never faster than the link: a wire figure whose first        *)
(* reading did not fail, and, but for what the buffers took, the time of a  *)
(* connection that closed by itself.  Not even two measurements at once,    *)
(* which read one counter, make it so.                                      *)
FigureIsLinkRate ==
  /\ figure.how = "wire" /\ figure.of \notin misread => figure.units <= Rate * figure.time
  /\ figure.how = "closed" /\ cut[figure.of] = "whole" =>
       figure.units <= Rate * figure.time + Buffer

(* Every handler ends, whatever its peer does; but one whose drain() timed  *)
(* out may wait for ever, in the last wait_closed(), for a peer that        *)
(* neither reads nor hangs up.  It has taken its figure by then.            *)
HandlersEnd ==
  \A k \in Conns :
    pc[k] = "request" ~> pc[k] = "done" \/ (pc[k] = "ending" /\ cut[k] = "undrained")
=============================================================================

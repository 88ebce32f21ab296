------------------------- MODULE EchoServer_proofs -------------------------
(***************************************************************************)
(* TypeOK and FigureIsLinkRate for any number of connections, any body,    *)
(* link, buffer and timeout.  The counter is bounded because every unit on *)
(* the link was asked for by a connection that is made once; a figure is,  *)
(* because the counter and the queues move by Rate at most while the age   *)
(* of a measurement moves by one.                                          *)
(***************************************************************************)
EXTENDS EchoServer, SumLemmas

\* Types that hold as they stand.
HostTypeOK ==
  /\ via \in {"socks", "tun"} /\ bound \in BOOLEAN /\ echo \in {"none", "failed", "up", "stopped"}
  /\ rule \in BOOLEAN /\ status \in BOOLEAN
  /\ registered \in BOOLEAN /\ binary \in BOOLEAN
  /\ figure \in Figures /\ faults \in 0..MaxFaults
  /\ misread \subseteq Conns
  /\ cut \in [Conns -> Cuts]
LocalTypeOK ==
  /\ wire \in Nat
  /\ pc \in [Conns -> Pcs] /\ queued \in [Conns -> 0..N]
  /\ age \in [Conns -> 0..MaxAge] /\ waited \in [Conns -> 0..Timeout]
  /\ took \in [Conns -> 0..MaxAge]
  /\ before \in [Conns -> Nat \cup {NoReading}]
  /\ prev \in [Conns -> Nat] /\ same \in [Conns -> 0..Samples]

\* The clocks of a handler: one Timeout for drain, one for wait_closed, and
\* a poll that ends at MaxPoll.
Clocks(k) ==
  /\ pc[k] \in {"idle", "request"} => queued[k] = 0
  /\ pc[k] = "draining" => age[k] = waited[k]
  /\ pc[k] = "closing" => age[k] <= Timeout + waited[k]
  /\ pc[k] = "polling" => before[k] # NoReading /\ same[k] < Samples /\ waited[k] <= 1

\* What a connection may still send.
Left == [k \in Conns |-> IF pc[k] \in {"idle", "request"} THEN N ELSE queued[k]]
\* The counter has counted no more than was asked for.
WireBound == wire + SumOver(Left, Conns) <= Cardinality(Conns) * N
\* And no reading was ever more.
ReadingBound ==
  \A k \in Conns : /\ before[k] # NoReading => before[k] <= MaxWire
                   /\ prev[k] <= MaxWire

\* The counter, since the first reading of a measurement.
WireRate(k) ==
  Timed(k) /\ before[k] # NoReading /\ k \notin misread => wire <= before[k] + Rate * age[k]
\* The queue of a connection that nobody cut, since its body was written.
QueueRate(k) ==
  cut[k] = "whole" =>
    /\ Waiting(k) => N <= queued[k] + Rate * age[k]
    /\ pc[k] = "polling" => N <= Rate * took[k] + Buffer
\* Who took the figure is done with its connection.
FigureOver == figure.how # "none" => pc[figure.of] \in {"ending", "done"}

EchoInv ==
  /\ HostTypeOK /\ LocalTypeOK
  /\ \A k \in Conns : Clocks(k) /\ WireRate(k) /\ QueueRate(k)
  /\ WireBound /\ ReadingBound /\ FigureOver /\ FigureIsLinkRate

TypeInv == HostTypeOK /\ LocalTypeOK /\ \A k \in Conns : Clocks(k)

\* The constants, and the ends of the intervals.
LEMMA Numbers ==
  /\ N \in Nat /\ Rate \in Nat /\ Samples \in Nat /\ MaxPoll \in Nat /\ Timeout \in Nat
  /\ N > 0 /\ Rate > 0 /\ Samples > 0 /\ MaxPoll > 0 /\ Timeout > 0
  /\ Buffer \in Nat /\ Buffer > 0 /\ MaxFaults \in Nat /\ NoReading \notin Nat
  /\ MaxAge \in Nat /\ MaxAge = Timeout + Timeout + MaxPoll
BY EchoServerAssumption DEF MaxAge

LEMMA Zeros ==
  /\ 0 \in 0..MaxAge /\ 0 \in 0..Timeout /\ 0 \in 0..Samples /\ 0 \in 0..N /\ 1 \in 0..N /\ N \in 0..N
  /\ 0 \in Nat
BY Numbers

\* The units of a tick are at most Rate.
LEMMA UnitsAre ==
  ASSUME NEW out \in Carried, \A k \in Conns : queued[k] \in Nat
  PROVE  /\ Units(out) = SumOver(out, Conns) /\ Units(out) \in 0..Rate
         /\ \A k \in Conns : out[k] \in 0..Rate /\ out[k] <= queued[k] /\ queued[k] - out[k] \in 0..queued[k]
<1>1. Units(out) = SumOver(out, Conns)
  BY DEF Units, SumOver
<1>2. \A k \in Conns : out[k] \in 0..Rate /\ out[k] <= queued[k]
  BY DEF Carried
<1>3. SumOver(out, Conns) \in Nat
  BY <1>2, SumType, EchoServerAssumption, Numbers
<1>4. Units(out) <= Rate
  BY DEF Carried
<1> QED
  BY <1>1, <1>2, <1>3, <1>4, Numbers

\* A reading is the counter, zero or none.
LEMMA Readings ==
  ASSUME NEW failed \in BOOLEAN
  PROVE  Reading(failed) \in {NoReading, 0, wire}
BY DEF Reading

\* The locals of a handler at the end of _handle, and of one that goes on.
Gone(k) == pc'[k] = "ending" /\ before'[k] = NoReading /\ prev'[k] = 0
Keeps(k) == /\ pc'[k] = pc[k] /\ age'[k] = age[k] /\ waited'[k] = waited[k] /\ took'[k] = took[k]
            /\ before'[k] = before[k] /\ prev'[k] = prev[k] /\ same'[k] = same[k]

LEMMA LeaveLocals ==
  ASSUME LocalTypeOK, NEW D, Leave(D)
  PROVE  /\ pc' \in [Conns -> Pcs] /\ age' \in [Conns -> 0..MaxAge] /\ waited' \in [Conns -> 0..Timeout]
         /\ took' \in [Conns -> 0..MaxAge]
         /\ before' \in [Conns -> Nat \cup {NoReading}]
         /\ prev' \in [Conns -> Nat] /\ same' \in [Conns -> 0..Samples]
         /\ \A k \in Conns : (k \in D => Gone(k)) /\ (k \notin D => Keeps(k))
BY Numbers DEF Leave, LocalTypeOK, Pcs, Gone, Keeps

\* They leave the clocks as they should be.
LEMMA LeaveClocks ==
  ASSUME LocalTypeOK, NEW D, Leave(D), NEW j \in Conns, Clocks(j),
         j \in D \/ queued'[j] \in {0, queued[j]}
  PROVE  Clocks(j)'
<1>1. (j \in D => Gone(j)) /\ (j \notin D => Keeps(j))
  BY LeaveLocals
<1>2. CASE j \in D
  <2>1. pc'[j] = "ending"
    BY <1>1, <1>2 DEF Gone
  <2> QED BY <2>1 DEF Clocks
<1>3. CASE j \notin D
  <2>1. Keeps(j) /\ queued'[j] \in {0, queued[j]}
    BY <1>1, <1>3
  <2>2. pc'[j] \in {"idle", "request"} => queued'[j] = 0
    BY <2>1 DEF Clocks, Keeps
  <2> QED BY <2>1, <2>2 DEF Clocks, Keeps
<1> QED
  BY <1>2, <1>3

\* Only so many readings fail.
LEMMA FaultsType ==
  ASSUME HostTypeOK, NEW failed \in BOOLEAN, ReadingFails(failed)
  PROVE  faults' \in 0..MaxFaults
<1>1. CASE failed = TRUE
  <2>1. faults < MaxFaults /\ faults' = faults + 1
    BY <1>1 DEF ReadingFails
  <2>2. faults \in 0..MaxFaults
    BY DEF HostTypeOK
  <2> QED BY <2>1, <2>2, Numbers
<1>2. CASE failed = FALSE
  <2>1. faults' = faults
    BY <1>2 DEF ReadingFails
  <2> QED BY <2>1 DEF HostTypeOK
<1> QED
  BY <1>1, <1>2

\* A figure is one.
LEMMA ClosedFigure ==
  ASSUME LocalTypeOK, NEW k \in Conns, NEW duration \in Nat, RecordWaitClosed(k, duration)
  PROVE  /\ figure' \in Figures
         /\ figure'.how \in {"none", "closed"}
         /\ figure'.how = "closed" => /\ figure'.of = k /\ figure'.units = N
                                      /\ figure'.time = duration
<1>1. N \in Nat
  BY Numbers
<1>2. NoFigure.how = "none"
  BY DEF NoFigure
<1>3. CASE duration = 0
  <2>1. figure' = NoFigure
    BY <1>3 DEF RecordWaitClosed
  <2> QED BY <2>1, <1>2 DEF Figures
<1>4. CASE duration # 0
  <2>1. figure' = [how |-> "closed", units |-> N, time |-> duration, of |-> k]
    BY <1>4 DEF RecordWaitClosed
  <2> QED BY <2>1, <1>1 DEF Figures
<1> QED
  BY <1>3, <1>4

LEMMA WireFigure ==
  ASSUME LocalTypeOK, NEW k \in Conns, NEW total \in Nat, before[k] # NoReading, Counted(k, total)
  PROVE  /\ figure' \in Figures
         /\ figure'.how \in {"none", "wire"}
         /\ figure'.how = "wire" => /\ figure'.of = k /\ total > before[k]
                                    /\ figure'.units = total - before[k]
                                    /\ figure'.time = age[k]
<1>1. age[k] \in Nat /\ before[k] \in Nat
  BY Numbers DEF LocalTypeOK
<1>2. NoFigure.how = "none"
  BY DEF NoFigure
<1>3. CASE total <= before[k] \/ age[k] = 0
  <2>1. figure' = NoFigure
    BY <1>3 DEF Counted
  <2> QED BY <2>1, <1>2 DEF Figures
<1>4. CASE ~(total <= before[k] \/ age[k] = 0)
  <2>1. figure' = [how |-> "wire", units |-> total - before[k], time |-> age[k], of |-> k]
    BY <1>4 DEF Counted
  <2>2. total - before[k] \in Nat /\ total > before[k]
    BY <1>1, <1>4
  <2> QED BY <2>1, <2>2, <1>1 DEF Figures
<1> QED
  BY <1>3, <1>4

LEMMA TypeStep ==
  ASSUME TypeInv, [Next]_vars
  PROVE  TypeInv'
<1>1. /\ HostTypeOK /\ LocalTypeOK /\ \A k \in Conns : Clocks(k)
  BY DEF TypeInv
<1>2. CASE StartEcho
  BY <1>1, Zeros, <1>2 DEF StartEcho, TypeInv, HostTypeOK, LocalTypeOK, Clocks, counterVars, timeVars, pollVars, historyVars
<1>3. CASE StopEcho
  BY <1>1, Zeros, <1>3 DEF StopEcho, TypeInv, HostTypeOK, LocalTypeOK, Clocks, counterVars, timeVars, pollVars, historyVars
<1>4. CASE StartResponder
  BY <1>1, Zeros, <1>4 DEF StartResponder, TypeInv, HostTypeOK, LocalTypeOK, Clocks, timeVars, pollVars, historyVars
<1>5. CASE RemoveRule
  BY <1>1, Zeros, <1>5 DEF RemoveRule, TypeInv, HostTypeOK, LocalTypeOK, Clocks, timeVars, pollVars, historyVars
<1>6. CASE EmptyStatus
  BY <1>1, Zeros, <1>6 DEF EmptyStatus, TypeInv, HostTypeOK, LocalTypeOK, Clocks, timeVars, pollVars, historyVars
<1>7. CASE StopResponder
  <2>1. HostTypeOK'
    BY <1>1, Zeros, <1>7, LeaveLocals DEF Gone, Keeps, StopResponder, Waiting, Cuts, HostTypeOK, LocalTypeOK, Clocks, hostVars, counterVars
  <2>2. LocalTypeOK'
    BY <1>1, Zeros, <1>7, LeaveLocals DEF Gone, Keeps, StopResponder, Waiting, Pcs, HostTypeOK, LocalTypeOK, Clocks, hostVars, counterVars
  <2>3. ASSUME NEW j \in Conns PROVE Clocks(j)'
    <3>1. queued'[j] = 0
      BY <1>7 DEF StopResponder
    <3>2. PICK D : Leave(D)
      BY <1>7 DEF StopResponder
    <3> QED BY <1>1, <3>1, <3>2, LeaveClocks
  <2> QED
    BY <2>1, <2>2, <2>3 DEF TypeInv
<1>8. ASSUME NEW k \in Conns, Open(k) PROVE TypeInv'
  <2>1. HostTypeOK'
    BY <1>1, Zeros, <1>8 DEF Open, timeVars, pollVars, historyVars, HostTypeOK, LocalTypeOK, Clocks, hostVars, counterVars
  <2>2. LocalTypeOK'
    BY <1>1, Zeros, <1>8 DEF Open, timeVars, pollVars, historyVars, Pcs, HostTypeOK, LocalTypeOK, Clocks, hostVars, counterVars
  <2>3. ASSUME NEW j \in Conns PROVE Clocks(j)'
    BY <1>1, Zeros, <1>8, <2>3 DEF Open, timeVars, pollVars, historyVars, Pcs, LocalTypeOK, Clocks
  <2> QED
    BY <2>1, <2>2, <2>3 DEF TypeInv
<1>9. ASSUME NEW k \in Conns, HangUp(k) PROVE TypeInv'
  <2>1. HostTypeOK'
    BY <1>1, Zeros, <1>9, LeaveLocals DEF Gone, Keeps, HangUp, Waiting, Cuts, HostTypeOK, LocalTypeOK, Clocks, hostVars, counterVars
  <2>2. LocalTypeOK'
    BY <1>1, Zeros, <1>9, LeaveLocals DEF Gone, Keeps, HangUp, Waiting, Pcs, HostTypeOK, LocalTypeOK, Clocks, hostVars, counterVars
  <2>3. ASSUME NEW j \in Conns PROVE Clocks(j)'
    <3>1. queued'[j] \in {0, queued[j]}
      BY <1>1, <1>9 DEF HangUp, LocalTypeOK
    <3>2. PICK D : Leave(D)
      BY <1>9 DEF HangUp
    <3> QED BY <1>1, <3>1, <3>2, LeaveClocks
  <2> QED
    BY <2>1, <2>2, <2>3 DEF TypeInv
<1>10. ASSUME NEW k \in Conns, Answer(k) PROVE TypeInv'
  <2>1. HostTypeOK'
    BY <1>1, Zeros, <1>10, LeaveLocals DEF Gone, Keeps, Answer, historyVars, HostTypeOK, LocalTypeOK, Clocks, hostVars, counterVars
  <2>2. LocalTypeOK'
    BY <1>1, Zeros, <1>10, LeaveLocals DEF Gone, Keeps, Answer, historyVars, Pcs, HostTypeOK, LocalTypeOK, Clocks, hostVars, counterVars
  <2>3. ASSUME NEW j \in Conns PROVE Clocks(j)'
    <3>1. j \in {k} \/ queued'[j] \in {0, queued[j]}
      BY <1>1, <1>10 DEF Answer, LocalTypeOK
    <3>2. Leave({k})
      BY <1>10 DEF Answer
    <3> QED BY <1>1, <3>1, <3>2, LeaveClocks
  <2> QED
    BY <2>1, <2>2, <2>3 DEF TypeInv
<1>11. ASSUME NEW k \in Conns, ServeThroughput(k) PROVE TypeInv'
  <2>0. /\ pc' = [pc EXCEPT ![k] = "draining"] /\ queued' = [queued EXCEPT ![k] = N]
        /\ age' = [age EXCEPT ![k] = 0] /\ waited' = [waited EXCEPT ![k] = 0]
        /\ UNCHANGED <<hostVars, took, prev, same, figure, cut>>
    BY <1>11 DEF ServeThroughput
  <2>1. faults' \in 0..MaxFaults /\ misread' \subseteq Conns
    BY <1>1, <1>11, FaultsType DEF ServeThroughput, HostTypeOK
  <2>2. \E failed \in BOOLEAN : FirstReading(k, failed)
    BY <1>11 DEF ServeThroughput
  <2>3. before' \in [Conns -> Nat \cup {NoReading}] /\ \A j \in Conns : j # k => before'[j] = before[j]
    BY <1>1, <2>2, Zeros, Readings DEF FirstReading, LocalTypeOK
  <2>4. HostTypeOK'
    BY <1>1, <2>0, <2>1 DEF HostTypeOK, hostVars, counterVars
  <2>5. LocalTypeOK'
    BY <1>1, <2>0, <2>3, Zeros DEF Pcs, LocalTypeOK, hostVars, counterVars
  <2>6. ASSUME NEW j \in Conns PROVE Clocks(j)'
    BY <1>1, <2>0, <2>3, <2>6 DEF LocalTypeOK, Clocks
  <2> QED
    BY <2>4, <2>5, <2>6 DEF TypeInv
<1>12. ASSUME NEW k \in Conns, Drained(k) PROVE TypeInv'
  <2>1. HostTypeOK'
    BY <1>1, <1>12 DEF Drained, historyVars, HostTypeOK, hostVars, counterVars
  <2>2. LocalTypeOK'
    BY <1>1, Zeros, <1>12 DEF Drained, pollVars, Pcs, LocalTypeOK, hostVars, counterVars
  <2>3. ASSUME NEW j \in Conns PROVE Clocks(j)'
    BY <1>1, Numbers, <1>12 DEF Drained, pollVars, LocalTypeOK, Clocks
  <2> QED
    BY <2>1, <2>2, <2>3 DEF TypeInv
<1>13. ASSUME NEW k \in Conns, Measure(k) PROVE TypeInv'
  <2>0. /\ UNCHANGED <<hostVars, queued, faults, misread>> /\ Waiting(k)
        /\ \E how \in Cuts : cut' \in {cut, [cut EXCEPT ![k] = how]}
    BY <1>13 DEF Measure, Cuts
  <2>a. age[k] \in Nat
    BY <1>1, Numbers DEF LocalTypeOK
  <2>1. CASE before[k] # NoReading
    <3>1. /\ pc' = [pc EXCEPT ![k] = "polling"] /\ took' = [took EXCEPT ![k] = age[k]]
          /\ prev' = [prev EXCEPT ![k] = before[k]] /\ same' = [same EXCEPT ![k] = 0]
          /\ waited' = [waited EXCEPT ![k] = 0] /\ UNCHANGED <<age, before, figure>>
      BY <1>13, <2>1 DEF Measure
    <3>2. HostTypeOK'
      BY <1>1, <2>0, <3>1 DEF HostTypeOK, hostVars, counterVars
    <3>3. LocalTypeOK'
      BY <1>1, <2>0, <2>1, <3>1, Zeros DEF Pcs, LocalTypeOK, hostVars, counterVars
    <3>4. ASSUME NEW j \in Conns PROVE Clocks(j)'
      <4>1. CASE j = k
        <5>1. /\ pc'[j] = "polling" /\ before'[j] # NoReading
              /\ same'[j] = 0 /\ waited'[j] = 0
          BY <1>1, <2>1, <3>1, <4>1 DEF LocalTypeOK
        <5> QED BY <5>1, Numbers DEF Clocks
      <4>2. CASE j # k
        <5>1. /\ pc'[j] = pc[j] /\ before'[j] = before[j] /\ same'[j] = same[j]
              /\ waited'[j] = waited[j] /\ age'[j] = age[j] /\ queued'[j] = queued[j]
          BY <1>1, <2>0, <3>1, <4>2 DEF LocalTypeOK
        <5> QED BY <1>1, <5>1 DEF Clocks
      <4> QED BY <4>1, <4>2
    <3> QED
      BY <3>2, <3>3, <3>4 DEF TypeInv
  <2>2. CASE before[k] = NoReading
    <3>1. Leave({k}) /\ RecordWaitClosed(k, age[k])
      BY <1>13, <2>2 DEF Measure
    <3>2. HostTypeOK'
      BY <1>1, <2>0, <2>a, <3>1, ClosedFigure DEF HostTypeOK, hostVars, counterVars
    <3>3. LocalTypeOK'
      BY <1>1, <2>0, <3>1, LeaveLocals DEF Gone, Keeps, LocalTypeOK, hostVars, counterVars
    <3>4. ASSUME NEW j \in Conns PROVE Clocks(j)'
      BY <1>1, <2>0, <3>1, LeaveClocks
    <3> QED
      BY <3>2, <3>3, <3>4 DEF TypeInv
  <2> QED
    BY <2>1, <2>2
<1>14. ASSUME NEW k \in Conns, TooLate(k) PROVE TypeInv'
  <2>0. Leave({k}) /\ Counted(k, before[k]) /\ UNCHANGED <<hostVars, queued, faults, historyVars>>
    BY <1>14 DEF TooLate
  <2>1. before[k] \in Nat /\ before[k] # NoReading
    BY <1>1, <1>14 DEF TooLate, Clocks, LocalTypeOK
  <2>2. HostTypeOK'
    BY <1>1, <2>0, <2>1, WireFigure DEF HostTypeOK, hostVars, counterVars, historyVars
  <2>3. LocalTypeOK'
    BY <1>1, <2>0, LeaveLocals DEF Gone, Keeps, LocalTypeOK, hostVars, counterVars
  <2>4. ASSUME NEW j \in Conns PROVE Clocks(j)'
    BY <1>1, <2>0, LeaveClocks
  <2> QED
    BY <2>2, <2>3, <2>4 DEF TypeInv
<1>15. ASSUME NEW k \in Conns, Poll(k) PROVE TypeInv'
  <2> DEFINE total(failed) == Reading(failed)
             count(failed) == IF total(failed) = prev[k] THEN same[k] + 1 ELSE 0
  <2>0. PICK failed \in BOOLEAN :
          /\ ReadingFails(failed)
          /\ IF total(failed) = NoReading
             THEN Leave({k}) /\ RecordWaitClosed(k, took[k])
             ELSE IF count(failed) = Samples \/ age[k] >= MaxPoll
             THEN Leave({k}) /\ Counted(k, total(failed))
             ELSE /\ prev' = [prev EXCEPT ![k] = total(failed)]
                  /\ same' = [same EXCEPT ![k] = count(failed)]
                  /\ waited' = [waited EXCEPT ![k] = 0]
                  /\ UNCHANGED <<pc, age, took, before, figure>>
    BY <1>15 DEF Poll
  <2>1. UNCHANGED <<hostVars, queued, misread, cut>> /\ pc[k] = "polling"
    BY <1>15 DEF Poll
  <2>2. before[k] # NoReading /\ same[k] < Samples
    BY <1>1, <2>1 DEF Clocks
  <2>3. total(failed) \in Nat \cup {NoReading}
    BY <1>1, Readings, Zeros DEF LocalTypeOK
  <2>4. faults' \in 0..MaxFaults
    BY <1>1, <2>0, FaultsType
  <2> HIDE DEF total
  <2>5. CASE total(failed) = NoReading
    <3>1. Leave({k}) /\ RecordWaitClosed(k, took[k])
      BY <2>0, <2>5
    <3>a. took[k] \in Nat
      BY <1>1, Numbers DEF LocalTypeOK
    <3>2. HostTypeOK'
      BY <1>1, <2>1, <2>4, <3>1, <3>a, ClosedFigure DEF HostTypeOK, hostVars, counterVars
    <3>3. LocalTypeOK'
      BY <1>1, <2>1, <3>1, LeaveLocals DEF Gone, Keeps, LocalTypeOK, hostVars, counterVars
    <3>4. ASSUME NEW j \in Conns PROVE Clocks(j)'
      BY <1>1, <2>1, <3>1, LeaveClocks
    <3> QED
      BY <3>2, <3>3, <3>4 DEF TypeInv
  <2>6. CASE total(failed) # NoReading /\ (count(failed) = Samples \/ age[k] >= MaxPoll)
    <3>1. Leave({k}) /\ Counted(k, total(failed)) /\ total(failed) \in Nat
      BY <2>0, <2>3, <2>6
    <3>2. HostTypeOK'
      BY <1>1, <2>1, <2>2, <2>4, <3>1, WireFigure DEF HostTypeOK, hostVars, counterVars
    <3>3. LocalTypeOK'
      BY <1>1, <2>1, <3>1, LeaveLocals DEF Gone, Keeps, LocalTypeOK, hostVars, counterVars
    <3>4. ASSUME NEW j \in Conns PROVE Clocks(j)'
      BY <1>1, <2>1, <3>1, LeaveClocks
    <3> QED
      BY <3>2, <3>3, <3>4 DEF TypeInv
  <2>7. CASE total(failed) # NoReading /\ ~(count(failed) = Samples \/ age[k] >= MaxPoll)
    <3>1. /\ prev' = [prev EXCEPT ![k] = total(failed)]
          /\ same' = [same EXCEPT ![k] = count(failed)]
          /\ waited' = [waited EXCEPT ![k] = 0]
          /\ UNCHANGED <<pc, age, took, before, figure>>
      BY <2>0, <2>7
    <3>2. total(failed) \in Nat
      BY <2>3, <2>7
    <3>3. count(failed) \in 0..Samples /\ count(failed) < Samples
      BY <1>1, <2>2, <2>7, Numbers DEF LocalTypeOK
    <3> HIDE DEF count
    <3>4. HostTypeOK'
      BY <1>1, <2>1, <2>4, <3>1 DEF HostTypeOK, hostVars, counterVars
    <3>5. LocalTypeOK'
      BY <1>1, <2>1, <3>1, <3>2, <3>3, Zeros DEF LocalTypeOK, hostVars, counterVars
    <3>6. ASSUME NEW j \in Conns PROVE Clocks(j)'
      BY <1>1, <2>1, <3>1, <3>3 DEF Clocks, LocalTypeOK
    <3> QED
      BY <3>4, <3>5, <3>6 DEF TypeInv
  <2> QED
    BY <2>5, <2>6, <2>7
<1>16. CASE Tick
  <2>0. PICK out \in Carried :
          /\ queued' = [k \in Conns |-> queued[k] - out[k]]
          /\ wire' = IF rule THEN wire + Units(out) ELSE wire
    BY <1>16 DEF Tick
  <2>1. /\ Units(out) \in Nat
        /\ \A k \in Conns : queued[k] - out[k] \in 0..queued[k]
    BY <1>1, UnitsAre, Numbers DEF LocalTypeOK
  <2>2. /\ age' = [k \in Conns |-> IF Timed(k) THEN age[k] + 1 ELSE age[k]]
        /\ waited' = [k \in Conns |-> IF Timed(k) THEN waited[k] + 1 ELSE waited[k]]
        /\ \A k \in Conns : ~Due(k)
        /\ UNCHANGED <<via, bound, echo, rule, status, registered, binary, pc, took, pollVars, figure, faults, misread, cut>>
    BY <1>16 DEF Tick, Timed, Waiting
  <2>3. \A k \in Conns : Timed(k) => /\ waited[k] < Timeout /\ age[k] < MaxAge
                                     /\ pc[k] = "polling" => waited[k] = 0
    <3> SUFFICES ASSUME NEW k \in Conns, Timed(k)
                 PROVE  /\ waited[k] < Timeout /\ age[k] < MaxAge
                        /\ pc[k] = "polling" => waited[k] = 0
      OBVIOUS
    <3>1. ~Due(k) /\ Clocks(k) /\ waited[k] \in 0..Timeout /\ age[k] \in 0..MaxAge
      BY <1>1, <2>2 DEF LocalTypeOK
    <3>2. CASE pc[k] = "polling"
      BY <3>1, <3>2, Numbers DEF Due, Waiting, Clocks
    <3>3. CASE pc[k] \in {"draining", "closing"}
      <4>0. waited[k] # Timeout
        BY <3>1, <3>3 DEF Due, Waiting
      <4>1. waited[k] < Timeout
        BY <3>1, <4>0, Numbers
      <4>2. age[k] <= Timeout + waited[k]
        BY <3>1, <3>3, Numbers DEF Clocks
      <4> QED BY <3>1, <3>3, <4>1, <4>2, Numbers
    <3> QED BY <3>2, <3>3 DEF Timed
  <2>4. HostTypeOK'
    BY <1>1, <2>2 DEF HostTypeOK
  <2>5. /\ wire' \in Nat /\ queued' \in [Conns -> 0..N]
        /\ age' \in [Conns -> 0..MaxAge] /\ waited' \in [Conns -> 0..Timeout]
    BY <1>1, <2>0, <2>1, <2>2, <2>3, Numbers DEF LocalTypeOK
  <2>6. LocalTypeOK'
    BY <1>1, <2>2, <2>5 DEF LocalTypeOK, pollVars
  <2>7. ASSUME NEW k \in Conns PROVE Clocks(k)'
    <3>1. pc[k] \in {"idle", "request"} => queued'[k] = 0
      BY <1>1, <2>0, <2>1 DEF Clocks, LocalTypeOK
    <3>2. /\ pc'[k] = pc[k] /\ before'[k] = before[k] /\ same'[k] = same[k]
          /\ age'[k] = (IF Timed(k) THEN age[k] + 1 ELSE age[k])
          /\ waited'[k] = (IF Timed(k) THEN waited[k] + 1 ELSE waited[k])
          /\ age[k] \in Nat /\ waited[k] \in Nat
      BY <1>1, <2>2, Numbers DEF pollVars, LocalTypeOK
    <3>3. Clocks(k) /\ (Timed(k) => waited[k] < Timeout /\ (pc[k] = "polling" => waited[k] = 0))
      BY <1>1, <2>3
    <3>4. CASE Timed(k)
      BY <3>1, <3>2, <3>3, <3>4, Numbers DEF Clocks, Timed
    <3>5. CASE ~Timed(k)
      BY <3>1, <3>2, <3>3, <3>5 DEF Clocks, Timed
    <3> QED BY <3>4, <3>5
  <2> QED
    BY <2>4, <2>6, <2>7 DEF TypeInv
<1>17. CASE UNCHANGED vars
  BY <1>1, Zeros, <1>17 DEF vars, TypeInv, HostTypeOK, LocalTypeOK, Clocks, hostVars, counterVars, timeVars, pollVars, historyVars
<1>18. ASSUME NEW k \in Conns, End(k) PROVE TypeInv'
  <2>0. /\ pc[k] = "ending" /\ pc' = [pc EXCEPT ![k] = "done"]
        /\ UNCHANGED <<hostVars, queued, timeVars, pollVars, figure, faults, historyVars>>
    BY <1>18 DEF End, CanEnd
  <2>1. HostTypeOK'
    BY <1>1, <2>0 DEF HostTypeOK, hostVars, counterVars, historyVars
  <2>2. LocalTypeOK'
    BY <1>1, <2>0 DEF LocalTypeOK, Pcs, hostVars, counterVars, timeVars, pollVars
  <2>3. ASSUME NEW j \in Conns PROVE Clocks(j)'
    BY <1>1, <2>0 DEF Clocks, LocalTypeOK, timeVars, pollVars
  <2> QED
    BY <2>1, <2>2, <2>3 DEF TypeInv
<1> QED
  BY <1>2, <1>3, <1>4, <1>5, <1>6, <1>7, <1>8, <1>9, <1>10, <1>11, <1>12, <1>13, <1>14, <1>15, <1>16, <1>17, <1>18 DEF Next, ResponderStep, HandlerStep, Over

-----------------------------------------------------------------------------
(* What a step that takes no time does to a connection.                     *)

Stays(j) == /\ pc'[j] = pc[j] /\ queued'[j] = queued[j] /\ age'[j] = age[j] /\ took'[j] = took[j]
            /\ before'[j] = before[j] /\ prev'[j] = prev[j] /\ cut'[j] = cut[j]
            /\ (j \in misread' <=> j \in misread)
Opens(j) == /\ pc[j] = "idle" /\ pc'[j] = "request" /\ queued'[j] = queued[j]
            /\ prev'[j] = prev[j] /\ before'[j] = before[j]
Ends(j) == /\ pc[j] \notin {"idle", "ending", "done"} /\ pc'[j] = "ending" /\ queued'[j] <= Left[j]
           /\ before'[j] = NoReading /\ prev'[j] = 0
Serves(j) == /\ pc[j] = "request" /\ pc'[j] = "draining" /\ queued'[j] = N /\ age'[j] = 0
             /\ before'[j] \in {NoReading, 0, wire}
             /\ before'[j] # NoReading /\ j \notin misread' => before'[j] = wire
             /\ prev'[j] = prev[j] /\ wire' = wire
Closes(j) == /\ pc[j] = "draining" /\ pc'[j] = "closing" /\ queued'[j] = queued[j]
             /\ age'[j] = age[j] /\ before'[j] = before[j] /\ prev'[j] = prev[j]
             /\ cut'[j] = cut[j] /\ (j \in misread' <=> j \in misread)
IsCut(j) == /\ Waiting(j) /\ pc'[j] = pc[j] /\ queued'[j] = 0 /\ age'[j] = age[j]
            /\ before'[j] = before[j] /\ prev'[j] = prev[j]
            /\ cut'[j] = "hung up" /\ (j \in misread' <=> j \in misread)
Rests(j) == \* the wait is over
            /\ Waiting(j) /\ pc'[j] = "polling" /\ queued'[j] = queued[j] /\ age'[j] = age[j]
            /\ took'[j] = age[j]
            /\ before[j] # NoReading /\ before'[j] = before[j] /\ prev'[j] = before[j]
            /\ cut'[j] \in {"undrained", "unclosed"} \/ (cut'[j] = cut[j] /\ queued[j] <= Buffer)
            /\ (j \in misread' <=> j \in misread)
Polls(j) == /\ pc[j] = "polling" /\ pc'[j] = "polling" /\ queued'[j] \in {0, queued[j]}
            /\ age'[j] = age[j] /\ took'[j] = took[j]
            /\ before'[j] = before[j] /\ prev'[j] \in {prev[j], 0, wire}
            /\ cut'[j] = cut[j] /\ (j \in misread' <=> j \in misread)
Lingers(j) == \* a handler is done, or what it left in the buffers goes
              /\ \/ pc[j] \in {"idle", "ending", "done"} /\ pc'[j] = pc[j]
                 \/ pc[j] = "ending" /\ pc'[j] = "done"
              /\ queued'[j] \in {0, queued[j]}
              /\ before'[j] = before[j] /\ prev'[j] = prev[j]
              /\ cut'[j] = cut[j] /\ (j \in misread' <=> j \in misread)

Move(j) == \/ Stays(j) \/ Opens(j) \/ Ends(j) \/ Serves(j) \/ Closes(j)
           \/ IsCut(j) \/ Rests(j) \/ Polls(j) \/ Lingers(j)

\* A step that takes no time moves no unit, and a connection in one of these
\* ways.
LEMMA MoveStep ==
  ASSUME TypeInv, [Next]_vars, ~Tick
  PROVE  wire' \in {0, wire} /\ \A j \in Conns : Move(j)
<1>1. /\ HostTypeOK /\ LocalTypeOK /\ \A k \in Conns : Clocks(k)
  BY DEF TypeInv
<1>a. \A j \in Conns : Stays(j) => Move(j)
  BY DEF Move
<1>2. CASE StartEcho
  BY <1>a, <1>2 DEF StartEcho, Stays, counterVars, timeVars, pollVars, historyVars
<1>3. CASE StopEcho
  BY <1>a, <1>3 DEF StopEcho, Stays, counterVars, timeVars, pollVars, historyVars
<1>4. CASE StartResponder
  BY <1>a, <1>4 DEF StartResponder, Stays, timeVars, pollVars, historyVars
<1>5. CASE RemoveRule
  BY <1>a, <1>5 DEF RemoveRule, Stays, timeVars, pollVars, historyVars
<1>6. CASE EmptyStatus
  BY <1>a, <1>6 DEF EmptyStatus, Stays, timeVars, pollVars, historyVars
<1>7. CASE StopResponder
  <2>0. /\ UNCHANGED <<wire, misread>> /\ queued' = [k \in Conns |-> 0]
        /\ Leave({k \in Conns : pc[k] \in {"request", "draining"}})
        /\ cut' = [k \in Conns |-> IF Waiting(k) THEN "hung up" ELSE cut[k]]
    BY <1>7 DEF StopResponder
  <2> DEFINE D == {k \in Conns : pc[k] \in {"request", "draining"}}
  <2>c. \A j \in Conns : (j \in D => Gone(j)) /\ (j \notin D => Keeps(j))
    <3>1. Leave(D)
      BY <2>0
    <3> HIDE DEF D
    <3> QED BY <1>1, <3>1, LeaveLocals
  <2>d. \A j \in Conns : IF pc[j] \in {"request", "draining"} THEN Gone(j) ELSE Keeps(j)
    BY <2>c
  <2>1. ASSUME NEW j \in Conns PROVE Move(j)
    <3>1. CASE pc[j] \in {"request", "draining"}
      <4>1. Left[j] >= 0
        BY <1>1, <3>1, Numbers DEF Left, LocalTypeOK
      <4>2. Ends(j)
        BY <1>1, <2>0, <2>d, <3>1, <4>1 DEF Ends, Gone, Keeps
      <4> QED BY <4>2 DEF Move
    <3>2. CASE pc[j] = "closing"
      <4>1. IsCut(j)
        BY <1>1, <2>0, <2>d, <3>2 DEF IsCut, Waiting, Gone, Keeps
      <4> QED BY <4>1 DEF Move
    <3>3. CASE pc[j] = "polling"
      <4>1. Polls(j)
        BY <1>1, <2>0, <2>d, <3>3 DEF Polls, Waiting, Gone, Keeps
      <4> QED BY <4>1 DEF Move
    <3>4. CASE pc[j] \in {"idle", "ending", "done"}
      <4>1. Lingers(j)
        BY <1>1, <2>0, <2>d, <3>4 DEF Lingers, Waiting, Gone, Keeps
      <4> QED BY <4>1 DEF Move
    <3> QED BY <1>1, <3>1, <3>2, <3>3, <3>4 DEF LocalTypeOK, Pcs
  <2> QED BY <2>0, <2>1
<1>8. ASSUME NEW k \in Conns, Open(k) PROVE wire' \in {0, wire} /\ \A j \in Conns : Move(j)
  <2>1. /\ pc[k] = "idle" /\ pc' = [pc EXCEPT ![k] = "request"]
        /\ UNCHANGED <<wire, queued, age, took, before, prev, cut, misread>>
    BY <1>8 DEF Open, hostVars, counterVars, timeVars, pollVars, historyVars
  <2>2. Opens(k) /\ \A j \in Conns : j # k => Stays(j)
    BY <1>1, <2>1 DEF Opens, Stays, LocalTypeOK
  <2> QED BY <2>1, <2>2 DEF Move
<1>9. ASSUME NEW k \in Conns, HangUp(k) PROVE wire' \in {0, wire} /\ \A j \in Conns : Move(j)
  <2>1. /\ UNCHANGED <<wire, misread>> /\ queued' = [queued EXCEPT ![k] = 0]
        /\ \/ Waiting(k) /\ cut' = [cut EXCEPT ![k] = "hung up"]
           \/ pc[k] \in {"polling", "ending"} /\ cut' = cut
        /\ Leave({k} \cap {c \in Conns : pc[c] = "draining"})
    BY <1>9 DEF HangUp, hostVars, counterVars
  <2>d. /\ \A j \in Conns : j # k => Keeps(j)
        /\ IF pc[k] = "draining" THEN Gone(k) ELSE Keeps(k)
    <3> DEFINE D == {k} \cap {c \in Conns : pc[c] = "draining"}
    <3>1. \A j \in Conns : (j \in D => Gone(j)) /\ (j \notin D => Keeps(j))
      <4>1. Leave(D)
        BY <2>1
      <4> HIDE DEF D
      <4> QED BY <1>1, <4>1, LeaveLocals
    <3> QED BY <3>1
  <2>2. \A j \in Conns : j # k => Stays(j)
    BY <1>1, <2>1, <2>d DEF Stays, Keeps, LocalTypeOK, HostTypeOK
  <2>3. CASE pc[k] = "draining"
    <3>1. Left[k] >= 0
      BY <1>1, <2>3, Numbers DEF Left, LocalTypeOK
    <3>2. Ends(k)
      BY <1>1, <2>1, <2>d, <2>3, <3>1 DEF Ends, Gone, LocalTypeOK
    <3> QED BY <2>1, <2>2, <3>2 DEF Move
  <2>4. CASE pc[k] = "closing"
    <3>1. IsCut(k)
      BY <1>1, <2>1, <2>d, <2>4 DEF IsCut, Waiting, Keeps, LocalTypeOK, HostTypeOK
    <3> QED BY <2>1, <2>2, <3>1 DEF Move
  <2>5. CASE pc[k] = "polling"
    <3>1. Polls(k)
      BY <1>1, <2>1, <2>d, <2>5 DEF Polls, Waiting, Keeps, LocalTypeOK
    <3> QED BY <2>1, <2>2, <3>1 DEF Move
  <2>6. CASE pc[k] = "ending"
    <3>1. Lingers(k)
      BY <1>1, <2>1, <2>d, <2>6 DEF Lingers, Waiting, Keeps, LocalTypeOK
    <3> QED BY <2>1, <2>2, <3>1 DEF Move
  <2> QED BY <2>1, <2>3, <2>4, <2>5, <2>6 DEF Waiting
<1>10. ASSUME NEW k \in Conns, Answer(k) PROVE wire' \in {0, wire} /\ \A j \in Conns : Move(j)
  <2>1. /\ pc[k] = "request" /\ Leave({k}) /\ UNCHANGED <<wire, cut, misread>>
        /\ queued' \in {queued, [queued EXCEPT ![k] = 1]}
    BY <1>10 DEF Answer, hostVars, counterVars, historyVars
  <2>2. \A j \in Conns : j # k => Stays(j)
    BY <1>1, <2>1, LeaveLocals DEF Gone, Keeps, Stays, LocalTypeOK
  <2>3. queued'[k] <= Left[k]
    BY <1>1, <2>1, Numbers DEF Left, LocalTypeOK
  <2>4. Ends(k)
    BY <1>1, <2>1, <2>3, LeaveLocals DEF Gone, Keeps, Ends
  <2> QED BY <2>1, <2>2, <2>4 DEF Move
<1>11. ASSUME NEW k \in Conns, ServeThroughput(k) PROVE wire' \in {0, wire} /\ \A j \in Conns : Move(j)
  <2>1. /\ pc[k] = "request" /\ pc' = [pc EXCEPT ![k] = "draining"] /\ queued' = [queued EXCEPT ![k] = N]
        /\ age' = [age EXCEPT ![k] = 0]
        /\ UNCHANGED <<wire, took, prev, cut>>
    BY <1>11 DEF ServeThroughput, hostVars, counterVars
  <2>2. PICK failed \in BOOLEAN :
          /\ registered \/ ~failed
          /\ before' = [before EXCEPT ![k] = IF registered THEN Reading(failed) ELSE NoReading]
          /\ misread' = IF failed \/ (registered /\ ~rule) THEN misread \cup {k} ELSE misread
    BY <1>11 DEF ServeThroughput, FirstReading
  <2>3. /\ before'[k] = (IF registered THEN Reading(failed) ELSE NoReading)
        /\ k \notin misread' => failed = FALSE /\ (registered => rule)
    BY <1>1, <2>2 DEF LocalTypeOK
  <2>4. before'[k] # NoReading /\ k \notin misread' => before'[k] = wire
    BY <2>3 DEF Reading
  <2>5. before'[k] \in {NoReading, 0, wire}
    BY <2>3, Readings
  <2>6. \A j \in Conns : j # k => Stays(j)
    BY <1>1, <2>1, <2>2 DEF Stays, LocalTypeOK
  <2>7. Serves(k)
    BY <1>1, <2>1, <2>4, <2>5 DEF Serves, LocalTypeOK
  <2> QED BY <2>1, <2>6, <2>7 DEF Move
<1>12. ASSUME NEW k \in Conns, Drained(k) PROVE wire' \in {0, wire} /\ \A j \in Conns : Move(j)
  <2>1. /\ pc[k] = "draining" /\ pc' = [pc EXCEPT ![k] = "closing"]
        /\ UNCHANGED <<wire, queued, age, took, before, prev, cut, misread>>
    BY <1>12 DEF Drained, hostVars, counterVars, pollVars, historyVars
  <2>2. Closes(k) /\ \A j \in Conns : j # k => Stays(j)
    BY <1>1, <2>1 DEF Closes, Stays, LocalTypeOK
  <2> QED BY <2>1, <2>2 DEF Move
<1>13. ASSUME NEW k \in Conns, Measure(k) PROVE wire' \in {0, wire} /\ \A j \in Conns : Move(j)
  <2>1. /\ UNCHANGED <<wire, queued, misread>> /\ Waiting(k)
        /\ \/ queued[k] <= Buffer /\ cut' = cut
           \/ \E how \in {"undrained", "unclosed"} : cut' = [cut EXCEPT ![k] = how]
    BY <1>13 DEF Measure, hostVars, counterVars
  <2>2. CASE before[k] # NoReading
    <3>1. /\ pc' = [pc EXCEPT ![k] = "polling"] /\ took' = [took EXCEPT ![k] = age[k]]
          /\ prev' = [prev EXCEPT ![k] = before[k]]
          /\ UNCHANGED <<age, before>>
      BY <1>13, <2>2 DEF Measure
    <3>2. Rests(k) /\ \A j \in Conns : j # k => Stays(j)
      BY <1>1, <2>1, <2>2, <3>1 DEF Rests, Stays, LocalTypeOK, HostTypeOK
    <3> QED BY <2>1, <3>2 DEF Move
  <2>3. CASE before[k] = NoReading
    <3>1. Leave({k})
      BY <1>13, <2>3 DEF Measure
    <3>d. Gone(k) /\ \A j \in Conns : j # k => Keeps(j)
      BY <1>1, <3>1, LeaveLocals
    <3>2. \A j \in Conns : j # k => Stays(j)
      BY <1>1, <2>1, <3>d DEF Stays, Keeps, LocalTypeOK, HostTypeOK
    <3>3. queued'[k] <= Left[k]
      <4>1. queued[k] \in 0..N /\ queued'[k] = queued[k]
        BY <1>1, <2>1 DEF LocalTypeOK
      <4>2. Left[k] = queued[k]
        BY <2>1 DEF Left, Waiting
      <4> QED BY <4>1, <4>2, Numbers
    <3>4. Ends(k)
      BY <1>1, <2>1, <3>1, <3>3, LeaveLocals DEF Gone, Keeps, Ends, Waiting
    <3> QED BY <2>1, <3>2, <3>4 DEF Move
  <2> QED BY <2>2, <2>3
<1>14. ASSUME NEW k \in Conns, TooLate(k) PROVE wire' \in {0, wire} /\ \A j \in Conns : Move(j)
  <2>1. /\ pc[k] = "polling" /\ Leave({k}) /\ UNCHANGED <<wire, queued, cut, misread>>
    BY <1>14 DEF TooLate, hostVars, counterVars, historyVars
  <2>2. \A j \in Conns : j # k => Stays(j)
    BY <1>1, <2>1, LeaveLocals DEF Gone, Keeps, Stays, LocalTypeOK
  <2>3. queued'[k] <= Left[k]
    BY <1>1, <2>1, Numbers DEF Left, LocalTypeOK
  <2>4. Ends(k)
    BY <1>1, <2>1, <2>3, LeaveLocals DEF Gone, Keeps, Ends
  <2> QED BY <2>1, <2>2, <2>4 DEF Move
<1>15. ASSUME NEW k \in Conns, Poll(k) PROVE wire' \in {0, wire} /\ \A j \in Conns : Move(j)
  <2>1. /\ pc[k] = "polling" /\ UNCHANGED <<wire, queued, cut, misread>>
    BY <1>15 DEF Poll, hostVars, counterVars
  <2>2. \/ Leave({k})
        \/ /\ UNCHANGED <<pc, age, took, before>>
           /\ \E failed \in BOOLEAN : Reading(failed) # NoReading /\ prev' = [prev EXCEPT ![k] = Reading(failed)]
    BY <1>15 DEF Poll
  <2>3. CASE Leave({k})
    <3>2. \A j \in Conns : j # k => Stays(j)
      BY <1>1, <2>1, <2>3, LeaveLocals DEF Gone, Keeps, Stays, LocalTypeOK
    <3>3. queued'[k] <= Left[k]
      BY <1>1, <2>1, Numbers DEF Left, LocalTypeOK
    <3>4. Ends(k)
      BY <1>1, <2>1, <2>3, <3>3, LeaveLocals DEF Gone, Keeps, Ends
    <3> QED BY <2>1, <3>2, <3>4 DEF Move
  <2>4. CASE ~Leave({k})
    <3>1. PICK total \in {0, wire} : prev' = [prev EXCEPT ![k] = total] /\ UNCHANGED <<pc, age, took, before>>
      BY <2>2, <2>4, Readings
    <3>2. Polls(k) /\ \A j \in Conns : j # k => Stays(j)
      BY <1>1, <2>1, <3>1 DEF Polls, Stays, LocalTypeOK
    <3> QED BY <2>1, <3>2 DEF Move
  <2> QED BY <2>3, <2>4
<1>17. CASE UNCHANGED vars
  BY <1>a, <1>17 DEF vars, Stays, hostVars, counterVars, timeVars, pollVars, historyVars
<1>18. ASSUME NEW k \in Conns, End(k) PROVE wire' \in {0, wire} /\ \A j \in Conns : Move(j)
  <2>1. /\ pc[k] = "ending" /\ pc' = [pc EXCEPT ![k] = "done"]
        /\ UNCHANGED <<wire, queued, age, took, before, prev, cut, misread>>
    BY <1>18 DEF End, CanEnd, hostVars, counterVars, timeVars, pollVars, historyVars
  <2>2. Lingers(k) /\ \A j \in Conns : j # k => Stays(j)
    BY <1>1, <2>1 DEF Lingers, Stays, LocalTypeOK
  <2> QED BY <2>1, <2>2 DEF Move
<1> QED
  BY <1>2, <1>3, <1>4, <1>5, <1>6, <1>7, <1>8, <1>9, <1>10, <1>11, <1>12, <1>13, <1>14, <1>15, <1>17, <1>18 DEF Next, ResponderStep, HandlerStep, Over

\* A tick, for each connection and for the counter.
LEMMA TickStep ==
  ASSUME TypeInv, Tick
  PROVE  \E out \in Carried :
           /\ wire' = wire + (IF rule THEN SumOver(out, Conns) ELSE 0)
           /\ SumOver(out, Conns) \in 0..Rate
           /\ UNCHANGED <<pc, took, before, prev, cut, misread, figure>>
           /\ \A k \in Conns :
                /\ out[k] \in 0..Rate /\ out[k] <= queued[k] /\ queued'[k] = queued[k] - out[k]
                /\ age'[k] = (IF Timed(k) THEN age[k] + 1 ELSE age[k])
<1>1. LocalTypeOK
  BY DEF TypeInv
<1>2. PICK out \in Carried :
        /\ queued' = [k \in Conns |-> queued[k] - out[k]]
        /\ wire' = IF rule THEN wire + Units(out) ELSE wire
  BY DEF Tick
<1>3. /\ age' = [k \in Conns |-> IF Timed(k) THEN age[k] + 1 ELSE age[k]]
      /\ UNCHANGED <<pc, took, before, prev, cut, misread, figure>>
  BY DEF Tick, Timed, Waiting, pollVars
<1>4. \A k \in Conns : queued[k] \in Nat
  BY <1>1, Numbers DEF LocalTypeOK
<1>5. /\ Units(out) = SumOver(out, Conns) /\ SumOver(out, Conns) \in 0..Rate
      /\ \A k \in Conns : out[k] \in 0..Rate /\ out[k] <= queued[k]
  BY <1>4, UnitsAre
<1>6. wire' = wire + (IF rule THEN SumOver(out, Conns) ELSE 0)
  BY <1>1, <1>2, <1>5 DEF LocalTypeOK
<1>7. \A k \in Conns : /\ queued'[k] = queued[k] - out[k]
                       /\ age'[k] = (IF Timed(k) THEN age[k] + 1 ELSE age[k])
  BY <1>2, <1>3
<1> QED
  BY <1>3, <1>5, <1>6, <1>7

-----------------------------------------------------------------------------
(* The counter counts what was asked for.                                   *)

LEMMA SumMonotone ==
  ASSUME NEW S, IsFiniteSet(S), NEW f, NEW g,
         \A x \in S : f[x] \in Nat /\ g[x] \in Nat /\ f[x] <= g[x]
  PROVE  SumOver(f, S) \in Nat /\ SumOver(g, S) \in Nat /\ SumOver(f, S) <= SumOver(g, S)
<1> DEFINE h == [x \in S |-> g[x] - f[x]]
<1>1. \A x \in S : h[x] \in Nat /\ h[x] = g[x] - f[x]
  OBVIOUS
<1> HIDE DEF h
<1>2. SumOver(h, S) \in Nat /\ SumOver(f, S) \in Nat /\ SumOver(g, S) \in Nat
  BY <1>1, SumType
<1>3. SumOver(h, S) = SumOver(g, S) - SumOver(f, S)
  BY <1>1, SumMinus
<1> QED
  BY <1>2, <1>3

LEMMA LeftType == LocalTypeOK => \A k \in Conns : Left[k] \in Nat /\ Left[k] <= N
BY Numbers DEF Left, LocalTypeOK

LEMMA WireStep ==
  ASSUME TypeInv, TypeInv', WireBound, [Next]_vars
  PROVE  WireBound'
<1>1. /\ LocalTypeOK /\ LocalTypeOK' /\ \A k \in Conns : Clocks(k)
  BY DEF TypeInv
<1>2. \A k \in Conns : Left[k] \in Nat /\ Left'[k] \in Nat
  <2>1. \A k \in Conns : Left[k] \in Nat
    BY <1>1, LeftType
  <2>2. \A k \in Conns : Left'[k] \in Nat
    BY <1>1, Numbers DEF Left, LocalTypeOK
  <2> QED BY <2>1, <2>2
<1>3. wire \in Nat /\ wire' \in Nat /\ IsFiniteSet(Conns)
  BY <1>1, EchoServerAssumption DEF LocalTypeOK
<1>4. wire' + SumOver(Left', Conns) <= wire + SumOver(Left, Conns)
  <2>1. CASE Tick
    <3>1. PICK out \in Carried :
            /\ wire' = wire + (IF rule THEN SumOver(out, Conns) ELSE 0)
            /\ SumOver(out, Conns) \in 0..Rate
            /\ UNCHANGED pc
            /\ \A k \in Conns :
                 out[k] \in 0..Rate /\ out[k] <= queued[k] /\ queued'[k] = queued[k] - out[k]
      BY <2>1, TickStep
    <3>2. \A k \in Conns : Left'[k] = Left[k] - out[k]
      <4> TAKE k \in Conns
      <4>1. Left[k] = IF pc[k] \in {"idle", "request"} THEN N ELSE queued[k]
        BY DEF Left
      <4>2. Left'[k] = IF pc'[k] \in {"idle", "request"} THEN N ELSE queued'[k]
        BY DEF Left
      <4>3. CASE pc[k] \in {"idle", "request"}
        <5>1. out[k] = 0
          BY <1>1, <3>1, <4>3, Numbers DEF Clocks
        <5> QED BY <3>1, <4>1, <4>2, <4>3, <5>1, Numbers
      <4>4. CASE pc[k] \notin {"idle", "request"}
        BY <3>1, <4>1, <4>2, <4>4
      <4> QED BY <4>3, <4>4
    <3>3. \A k \in Conns : out[k] \in Int /\ Left[k] \in Int
      BY <1>2, <3>1, Numbers
    <3> HIDE DEF Left
    <3>4. SumOver(Left', Conns) = SumOver(Left, Conns) - SumOver(out, Conns)
      BY <1>3, <3>2, <3>3, SumMinus
    <3>5. SumOver(Left, Conns) \in Nat
      BY <1>2, <1>3, SumType
    <3> QED BY <1>3, <3>1, <3>4, <3>5, Numbers
  <2>2. CASE ~Tick
    <3>1. wire' \in {0, wire} /\ \A k \in Conns : Move(k)
      BY <2>2, MoveStep
    <3>2. ASSUME NEW k \in Conns PROVE Left'[k] <= Left[k]
      <4>1. Left[k] = IF pc[k] \in {"idle", "request"} THEN N ELSE queued[k]
        BY DEF Left
      <4>2. Left'[k] = IF pc'[k] \in {"idle", "request"} THEN N ELSE queued'[k]
        BY DEF Left
      <4>3. queued[k] \in 0..N
        BY <1>1, Numbers DEF LocalTypeOK
      <4>4. Move(k) /\ Left[k] \in Nat /\ Left'[k] \in Nat
        BY <1>2, <3>1
      <4> HIDE DEF Left
      <4>m1. CASE Stays(k)
        BY <4>1, <4>2, <4>3, <4>4, Numbers, <4>m1 DEF Stays, Waiting
      <4>m2. CASE Opens(k)
        BY <4>1, <4>2, <4>3, <4>4, Numbers, <4>m2 DEF Opens, Waiting
      <4>m3. CASE Ends(k)
        BY <4>1, <4>2, <4>3, <4>4, Numbers, <4>m3 DEF Ends, Waiting
      <4>m4. CASE Serves(k)
        BY <4>1, <4>2, <4>3, <4>4, Numbers, <4>m4 DEF Serves, Waiting
      <4>m5. CASE Closes(k)
        BY <4>1, <4>2, <4>3, <4>4, Numbers, <4>m5 DEF Closes, Waiting
      <4>m6. CASE IsCut(k)
        <5>1. pc[k] \notin {"idle", "request"} /\ pc'[k] \notin {"idle", "request"}
          BY <4>m6 DEF IsCut, Waiting
        <5>2. queued'[k] \in {0, queued[k]}
          BY <4>m6 DEF IsCut
        <5> QED BY <4>1, <4>2, <4>3, <5>1, <5>2, Numbers
      <4>m7. CASE Rests(k)
        <5>1. pc[k] \notin {"idle", "request"} /\ pc'[k] \notin {"idle", "request"}
          BY <4>m7 DEF Rests, Waiting
        <5>2. queued'[k] \in {0, queued[k]}
          BY <4>m7 DEF Rests
        <5> QED BY <4>1, <4>2, <4>3, <5>1, <5>2, Numbers
      <4>m8. CASE Polls(k)
        BY <4>1, <4>2, <4>3, <4>4, Numbers, <4>m8 DEF Polls, Waiting
      <4>m9. CASE Lingers(k)
        BY <4>1, <4>2, <4>3, <4>4, Numbers, <4>m9 DEF Lingers, Waiting
      <4> QED
        BY <4>4, <4>m1, <4>m2, <4>m3, <4>m4, <4>m5, <4>m6, <4>m7, <4>m8, <4>m9 DEF Move
    <3>3. SumOver(Left', Conns) <= SumOver(Left, Conns) /\ SumOver(Left', Conns) \in Nat /\ SumOver(Left, Conns) \in Nat
      BY <1>2, <1>3, <3>2, SumMonotone
    <3> QED BY <1>3, <3>1, <3>3
  <2> QED BY <2>1, <2>2
<1>5. SumOver(Left', Conns) \in Nat /\ SumOver(Left, Conns) \in Nat
  BY <1>2, <1>3, SumType
<1>6. Cardinality(Conns) \in Nat /\ Cardinality(Conns) * N \in Nat
  BY <1>3, FS_CardinalityType, Numbers
<1> QED
  BY <1>3, <1>4, <1>5, <1>6 DEF WireBound

\* What the bound on the counter says of it.
LEMMA WireAtMost ==
  ASSUME TypeInv, WireBound
  PROVE  MaxWire \in Nat /\ wire <= MaxWire
<1>1. LocalTypeOK /\ IsFiniteSet(Conns)
  BY EchoServerAssumption DEF TypeInv
<1>2. \A k \in Conns : Left[k] \in Nat
  BY <1>1, LeftType
<1>3. SumOver(Left, Conns) \in Nat /\ Cardinality(Conns) \in Nat /\ wire \in Nat
  BY <1>1, <1>2, SumType, FS_CardinalityType DEF LocalTypeOK
<1>4. \A c \in Nat : c * (N + 1) = c * N + c /\ c * N \in Nat
  BY Numbers
<1>5. MaxWire = Cardinality(Conns) * N + Cardinality(Conns) /\ Cardinality(Conns) * N \in Nat
  BY <1>3, <1>4 DEF MaxWire
<1> QED
  BY <1>3, <1>5 DEF WireBound

LEMMA ReadingStep ==
  ASSUME TypeInv, TypeInv', WireBound, ReadingBound, [Next]_vars
  PROVE  ReadingBound'
<1>1. wire <= MaxWire /\ MaxWire \in Nat /\ wire \in Nat
  BY WireAtMost DEF TypeInv, LocalTypeOK
<1>2. ASSUME NEW k \in Conns
      PROVE  (before'[k] # NoReading => before'[k] <= MaxWire) /\ prev'[k] <= MaxWire
  <2>1. (before[k] # NoReading => before[k] <= MaxWire) /\ prev[k] <= MaxWire
    BY DEF ReadingBound
  <2>2. CASE Tick
    BY <2>1, <2>2 DEF Tick, pollVars
  <2>3. CASE ~Tick
    <3>1. Move(k)
      BY <2>3, MoveStep
    <3>m1. CASE Stays(k)
      BY <1>1, <2>1, <3>m1 DEF Stays, Waiting
    <3>m2. CASE Opens(k)
      BY <1>1, <2>1, <3>m2 DEF Opens, Waiting
    <3>m3. CASE Ends(k)
      BY <1>1, <2>1, <3>m3 DEF Ends, Waiting
    <3>m4. CASE Serves(k)
      BY <1>1, <2>1, <3>m4 DEF Serves, Waiting
    <3>m5. CASE Closes(k)
      BY <1>1, <2>1, <3>m5 DEF Closes, Waiting
    <3>m6. CASE IsCut(k)
      BY <1>1, <2>1, <3>m6 DEF IsCut, Waiting
    <3>m7. CASE Rests(k)
      BY <1>1, <2>1, <3>m7 DEF Rests, Waiting
    <3>m8. CASE Polls(k)
      BY <1>1, <2>1, <3>m8 DEF Polls, Waiting
    <3>m9. CASE Lingers(k)
      BY <1>1, <2>1, <3>m9 DEF Lingers, Waiting
    <3> QED
      BY <3>1, <3>m1, <3>m2, <3>m3, <3>m4, <3>m5, <3>m6, <3>m7, <3>m8, <3>m9 DEF Move
  <2> QED BY <2>2, <2>3
<1>3. MaxWire' = MaxWire
  BY DEF MaxWire
<1> QED
  BY <1>2, <1>3 DEF ReadingBound

-----------------------------------------------------------------------------
(* The counter and the queues keep to the link.                             *)

LEMMA OneMoreTick == \A a \in Nat : Rate * a \in Nat /\ Rate * (a + 1) = Rate * a + Rate
BY Numbers

LEMMA RateStep ==
  ASSUME TypeInv, TypeInv', NEW k \in Conns, WireRate(k), QueueRate(k), [Next]_vars
  PROVE  WireRate(k)' /\ QueueRate(k)'
<1>1. /\ LocalTypeOK /\ LocalTypeOK' /\ pc[k] \in Pcs /\ pc'[k] \in Pcs
      /\ wire \in Nat /\ wire' \in Nat /\ age[k] \in Nat /\ age'[k] \in Nat
      /\ queued[k] \in Nat /\ queued'[k] \in Nat /\ queued'[k] <= N
      /\ before[k] \in Nat \cup {NoReading} /\ before'[k] \in Nat \cup {NoReading}
  BY Numbers DEF TypeInv, LocalTypeOK
<1>2. /\ Rate * age[k] \in Nat /\ Rate * age'[k] \in Nat
      /\ Rate * (age[k] + 1) = Rate * age[k] + Rate /\ Rate * 0 = 0
  <2>1. Rate * age[k] \in Nat /\ Rate * (age[k] + 1) = Rate * age[k] + Rate
    BY <1>1, OneMoreTick
  <2>2. Rate * age'[k] \in Nat
    BY <1>1, OneMoreTick
  <2>3. Rate * 0 = 0
    BY Numbers
  <2> QED BY <2>1, <2>2, <2>3
<1>3. CASE Tick
  <2>1. PICK out \in Carried :
          /\ wire' = wire + (IF rule THEN SumOver(out, Conns) ELSE 0)
          /\ SumOver(out, Conns) \in 0..Rate
          /\ UNCHANGED <<pc, took, before, cut, misread>>
          /\ \A j \in Conns :
               /\ out[j] \in 0..Rate /\ out[j] <= queued[j] /\ queued'[j] = queued[j] - out[j]
               /\ age'[j] = (IF Timed(j) THEN age[j] + 1 ELSE age[j])
    BY <1>3, TickStep
  <2>2. wire' <= wire + Rate /\ queued[k] <= queued'[k] + Rate
    BY <1>1, <2>1, Numbers
  <2>3. Timed(k) => Rate * age'[k] = Rate * age[k] + Rate
    BY <1>2, <2>1
  <2>4. WireRate(k)'
    BY <1>1, <1>2, <2>1, <2>2, <2>3, Numbers DEF WireRate, Timed
  <2>5. QueueRate(k)'
    BY <1>1, <1>2, <2>1, <2>2, <2>3, Numbers DEF QueueRate, Timed, Waiting
  <2> QED BY <2>4, <2>5
<1>4. CASE ~Tick
  <2>1. Move(k) /\ wire' \in {0, wire}
    BY <1>4, MoveStep
  <2>2. WireRate(k)'
    <3>m1. CASE Stays(k)
      BY <1>1, <1>2, <2>1, Numbers, <3>m1 DEF Stays, WireRate, Timed, Waiting
    <3>m2. CASE Opens(k)
      BY <1>1, <1>2, <2>1, Numbers, <3>m2 DEF Opens, WireRate, Timed, Waiting
    <3>m3. CASE Ends(k)
      BY <1>1, <1>2, <2>1, Numbers, <3>m3 DEF Ends, WireRate, Timed, Waiting
    <3>m4. CASE Serves(k)
      BY <1>1, <1>2, <2>1, Numbers, <3>m4 DEF Serves, WireRate, Timed, Waiting
    <3>m5. CASE Closes(k)
      BY <1>1, <1>2, <2>1, Numbers, <3>m5 DEF Closes, WireRate, Timed, Waiting
    <3>m6. CASE IsCut(k)
      <4>1. Timed(k) /\ before'[k] = before[k] /\ (k \in misread' <=> k \in misread)
        BY <3>m6 DEF IsCut, Timed, Waiting
      <4>2. age'[k] = age[k]
        BY <3>m6 DEF IsCut
      <4> QED BY <1>1, <1>2, <2>1, <4>1, <4>2, Numbers DEF WireRate
    <3>m7. CASE Rests(k)
      <4>1. Timed(k) /\ before'[k] = before[k] /\ (k \in misread' <=> k \in misread)
        BY <3>m7 DEF Rests, Timed, Waiting
      <4>2. age'[k] = age[k]
        BY <3>m7 DEF Rests
      <4> QED BY <1>1, <1>2, <2>1, <4>1, <4>2, Numbers DEF WireRate
    <3>m8. CASE Polls(k)
      BY <1>1, <1>2, <2>1, Numbers, <3>m8 DEF Polls, WireRate, Timed, Waiting
    <3>m9. CASE Lingers(k)
      BY <1>1, <1>2, <2>1, Numbers, <3>m9 DEF Lingers, WireRate, Timed, Waiting
    <3> QED
      BY <2>1, <3>m1, <3>m2, <3>m3, <3>m4, <3>m5, <3>m6, <3>m7, <3>m8, <3>m9 DEF Move
  <2>3. QueueRate(k)'
    <3>m1. CASE Stays(k)
      BY <1>1, <1>2, <2>1, Numbers, <3>m1 DEF Stays, QueueRate, Waiting
    <3>m2. CASE Opens(k)
      BY <1>1, <1>2, <2>1, Numbers, <3>m2 DEF Opens, QueueRate, Waiting
    <3>m3. CASE Ends(k)
      BY <1>1, <1>2, <2>1, Numbers, <3>m3 DEF Ends, QueueRate, Waiting
    <3>m4. CASE Serves(k)
      BY <1>1, <1>2, <2>1, Numbers, <3>m4 DEF Serves, QueueRate, Waiting
    <3>m5. CASE Closes(k)
      BY <1>1, <1>2, <2>1, Numbers, <3>m5 DEF Closes, QueueRate, Waiting
    <3>m6. CASE IsCut(k)
      BY <1>1, <1>2, <2>1, Numbers, <3>m6 DEF IsCut, QueueRate, Waiting
    <3>m7. CASE Rests(k)
      BY <1>1, <1>2, <2>1, Numbers, <3>m7 DEF Rests, QueueRate, Waiting
    <3>m8. CASE Polls(k)
      BY <1>1, <1>2, <2>1, Numbers, <3>m8 DEF Polls, QueueRate, Waiting
    <3>m9. CASE Lingers(k)
      BY <1>1, <1>2, <2>1, Numbers, <3>m9 DEF Lingers, QueueRate, Waiting
    <3> QED
      BY <2>1, <3>m1, <3>m2, <3>m3, <3>m4, <3>m5, <3>m6, <3>m7, <3>m8, <3>m9 DEF Move
  <2> QED BY <2>2, <2>3
<1> QED
  BY <1>3, <1>4

-----------------------------------------------------------------------------
(* The figures.                                                             *)

\* What _serve_throughput takes for the throughput of the connection that it
\* ends: of the time it took, or of the counter.
TakesClosed(k) ==
  /\ figure'.how = "closed" =>
       figure'.of = k /\ figure'.units = N /\ figure'.time = IF pc[k] = "polling" THEN took[k] ELSE age[k]
  /\ cut'[k] = "whole" =>
       /\ cut[k] = "whole"
       /\ pc[k] = "polling" \/ (Waiting(k) /\ queued[k] <= Buffer)
TakesWire(k) ==
  figure'.how = "wire" =>
    /\ Timed(k) /\ before[k] # NoReading
    /\ figure'.of = k /\ figure'.time = age[k]
    /\ \E total \in {0, wire, before[k]} :
         total > before[k] /\ figure'.units = total - before[k]
Takes(k) ==
  /\ pc'[k] = "ending" /\ misread' = misread
  /\ \/ figure'.how = "none"
     \/ figure'.how = "closed" /\ TakesClosed(k)
     \/ figure'.how = "wire" /\ TakesWire(k)

LEMMA FigureMove ==
  ASSUME TypeInv, [Next]_vars
  PROVE  figure' = figure \/ \E k \in Conns : Takes(k)
<1>1. /\ HostTypeOK /\ LocalTypeOK /\ \A k \in Conns : Clocks(k)
  BY DEF TypeInv
<1>2. ASSUME NEW k \in Conns, Measure(k) PROVE figure' = figure \/ Takes(k)
  <2>1. CASE before[k] # NoReading
    BY <1>2, <2>1 DEF Measure
  <2>2. CASE before[k] = NoReading
    <3>1. Leave({k}) /\ RecordWaitClosed(k, age[k]) /\ misread' = misread
      BY <1>2, <2>2 DEF Measure
    <3>2. \/ pc[k] = "closing" /\ queued[k] <= Buffer /\ cut' = cut
          \/ \E how \in {"undrained", "unclosed"} : cut' = [cut EXCEPT ![k] = how]
      BY <1>2 DEF Measure
    <3>3. pc'[k] = "ending"
      BY <1>1, <3>1, LeaveLocals DEF Gone
    <3>4. cut'[k] = "whole" => cut[k] = "whole" /\ Waiting(k) /\ queued[k] <= Buffer
      BY <1>1, <3>2 DEF Waiting, HostTypeOK
    <3>a. age[k] \in Nat /\ pc[k] # "polling"
      BY <1>1, <1>2, Numbers DEF Measure, Waiting, LocalTypeOK
    <3>5. /\ figure'.how \in {"none", "closed"}
          /\ figure'.how = "closed" => figure'.of = k /\ figure'.units = N /\ figure'.time = age[k]
      BY <1>1, <3>1, <3>a, ClosedFigure
    <3> QED BY <3>1, <3>3, <3>4, <3>5, <3>a DEF Takes, TakesClosed
  <2> QED BY <2>1, <2>2
<1>3. ASSUME NEW k \in Conns, TooLate(k) PROVE Takes(k)
  <2>1. /\ pc[k] = "polling" /\ Leave({k}) /\ Counted(k, before[k]) /\ misread' = misread
    BY <1>3 DEF TooLate, historyVars
  <2>2. before[k] \in Nat /\ before[k] # NoReading
    BY <1>1, <2>1 DEF Clocks, LocalTypeOK
  <2>3. pc'[k] = "ending"
    BY <1>1, <2>1, LeaveLocals DEF Gone
  <2>4. figure'.how \in {"none", "wire"} /\ (figure'.how = "wire" => before[k] > before[k])
    BY <1>1, <2>1, <2>2, WireFigure
  <2>5. figure'.how = "none"
    BY <2>2, <2>4
  <2> QED BY <2>1, <2>3, <2>5 DEF Takes
<1>4. ASSUME NEW k \in Conns, Poll(k) PROVE figure' = figure \/ Takes(k)
  <2>1. /\ pc[k] = "polling" /\ UNCHANGED <<misread, cut>>
        /\ \E failed \in BOOLEAN :
             \/ Reading(failed) = NoReading /\ Leave({k}) /\ RecordWaitClosed(k, took[k])
             \/ Reading(failed) # NoReading /\ Leave({k}) /\ Counted(k, Reading(failed))
             \/ figure' = figure
    BY <1>4 DEF Poll
  <2>2. before[k] \in Nat /\ before[k] # NoReading /\ Timed(k)
    BY <1>1, <2>1 DEF Clocks, LocalTypeOK, Timed
  <2>3. CASE Leave({k}) /\ RecordWaitClosed(k, took[k])
    <3>1. pc'[k] = "ending"
      BY <1>1, <2>3, LeaveLocals DEF Gone
    <3>a. took[k] \in Nat
      BY <1>1, Numbers DEF LocalTypeOK
    <3>2. /\ figure'.how \in {"none", "closed"}
          /\ figure'.how = "closed" => figure'.of = k /\ figure'.units = N /\ figure'.time = took[k]
      BY <1>1, <2>3, <3>a, ClosedFigure
    <3> QED BY <2>1, <3>1, <3>2 DEF Takes, TakesClosed
  <2>4. ASSUME NEW failed \in BOOLEAN,
               Reading(failed) # NoReading, Leave({k}), Counted(k, Reading(failed))
        PROVE  Takes(k)
    <3>1. pc'[k] = "ending"
      BY <1>1, <2>4, LeaveLocals DEF Gone
    <3>2. Reading(failed) \in {0, wire} /\ Reading(failed) \in Nat
      BY <1>1, <2>4, Readings, Zeros DEF LocalTypeOK
    <3>3. /\ figure'.how \in {"none", "wire"}
          /\ figure'.how = "wire" => /\ figure'.of = k /\ Reading(failed) > before[k]
                                     /\ figure'.units = Reading(failed) - before[k]
                                     /\ figure'.time = age[k]
      BY <1>1, <2>2, <2>4, <3>2, WireFigure
    <3>4. TakesWire(k)
      BY <2>2, <3>2, <3>3 DEF TakesWire
    <3> QED BY <2>1, <3>1, <3>3, <3>4 DEF Takes
  <2> QED BY <2>1, <2>3, <2>4
<1>5. ASSUME NEW k \in Conns, Open(k) \/ HangUp(k) \/ Answer(k) \/ ServeThroughput(k) \/ Drained(k) \/ End(k)
      PROVE figure' = figure
  BY <1>5 DEF Open, HangUp, Answer, ServeThroughput, Drained, End
<1>6. CASE StartEcho \/ StopEcho \/ ResponderStep \/ Tick \/ UNCHANGED vars
  BY <1>6 DEF StartEcho, StopEcho, ResponderStep, StartResponder, RemoveRule, EmptyStatus, StopResponder, Tick, vars
<1> QED
  BY <1>2, <1>3, <1>4, <1>5, <1>6 DEF Next, HandlerStep, Over

LEMMA FigureStep ==
  ASSUME TypeInv, TypeInv', [Next]_vars, FigureOver, FigureIsLinkRate,
         \A k \in Conns : WireRate(k) /\ QueueRate(k)
  PROVE  FigureOver' /\ FigureIsLinkRate'
<1>1. CASE figure' = figure
  <2>1. CASE figure.how = "none"
    BY <1>1, <2>1 DEF FigureOver, FigureIsLinkRate
  <2>2. CASE figure.how # "none"
    <3> DEFINE k == figure.of
    <3>1. k \in Conns
      <4>1. figure \in Figures /\ NoFigure.how = "none"
        BY DEF TypeInv, HostTypeOK, NoFigure
      <4>2. figure \in [how : {"wire", "closed"}, units : Nat, time : Nat, of : Conns]
        BY <2>2, <4>1 DEF Figures
      <4> QED BY <4>2
    <3>2. pc[k] \in {"ending", "done"}
      BY <2>2 DEF FigureOver
    <3> HIDE DEF k
    <3>3. pc'[k] \in {"ending", "done"} /\ cut'[k] = cut[k] /\ (k \in misread' <=> k \in misread)
      <4>1. CASE Tick
        BY <3>2, <4>1 DEF Tick
      <4>2. CASE ~Tick
        <5>1. Move(k)
          BY <3>1, <4>2, MoveStep
        <5>2. Stays(k) \/ Lingers(k)
          BY <3>2, <5>1 DEF Move, Opens, Ends, Serves, Closes, IsCut, Waiting, Rests, Polls
        <5> QED
          BY <3>2, <5>2 DEF Stays, Lingers
      <4> QED BY <4>1, <4>2
    <3> QED BY <1>1, <3>3 DEF FigureOver, FigureIsLinkRate, k
  <2> QED BY <2>1, <2>2
<1>2. CASE figure' # figure
  <2>1. PICK k \in Conns : Takes(k)
    BY <1>2, FigureMove
  <2>2. /\ age[k] \in Nat /\ queued[k] \in Nat /\ wire \in Nat /\ Rate * age[k] \in Nat
        /\ took[k] \in Nat /\ Rate * took[k] \in Nat
        /\ before[k] \in Nat \cup {NoReading}
    BY Numbers, OneMoreTick DEF TypeInv, LocalTypeOK
  <2>3. CASE figure'.how = "none"
    BY <2>3 DEF FigureOver, FigureIsLinkRate
  <2>4. CASE figure'.how = "closed" /\ TakesClosed(k)
    <3> DEFINE time == IF pc[k] = "polling" THEN took[k] ELSE age[k]
    <3>1. cut'[k] = "whole" => N <= Rate * time + Buffer
      <4>1. QueueRate(k)
        OBVIOUS
      <4> QED BY <2>2, <2>4, <4>1, Numbers DEF TakesClosed, QueueRate
    <3> QED BY <2>1, <2>4, <3>1 DEF FigureOver, FigureIsLinkRate, TakesClosed, Takes
  <2>5. CASE figure'.how = "wire" /\ TakesWire(k)
    <3>1. PICK total \in {0, wire, before[k]} :
            /\ total > before[k] /\ figure'.units = total - before[k]
            /\ Timed(k) /\ before[k] # NoReading
            /\ figure'.of = k /\ figure'.time = age[k]
      BY <2>5 DEF TakesWire
    <3>2. k \notin misread => wire <= before[k] + Rate * age[k]
      BY <3>1 DEF WireRate
    <3>3. before[k] \in Nat /\ total \in {0, wire}
      BY <2>2, <3>1
    <3>4. k \notin misread => total - before[k] <= Rate * age[k]
      BY <2>2, <3>1, <3>2, <3>3
    <3> QED BY <2>1, <2>5, <3>1, <3>4 DEF FigureOver, FigureIsLinkRate, Takes
  <2> QED BY <2>1, <2>3, <2>4, <2>5 DEF Takes
<1> QED
  BY <1>1, <1>2

-----------------------------------------------------------------------------
LEMMA EchoInit == Init => EchoInv
<1> SUFFICES ASSUME Init PROVE EchoInv
  OBVIOUS
<1>1. HostTypeOK
  <2>1. 0 \in 0..MaxFaults /\ "whole" \in Cuts
    BY Numbers DEF Cuts
  <2> QED BY <2>1 DEF Init, HostTypeOK, Figures
<1>2. LocalTypeOK
  BY Zeros DEF Init, LocalTypeOK, Pcs
<1>3. ASSUME NEW k \in Conns PROVE Clocks(k) /\ WireRate(k) /\ QueueRate(k)
  BY DEF Init, Clocks, WireRate, QueueRate, Timed, Waiting
<1>4. WireBound
  <2>1. \A k \in Conns : Left[k] \in Nat /\ Left[k] <= N
    BY <1>2, LeftType
  <2>2. SumOver(Left, Conns) <= Cardinality(Conns) * N /\ SumOver(Left, Conns) \in Nat
    BY <2>1, SumBound, SumType, EchoServerAssumption, Numbers
  <2>3. wire = 0
    BY DEF Init
  <2> QED BY <2>2, <2>3 DEF WireBound
<1>5. ReadingBound
  <2>1. 0 <= MaxWire
    <3>1. TypeInv /\ wire = 0
      BY <1>1, <1>2, <1>3 DEF TypeInv, Init
    <3> QED BY <1>4, <3>1, WireAtMost
  <2> QED BY <2>1 DEF Init, ReadingBound
<1>6. FigureOver /\ FigureIsLinkRate
  <2>1. figure.how = "none"
    BY DEF Init, NoFigure
  <2> QED BY <2>1 DEF FigureOver, FigureIsLinkRate
<1> QED
  BY <1>1, <1>2, <1>3, <1>4, <1>5, <1>6 DEF EchoInv

LEMMA EchoStep == EchoInv /\ [Next]_vars => EchoInv'
<1> SUFFICES ASSUME EchoInv, [Next]_vars PROVE EchoInv'
  OBVIOUS
<1>1. TypeInv
  BY DEF EchoInv, TypeInv
<1>2. TypeInv'
  BY <1>1, TypeStep
<1>3. WireBound' /\ ReadingBound'
  BY <1>1, <1>2, WireStep, ReadingStep DEF EchoInv
<1>4. \A k \in Conns : WireRate(k)' /\ QueueRate(k)'
  BY <1>1, <1>2, RateStep DEF EchoInv
<1>5. FigureOver' /\ FigureIsLinkRate'
  BY <1>1, <1>2, FigureStep DEF EchoInv
<1> QED
  BY <1>2, <1>3, <1>4, <1>5 DEF EchoInv, TypeInv

LEMMA EchoInvariant == Spec => []EchoInv
BY EchoInit, EchoStep, PTL DEF Spec

(* Every variable keeps its type, and the counter its bound: a measurement  *)
(* outlasts no timeout of echo_server.py and polls no longer than           *)
(* _WIRE_THROUGHPUT_QUIESCE_MAX_SEC.                                        *)
THEOREM TypeOKAlways == Spec => []TypeOK
<1>1. EchoInv => TypeOK
  <2> SUFFICES ASSUME EchoInv PROVE TypeOK
    OBVIOUS
  <2>1. TypeInv /\ HostTypeOK /\ LocalTypeOK /\ ReadingBound
    BY DEF EchoInv, TypeInv
  <2>2. MaxWire \in Nat /\ wire <= MaxWire
    BY <2>1, WireAtMost DEF EchoInv
  <2>3. /\ wire \in 0..MaxWire
        /\ before \in [Conns -> 0..MaxWire \cup {NoReading}] /\ prev \in [Conns -> 0..MaxWire]
    BY <2>1, <2>2 DEF LocalTypeOK, ReadingBound
  <2> QED BY <2>1, <2>3 DEF TypeOK, HostTypeOK, LocalTypeOK
<1> QED
  BY <1>1, EchoInvariant, PTL

(* No figure that _serve_throughput reports is faster than the link, for    *)
(* any number of connections that are measured at once on one counter,      *)
(* whatever becomes of the rule, its status, the responder and the peers    *)
(* under them.                                                              *)
THEOREM FigureIsLinkRateAlways == Spec => []FigureIsLinkRate
<1>1. EchoInv => FigureIsLinkRate
  BY DEF EchoInv
<1> QED
  BY <1>1, EchoInvariant, PTL
=============================================================================

--------------------------- MODULE Session_proofs ---------------------------
(***************************************************************************)
(* Proofs about Session, for every set of clients and protocols and every  *)
(* bound.                                                                  *)
(***************************************************************************)
EXTENDS Session, FiniteSetTheorems, TLAPS

-----------------------------------------------------------------------------
(* Connections are triples.                                                *)
LEMMA ConnFields ==
  ASSUME NEW k \in Conns
  PROVE  Client(k) \in Clients /\ Route(k) \in Routes
  BY DEF Conns, Client, Route

(* A client waits for an answer only in one of the three request phases,    *)
(* so a failed request always has a phase to go to.                         *)
InFlightInPhase == \A c \in Clients : inFlight[c] => clPc[c] \in Routes

TypeInv == TypeOK /\ InFlightInPhase

(* The connection an attempt uses is one of Conns.                         *)
LEMMA ConnInConns ==
  ASSUME ClientRunTypeOK, NEW c \in Clients, clPc[c] \in Routes
  PROVE  Conn(c) \in Conns
  BY DEF Conn, Conns, ClientRunTypeOK

-----------------------------------------------------------------------------
(* The endpoint's variables keep their types under a handler thread's step, *)
(* whatever set of protocols the client posted.                             *)
LEMMA WriteType ==
  ASSUME CredServerTypeOK, NEW k \in Conns, NEW r \in Replies,
         NEW n \in HandlerStates, Write(k, r, n)
  PROVE  /\ handler' \in [Conns -> HandlerStates]
         /\ reply' \in [Conns -> Replies]
         /\ body' = body /\ hungUp' = hungUp
  BY DEF CredServerTypeOK, Write, wireVars, HandlerStates

LEMMA HandlerStepType ==
  ASSUME CredServerTypeOK, NEW k \in Conns, NEW posted \in SUBSET Protocols,
         HandlerStep(k, posted)
  PROVE  CredServerTypeOK'
<1> USE CredServerAssumption DEF CredServerTypeOK, wireVars, sockVars, credVars,
        stopVars, snapVars, At
<1>1. CASE RefuseCreds(k)
  BY <1>1, WriteType DEF RefuseCreds, Replies, HandlerStates
<1>2. CASE TakeServe(k)
  BY <1>2, ConnFields DEF TakeServe, HandlerStates
<1>3. CASE WriteCreds(k)
  BY <1>3, WriteType DEF WriteCreds, Replies, HandlerStates
<1>4. CASE RefuseSnapshot(k)
  BY <1>4, WriteType DEF RefuseSnapshot, Replies, HandlerStates
<1>5. CASE ReadSnapshot(k)
  BY <1>5 DEF ReadSnapshot, HandlerStates
<1>6. CASE WriteSnapshot(k)
  BY <1>6, WriteType DEF WriteSnapshot, Replies, HandlerStates
<1>7. CASE MarkDrained(k)
  BY <1>7 DEF MarkDrained, HandlerStates
<1>8. CASE MergeThroughput(k, posted)
  BY <1>8 DEF MergeThroughput, HandlerStates
<1>9. CASE ReadStopEvent(k)
  BY <1>9 DEF ReadStopEvent, HandlerStates
<1>10. CASE AckStop(k)
  BY <1>10, WriteType DEF AckStop, Replies, HandlerStates
<1>11. CASE SetStopRequested(k)
  BY <1>11 DEF SetStopRequested, HandlerStates
<1>12. CASE WakeMainLoop(k)
  BY <1>12 DEF WakeMainLoop, HandlerStates
<1> QED BY <1>1, <1>2, <1>3, <1>4, <1>5, <1>6, <1>7, <1>8, <1>9, <1>10, <1>11, <1>12
        DEF HandlerStep

LEMMA ServerStepType ==
  ASSUME TypeInv, ServerStep
  PROVE  TypeInv'
<1> USE DEF TypeInv, TypeOK
<1>1. PICK k \in Conns : ServerThread(k)
  BY DEF ServerStep
<1>2. measured[Client(k)] \in SUBSET Protocols
  BY ConnFields DEF ClientRunTypeOK
<1>3. CredServerTypeOK'
  <2>1. CASE Accept(k)
    BY <2>1 DEF Accept, CredServerTypeOK, wireVars, sockVars, credVars, stopVars,
                snapVars, HandlerStates
  <2>2. CASE StallInHandshake(k)
    BY <2>2 DEF StallInHandshake, CredServerTypeOK, wireVars, credVars, stopVars,
                snapVars
  <2>3. CASE HandlerStep(k, measured[Client(k)])
    BY <2>3, <1>2, HandlerStepType
  <2> QED BY <1>1, <2>1, <2>2, <2>3 DEF ServerThread
<1>4. ListenerMainTypeOK' /\ ClientRunTypeOK' /\ InFlightInPhase'
  BY DEF ServerStep, ListenerMainTypeOK, ClientRunTypeOK, InFlightInPhase, mainVars,
         clientVars
<1> QED BY <1>3, <1>4

-----------------------------------------------------------------------------
(* The calls main.py makes on the endpoint keep its types.                  *)
LEMMA EndProcessType ==
  ASSUME CredServerTypeOK, EndProcess
  PROVE  CredServerTypeOK'
  BY DEF CredServerTypeOK, EndProcess, wireVars, credVars, stopVars, snapVars,
         HandlerStates

LEMMA UnchangedServerType ==
  ASSUME CredServerTypeOK, UNCHANGED serverVars
  PROVE  CredServerTypeOK'
  BY DEF CredServerTypeOK, serverVars, sockVars, wireVars, credVars, stopVars, snapVars

LEMMA ReadingBoolean ==
  ASSUME ListenerMainTypeOK, NEW p \in Protocols
  PROVE  Reading(p) \subseteq BOOLEAN
  BY DEF ListenerMainTypeOK, Reading

LEMMA ListenerStepType ==
  ASSUME TypeInv, ListenerStep
  PROVE  TypeInv'
<1> USE DEF TypeInv, TypeOK
<1>1. ClientRunTypeOK' /\ InFlightInPhase'
  BY DEF ListenerStep, clientVars, ClientRunTypeOK, InFlightInPhase
<1>2. CredServerTypeOK' /\ ListenerMainTypeOK'
  <2> USE DEF ListenerMainTypeOK
  <2>1. CASE StartCredServer
    <3>1. CASE OpenPort /\ mainPc' = "starting"
      BY <2>1, <3>1 DEF StartCredServer, OpenPort, CredServerTypeOK, MainStates,
         wireVars, credVars, stopVars, snapVars
    <3>2. CASE EndProcess /\ mainPc' = "exited"
      BY <2>1, <3>2, EndProcessType DEF StartCredServer, MainStates
    <3> QED BY <2>1, <3>1, <3>2 DEF StartCredServer
  <2>2. CASE StartResponders
    BY <2>2, EndProcessType, UnchangedServerType
       DEF StartResponders, MainStates, ResponderStates
  <2>3. CASE BindStop
    BY <2>3 DEF BindStop, BindStopEvent, CredServerTypeOK, MainStates, sockVars,
       wireVars, credVars, snapVars
  <2>4. CASE RewakeAfterBind
    BY <2>4 DEF RewakeAfterBind, WakeFromBind, CredServerTypeOK, MainStates, sockVars,
       wireVars, credVars, snapVars
  <2>5. CASE WaitReturns
    BY <2>5, UnchangedServerType DEF WaitReturns, MainStates
  <2>6. CASE AllStopped
    BY <2>6, UnchangedServerType DEF AllStopped, MainStates
  <2>7. CASE StopDeadline
    BY <2>7, UnchangedServerType DEF StopDeadline, ResponderStates
  <2>8. CASE CommitSnapshots
    BY <2>8 DEF CommitSnapshots, CommitFinalSnapshots, CredServerTypeOK, Snapshots,
       MainStates, sockVars, wireVars, credVars, stopVars
  <2>9. CASE StopEchoReadClientIp
    BY <2>9, UnchangedServerType DEF StopEchoReadClientIp, MainStates, CredServerTypeOK
  <2>10. CASE DrainEnds
    BY <2>10, UnchangedServerType DEF DrainEnds, MainStates
  <2>11. CASE StopCredServer
    <3>1. ClosePort /\ mainPc' = "finalizing"
          /\ UNCHANGED <<responder, saw, gotSignal, signals, readIp, draft, report>>
      BY <2>11 DEF StopCredServer
    <3>2. CredServerTypeOK'
      BY <3>1 DEF ClosePort, CredServerTypeOK, wireVars, credVars, stopVars, snapVars
    <3>3. ListenerMainTypeOK'
      BY <3>1 DEF MainStates
    <3> QED BY <3>2, <3>3
  <2>12. CASE FinalizeResults
    <3>1. PICK seen \in [Protocols -> BOOLEAN] :
            draft' = [connected |-> readIp # NoClient, results |-> seen,
                      throughput |-> clientThroughput \cap Started]
      BY <2>12 DEF FinalizeResults
    <3>2. draft' \in Reports
      BY <3>1 DEF Reports, CredServerTypeOK
    <3> QED BY <2>12, <3>2, UnchangedServerType DEF FinalizeResults, MainStates
  <2>13. CASE SaveReport
    BY <2>13, EndProcessType DEF SaveReport, MainStates
  <2>14. CASE \E p \in Protocols : StopResponder(p)
    BY <2>14, UnchangedServerType DEF StopResponder, ResponderStates
  <2> QED BY <2>1, <2>2, <2>3, <2>4, <2>5, <2>6, <2>7, <2>8, <2>9, <2>10, <2>11,
             <2>12, <2>13, <2>14 DEF ListenerStep, MainStep
<1> QED BY <1>1, <1>2

LEMMA EnvironmentType ==
  ASSUME TypeInv, Environment
  PROVE  TypeInv'
<1> USE DEF TypeInv, TypeOK
<1>1. ClientRunTypeOK' /\ InFlightInPhase'
  BY DEF Environment, clientVars, ClientRunTypeOK, InFlightInPhase
<1>2. CASE Signal
  <2>1. signals' \in 0..MaxSignals
    BY <1>2, ListenerMainAssumption DEF Signal, ListenerMainTypeOK
  <2>2. CredServerTypeOK' /\ mainPc' \in MainStates /\ gotSignal' \in BOOLEAN
    BY <1>2, EndProcessType, UnchangedServerType
       DEF Signal, ListenerMainTypeOK, MainStates
  <2> QED BY <1>1, <1>2, <2>1, <2>2 DEF Signal, ListenerMainTypeOK
<1>3. CASE \E p \in Protocols : Tick(p)
  <2>1. PICK p \in Protocols : Tick(p)
    BY <1>3
  <2> QED BY <1>1, <2>1, UnchangedServerType DEF Tick, ListenerMainTypeOK
<1> QED BY <1>2, <1>3 DEF Environment

LEMMA ClientStepType ==
  ASSUME TypeInv, NEW c \in Clients, ClientStep(c)
  PROVE  TypeInv'
<1> USE DEF TypeInv, TypeOK
<1>1. ListenerMainTypeOK'
  BY DEF ClientStep, ListenerMainTypeOK, CredServerTypeOK, mainVars, credVars, sockVars
<1>2. /\ procUp' = procUp /\ serving' = serving /\ stalled' = stalled
      /\ servesRemaining' = servesRemaining /\ clientIp' = clientIp
      /\ finalSnapshots' = finalSnapshots /\ drained' = drained
      /\ clientThroughput' = clientThroughput /\ stopRequested' = stopRequested
      /\ eventBound' = eventBound /\ remoteStop' = remoteStop
  BY DEF ClientStep, sockVars, credVars, stopVars, snapVars
<1>3. inFlight[c] \/ clPc[c] \in Routes => clPc[c] \in Routes /\ Conn(c) \in Conns
  BY ConnInConns DEF InFlightInPhase
<1>4. 1 \in 1..MaxAttempts
  BY CredServerAssumption
<1>5. clPc[c] \in Routes => AfterFailure[clPc[c]] \in ClientStates
  BY DEF AfterFailure, ClientStates, Routes
<1>6. CASE LaunchClient(c)
  BY <1>1, <1>2, <1>4, <1>6 DEF LaunchClient, EnterPhase, wireVars, ClientRunTypeOK,
     CredServerTypeOK, ClientStates, InFlightInPhase, Routes
<1>7. CASE SendRequest(c)
  BY <1>1, <1>2, <1>3, <1>7 DEF SendRequest, wireVars, ClientRunTypeOK,
     CredServerTypeOK, HandlerStates, InFlightInPhase
<1>8. ASSUME inFlight[c], HangUp(c), UNCHANGED handler
      PROVE  CredServerTypeOK' /\ inFlight' \in [Clients -> BOOLEAN]
  BY <1>2, <1>3, <1>8 DEF HangUp, CredServerTypeOK, ClientRunTypeOK, Replies
<1>9. CASE TransientError(c)
  <2>1. attempt' \in [Clients -> 1..MaxAttempts] /\ clPc' \in [Clients -> ClientStates]
    BY <1>3, <1>4, <1>5, <1>9, ClientRunAssumption, CredServerAssumption
       DEF TransientError, EnterPhase, ClientRunTypeOK, Attempts
  <2> QED BY <1>1, <1>8, <1>9, <2>1
      DEF TransientError, HangUp, EnterPhase, ClientRunTypeOK, InFlightInPhase
<1>10. CASE PermanentError(c)
  BY <1>1, <1>3, <1>4, <1>5, <1>8, <1>10
     DEF PermanentError, HangUp, EnterPhase, ClientRunTypeOK, InFlightInPhase
<1>11. CASE ReceiveCreds(c)
  BY <1>1, <1>4, <1>8, <1>11 DEF ReceiveCreds, HangUp, EnterPhase, ClientRunTypeOK,
     InFlightInPhase, ClientStates
<1>12. CASE FinishProbes(c)
  BY <1>1, <1>2, <1>4, <1>12 DEF FinishProbes, EnterPhase, wireVars, ClientRunTypeOK,
     CredServerTypeOK, ClientStates, InFlightInPhase, Routes
<1>13. CASE ReceiveAck(c)
  BY <1>1, <1>4, <1>8, <1>13 DEF ReceiveAck, HangUp, EnterPhase, ClientRunTypeOK,
     InFlightInPhase, ClientStates
<1>14. CASE ReceiveSnapshot(c)
  BY <1>1, <1>3, <1>4, <1>8, <1>14 DEF ReceiveSnapshot, HangUp, EnterPhase,
     ClientRunTypeOK, CredServerTypeOK, InFlightInPhase, ClientStates
<1> QED BY <1>6, <1>7, <1>9, <1>10, <1>11, <1>12, <1>13, <1>14
        DEF ClientStep, ClientRunStep

LEMMA StutterType ==
  ASSUME TypeInv, UNCHANGED vars
  PROVE  TypeInv'
  BY UnchangedServerType DEF TypeInv, TypeOK, InFlightInPhase, ListenerMainTypeOK,
     ClientRunTypeOK, CredServerTypeOK, vars, mainVars, clientVars, serverVars, credVars

(* Every variable keeps its type: the attempts stay within their bounds, a  *)
(* serve is never taken below zero, and a failed request always has a phase *)
(* to continue with.                                                        *)
THEOREM TypeCorrect == Spec => []TypeInv
<1>1. Init => TypeInv
  <2>1. CredServerInit => CredServerTypeOK
    <3>1. MaxServes \in 0..MaxServes
      BY CredServerAssumption
    <3>2. /\ [k \in Conns |-> "none"] \in [Conns -> HandlerStates]
          /\ [k \in Conns |-> "none"] \in [Conns -> Replies]
          /\ [k \in Conns |-> NoSnapshots] \in [Conns -> Snapshots \cup {NoSnapshots}]
      BY DEF HandlerStates, Replies
    <3> QED BY <3>1, <3>2 DEF CredServerInit, CredServerTypeOK
  <2>2. ListenerMainInit => ListenerMainTypeOK
    <3>1. 0 \in 0..MaxSignals
      BY ListenerMainAssumption
    <3> QED BY <3>1 DEF ListenerMainInit, ListenerMainTypeOK, MainStates, ResponderStates
  <2>3. ClientRunInit => ClientRunTypeOK /\ InFlightInPhase
    BY CredServerAssumption
       DEF ClientRunInit, ClientRunTypeOK, InFlightInPhase, ClientStates
  <2> QED BY <2>1, <2>2, <2>3 DEF Init, TypeInv, TypeOK
<1>2. TypeInv /\ [Next]_vars => TypeInv'
  BY ServerStepType, ListenerStepType, EnvironmentType, ClientStepType, StutterType
     DEF Next, Over
<1> QED BY <1>1, <1>2, PTL DEF Spec

THEOREM TypeOKAlways == Spec => []TypeOK
  BY TypeCorrect, PTL DEF TypeInv

-----------------------------------------------------------------------------
(* Single use.  SingleUse alone is not inductive: between the lock block of *)
(* /creds and the client's read, a serve is held by a handler about to      *)
(* write or by an answer on the wire.  What is invariant is that serves     *)
(* left, answers being written, answers offered and clients with the        *)
(* credentials never add up to more than _MAX_SERVES.                       *)
Writing == {k \in Conns : handler[k] = "write_creds"}
Offered == {k \in Conns : reply[k] = "creds"}

ServesBound ==
  Cardinality(Writing) + Cardinality(Offered) + Cardinality(Holders)
    + servesRemaining <= MaxServes

LEMMA ConnsFinite == IsFiniteSet(Conns)
<1> DEFINE Nested == (Clients \X Routes) \X (1..MaxAttempts)
           f == [k \in Conns |-> <<<<k[1], k[2]>>, k[3]>>]
<1>1. IsFiniteSet(Routes)
  <2>1. IsFiniteSet({"creds"} \cup {"stop"})
    BY FS_Singleton, FS_AddElement
  <2>2. IsFiniteSet(({"creds"} \cup {"stop"}) \cup {"snapshot"})
    BY <2>1, FS_AddElement
  <2>3. Routes = ({"creds"} \cup {"stop"}) \cup {"snapshot"}
    BY DEF Routes
  <2> QED BY <2>2, <2>3
<1>2. IsFiniteSet(Clients \X Routes)
  BY <1>1, FS_Product, CredServerAssumption DEF CredServerAssumption
<1>3. IsFiniteSet(1..MaxAttempts)
  BY FS_Interval, CredServerAssumption DEF CredServerAssumption
<1>4. IsFiniteSet(Nested)
  BY <1>2, <1>3, FS_Product
<1>5. f \in Injection(Conns, Nested)
  BY DEF Injection, IsInjective, Conns
<1> QED BY <1>4, <1>5, FS_Injection

(* What a set that keeps its elements but for one counts.                    *)
LEMMA ShrinkOrKeep ==
  ASSUME NEW S, NEW T, IsFiniteSet(S), T \subseteq S
  PROVE  Cardinality(T) <= Cardinality(S) /\ Cardinality(T) \in Nat
  BY FS_Subset, FS_CardinalityType

LEMMA GrowByOne ==
  ASSUME NEW S, NEW T, NEW x, IsFiniteSet(S), T = S \/ T = S \cup {x}
  PROVE  Cardinality(T) <= Cardinality(S) + 1 /\ Cardinality(T) \in Nat
<1>1. Cardinality(S) \in Nat
  BY FS_CardinalityType
<1>2. CASE T = S
  BY <1>1, <1>2
<1>3. CASE T = S \cup {x} /\ x \in S
  <2>1. T = S
    BY <1>3
  <2> QED BY <1>1, <2>1
<1>4. CASE T = S \cup {x} /\ x \notin S
  <2>1. Cardinality(T) = Cardinality(S) + 1
    BY <1>4, FS_AddElement
  <2> QED BY <1>1, <2>1
<1> QED BY <1>2, <1>3, <1>4

LEMMA TokensFinite ==
  IsFiniteSet(Writing) /\ IsFiniteSet(Offered) /\ IsFiniteSet(Holders)
<1>1. Writing \subseteq Conns /\ Offered \subseteq Conns /\ Holders \subseteq Clients
  BY DEF Writing, Offered, Holders
<1> QED BY <1>1, ConnsFinite, FS_Subset, CredServerAssumption DEF CredServerAssumption

LEMMA TokenCounts ==
  /\ Cardinality(Writing) \in Nat
  /\ Cardinality(Offered) \in Nat
  /\ Cardinality(Holders) \in Nat
  BY TokensFinite, FS_CardinalityType

(* A step that hands out nothing keeps the bound.                          *)
LEMMA NothingHandedOut ==
  ASSUME TypeOK, TypeOK', ServesBound, Writing' \subseteq Writing,
         Offered' \subseteq Offered, Holders' \subseteq Holders,
         servesRemaining' = servesRemaining
  PROVE  ServesBound'
<1>1. Cardinality(Writing') <= Cardinality(Writing) /\ Cardinality(Writing') \in Nat
  BY TokensFinite, ShrinkOrKeep
<1>2. Cardinality(Offered') <= Cardinality(Offered) /\ Cardinality(Offered') \in Nat
  BY TokensFinite, ShrinkOrKeep
<1>3. Cardinality(Holders') <= Cardinality(Holders) /\ Cardinality(Holders') \in Nat
  BY TokensFinite, ShrinkOrKeep
<1>4. servesRemaining \in Int /\ MaxServes \in Int
  BY CredServerAssumption DEF TypeOK, CredServerTypeOK, CredServerAssumption
<1> QED BY <1>1, <1>2, <1>3, <1>4, TokenCounts DEF ServesBound

(* A serve is taken: one more answer is being written, one serve fewer is   *)
(* left.                                                                    *)
LEMMA TakeServeKeepsBound ==
  ASSUME TypeOK, ServesBound, NEW k \in Conns, TakeServe(k), Holders' = Holders
  PROVE  ServesBound'
<1>1. Writing' = Writing \cup {k} /\ k \notin Writing /\ Offered' = Offered
  BY DEF TakeServe, At, Writing, Offered, TypeOK, CredServerTypeOK, wireVars
<1>2. Cardinality(Writing') = Cardinality(Writing) + 1
  BY <1>1, TokensFinite, FS_AddElement
<1>3. servesRemaining' = servesRemaining - 1
  BY DEF TakeServe
<1>4. servesRemaining \in Int /\ MaxServes \in Int
  BY CredServerAssumption DEF TypeOK, CredServerTypeOK, CredServerAssumption
<1> QED BY <1>1, <1>2, <1>3, <1>4, TokenCounts DEF ServesBound

(* The 200 is written: the answer is offered, or lost.                      *)
LEMMA WriteCredsKeepsBound ==
  ASSUME TypeOK, TypeOK', ServesBound, NEW k \in Conns, WriteCreds(k), Holders' = Holders
  PROVE  ServesBound'
<1>1. servesRemaining' = servesRemaining
  BY DEF WriteCreds, credVars
<1>2. k \in Writing /\ Writing' = Writing \ {k}
  BY DEF WriteCreds, Write, At, Writing, TypeOK, CredServerTypeOK
<1>3. Offered' = Offered \/ Offered' = Offered \cup {k}
  BY DEF WriteCreds, Write, Offered, TypeOK, CredServerTypeOK, wireVars
<1>4. Cardinality(Writing') = Cardinality(Writing) - 1
  BY <1>2, TokensFinite, FS_RemoveElement
<1>5. Cardinality(Offered') <= Cardinality(Offered) + 1 /\ Cardinality(Offered') \in Nat
  <2>1. IsFiniteSet(Offered)
    BY TokensFinite
  <2> QED BY <1>3, <2>1, GrowByOne
<1>6. servesRemaining \in Int /\ MaxServes \in Int
  BY CredServerAssumption DEF TypeOK, CredServerTypeOK, CredServerAssumption
<1> QED BY <1>1, <1>4, <1>5, <1>6, TokenCounts DEF ServesBound

(* The client reads the answer: it is no longer on the wire.                *)
LEMMA ReceiveCredsKeepsBound ==
  ASSUME TypeInv, ServesBound, NEW c \in Clients, ReceiveCreds(c),
         servesRemaining' = servesRemaining
  PROVE  ServesBound'
<1>1. Conn(c) \in Conns
  BY ConnInConns DEF ReceiveCreds, TypeInv, TypeOK, Routes
<1>2. Conn(c) \in Offered /\ Offered' = Offered \ {Conn(c)} /\ Writing' = Writing
  BY <1>1 DEF ReceiveCreds, HangUp, Offered, Writing, TypeInv, TypeOK, CredServerTypeOK
<1>3. c \notin Holders /\ (Holders' = Holders \cup {c} \/ Holders' = Holders)
  BY DEF ReceiveCreds, EnterPhase, Holders, HasCreds, TypeInv, TypeOK, ClientRunTypeOK
<1>4. Cardinality(Offered') = Cardinality(Offered) - 1
  BY <1>2, TokensFinite, FS_RemoveElement
<1>5. Cardinality(Holders') = Cardinality(Holders) + 1 \/ Cardinality(Holders') = Cardinality(Holders)
  <2>1. IsFiniteSet(Holders)
    BY TokensFinite
  <2> QED BY <1>3, <2>1, FS_AddElement
<1>6. servesRemaining \in Int /\ MaxServes \in Int
  BY CredServerAssumption DEF TypeInv, TypeOK, CredServerTypeOK, CredServerAssumption
<1> QED BY <1>2, <1>4, <1>5, <1>6, TokenCounts DEF ServesBound

(* No other response is ever the credentials.                               *)
LEMMA OtherHandlersHandNothingOut ==
  ASSUME TypeOK, NEW k \in Conns,
         \/ Accept(k) \/ StallInHandshake(k) \/ RefuseCreds(k)
         \/ RefuseSnapshot(k) \/ ReadSnapshot(k) \/ WriteSnapshot(k) \/ MarkDrained(k)
         \/ MergeThroughput(k, measured[Client(k)]) \/ ReadStopEvent(k) \/ AckStop(k)
         \/ SetStopRequested(k) \/ WakeMainLoop(k)
  PROVE  /\ Writing' \subseteq Writing /\ Offered' \subseteq Offered
         /\ servesRemaining' = servesRemaining
<1> USE DEF TypeOK, CredServerTypeOK, Writing, Offered, wireVars, credVars
<1>1. ASSUME NEW r \in Replies \ {"creds"}, NEW n \in HandlerStates \ {"write_creds"},
             Write(k, r, n)
      PROVE  Writing' \subseteq Writing /\ Offered' \subseteq Offered
  BY <1>1 DEF Write
<1>2. CASE Accept(k) \/ StallInHandshake(k)
  BY <1>2 DEF Accept, StallInHandshake
<1>3. CASE RefuseCreds(k) \/ RefuseSnapshot(k)
  BY <1>1, <1>3 DEF RefuseCreds, RefuseSnapshot, Replies, HandlerStates
<1>4. CASE WriteSnapshot(k)
  BY <1>1, <1>4 DEF WriteSnapshot, Replies, HandlerStates
<1>5. CASE AckStop(k)
  BY <1>1, <1>5 DEF AckStop, Replies, HandlerStates
<1>6. CASE ReadSnapshot(k) \/ MarkDrained(k)
  BY <1>6 DEF ReadSnapshot, MarkDrained
<1>7. CASE MergeThroughput(k, measured[Client(k)]) \/ ReadStopEvent(k)
  BY <1>7 DEF MergeThroughput, ReadStopEvent
<1>8. CASE SetStopRequested(k) \/ WakeMainLoop(k)
  BY <1>8 DEF SetStopRequested, WakeMainLoop
<1> QED BY <1>2, <1>3, <1>4, <1>5, <1>6, <1>7, <1>8

(* Nothing main.py does to the endpoint hands out credentials.              *)
LEMMA MainHandsNothingOut ==
  ASSUME TypeOK, MainStep \/ Signal \/ \E p \in Protocols : Tick(p)
  PROVE  /\ Writing' \subseteq Writing /\ Offered' = Offered
         /\ servesRemaining' = servesRemaining
<1> USE DEF Writing, Offered, serverVars, wireVars, credVars
<1>1. CASE UNCHANGED <<handler, wireVars, credVars>>
  BY <1>1
<1>2. CASE EndProcess
  BY <1>2 DEF EndProcess
<1>3. UNCHANGED <<handler, wireVars, credVars>> \/ EndProcess
  BY DEF MainStep, StartCredServer, OpenPort, StartResponders, BindStop, BindStopEvent,
     RewakeAfterBind, WakeFromBind, WaitReturns, AllStopped, StopDeadline,
     CommitSnapshots, CommitFinalSnapshots, StopEchoReadClientIp, DrainEnds,
     StopCredServer, ClosePort, FinalizeResults, SaveReport, StopResponder, Signal, Tick
<1> QED BY <1>1, <1>2, <1>3

(* A client comes to hold the credentials only by reading them.             *)
LEMMA OtherClientStepsHandNothingOut ==
  ASSUME TypeInv, NEW c \in Clients,
         \/ LaunchClient(c) \/ SendRequest(c) \/ TransientError(c) \/ PermanentError(c)
         \/ FinishProbes(c) \/ ReceiveAck(c) \/ ReceiveSnapshot(c)
  PROVE  /\ Writing' \subseteq Writing /\ Offered' \subseteq Offered
         /\ Holders' \subseteq Holders
<1> USE DEF TypeInv, TypeOK, CredServerTypeOK, ClientRunTypeOK
<1>1. Writing' \subseteq Writing /\ Offered' \subseteq Offered
  BY ConnInConns DEF InFlightInPhase, Writing, Offered, LaunchClient, SendRequest,
     TransientError, PermanentError, FinishProbes, ReceiveAck, ReceiveSnapshot, HangUp,
     wireVars
<1>2. Holders' \subseteq Holders
  <2>1. inFlight[c] => clPc[c] \in Routes
    BY DEF InFlightInPhase
  <2>2. CASE LaunchClient(c) \/ FinishProbes(c) \/ ReceiveAck(c) \/ ReceiveSnapshot(c)
    BY <2>2 DEF LaunchClient, FinishProbes, ReceiveAck, ReceiveSnapshot, EnterPhase,
       Holders, HasCreds
  <2>3. CASE SendRequest(c)
    BY <2>3 DEF SendRequest, Holders, HasCreds
  <2>4. CASE TransientError(c) \/ PermanentError(c)
    <3>1. \/ clPc' = clPc
          \/ clPc' = [clPc EXCEPT ![c] = AfterFailure[clPc[c]]]
      BY <2>4 DEF TransientError, PermanentError, EnterPhase
    <3>2. clPc[c] \in Routes
      BY <2>1, <2>4 DEF TransientError, PermanentError
    <3> QED BY <3>1, <3>2 DEF AfterFailure, Routes, Holders, HasCreds
  <2> QED BY <2>2, <2>3, <2>4
<1> QED BY <1>1, <1>2

(* A step of the listener leaves the clients where they are.                *)
LEMMA HoldersUnchanged ==
  ASSUME UNCHANGED clientVars
  PROVE  Holders' = Holders
  BY DEF clientVars, Holders, HasCreds

LEMMA ServesBoundStep ==
  ASSUME TypeInv, TypeInv', ServesBound, [Next]_vars
  PROVE  ServesBound'
<1> USE DEF TypeInv
<1>1. CASE ServerStep
  <2>1. PICK k \in Conns : ServerThread(k)
    BY <1>1 DEF ServerStep
  <2>2. Holders' = Holders
    BY <1>1, HoldersUnchanged DEF ServerStep, clientVars
  <2>3. CASE TakeServe(k)
    BY <2>2, <2>3, TakeServeKeepsBound
  <2>4. CASE WriteCreds(k)
    BY <2>2, <2>4, WriteCredsKeepsBound
  <2>5. CASE ~TakeServe(k) /\ ~WriteCreds(k)
    <3>1. /\ Writing' \subseteq Writing /\ Offered' \subseteq Offered
          /\ servesRemaining' = servesRemaining
      BY <2>1, <2>5, OtherHandlersHandNothingOut DEF ServerThread, HandlerStep
    <3> QED BY <2>2, <3>1, NothingHandedOut
  <2> QED BY <2>3, <2>4, <2>5
<1>2. CASE ListenerStep \/ Environment
  <2>1. Holders' = Holders
    BY <1>2, HoldersUnchanged DEF ListenerStep, Environment
  <2>2. /\ Writing' \subseteq Writing /\ Offered' = Offered
        /\ servesRemaining' = servesRemaining
    BY <1>2, MainHandsNothingOut DEF ListenerStep, Environment
  <2> QED BY <2>1, <2>2, NothingHandedOut
<1>3. ASSUME NEW c \in Clients, ClientStep(c)
      PROVE  ServesBound'
  <2>1. servesRemaining' = servesRemaining
    BY <1>3 DEF ClientStep, credVars
  <2>2. CASE ReceiveCreds(c)
    BY <2>1, <2>2, ReceiveCredsKeepsBound
  <2>3. CASE ~ReceiveCreds(c)
    <3>1. /\ Writing' \subseteq Writing /\ Offered' \subseteq Offered
          /\ Holders' \subseteq Holders
      BY <1>3, <2>3, OtherClientStepsHandNothingOut DEF ClientStep, ClientRunStep
    <3> QED BY <2>1, <3>1, NothingHandedOut
  <2> QED BY <2>2, <2>3
<1>4. CASE UNCHANGED vars
  BY <1>4 DEF vars, serverVars, wireVars, credVars, clientVars, ServesBound, Writing,
     Offered, Holders, HasCreds
<1> QED BY <1>1, <1>2, <1>3, <1>4 DEF Next, Over

(* However many clients and attempts there are, and however their requests  *)
(* are retried, lost and interleaved, at most _MAX_SERVES clients ever come *)
(* to hold the credentials (cred_server.py:391-402).                        *)
THEOREM SingleUseAlways == Spec => []SingleUse
<1>1. Init => ServesBound
  <2> SUFFICES ASSUME Init PROVE ServesBound
    OBVIOUS
  <2>1. Writing = {} /\ Offered = {} /\ Holders = {}
    BY DEF Init, CredServerInit, ClientRunInit, Writing, Offered, Holders, HasCreds
  <2>2. servesRemaining = MaxServes /\ MaxServes \in Int
    BY CredServerAssumption DEF Init, CredServerInit, CredServerAssumption
  <2> QED BY <2>1, <2>2, FS_EmptySet DEF ServesBound
<1>2. TypeInv /\ TypeInv' /\ ServesBound /\ [Next]_vars => ServesBound'
  BY ServesBoundStep
<1>3. TypeInv /\ ServesBound => SingleUse
  <2>1. ASSUME TypeInv PROVE servesRemaining \in Nat /\ MaxServes \in Nat
    BY <2>1, CredServerAssumption
       DEF TypeInv, TypeOK, CredServerTypeOK, CredServerAssumption
  <2> QED BY <2>1, TokenCounts DEF ServesBound, SingleUse, Holders
<1> QED BY <1>1, <1>2, <1>3, TypeCorrect, PTL DEF Spec

-----------------------------------------------------------------------------
(* The snapshot.  SnapshotIsFinal is not inductive: a handler holds a copy  *)
(* of the dict long before a client reads it, and the commit must find the  *)
(* responders already down.                                                 *)
SnapshotInv ==
  /\ mainPc \in Teardown \ {"stopping"} =>
       \A p \in Protocols : responder[p] # "running"
  /\ finalSnapshots # NoSnapshots =>
       /\ mainPc \in {"echo", "draining", "closing", "finalizing", "saving", "done", "dead"}
       /\ \A p \in Protocols : responder[p] # "running"
  /\ \A k \in Conns : body[k] \in {NoSnapshots, finalSnapshots}
  /\ \A c \in Clients : gotSnapshot[c] \in {NoSnapshots, finalSnapshots}

LEMMA SnapshotServerStep ==
  ASSUME TypeInv, SnapshotInv, ServerStep
  PROVE  SnapshotInv'
<1>1. PICK k \in Conns : ServerThread(k)
  BY DEF ServerStep
<1>2. UNCHANGED <<mainVars, clientVars>>
  BY DEF ServerStep
<1>3. ReadSnapshot(k) \/ body' = body
  BY <1>1 DEF ServerThread, HandlerStep, Accept, StallInHandshake, Write, RefuseCreds,
     TakeServe, WriteCreds, RefuseSnapshot, WriteSnapshot, MarkDrained, MergeThroughput,
     ReadStopEvent, AckStop, SetStopRequested, WakeMainLoop, wireVars
<1>4. finalSnapshots' = finalSnapshots
  BY <1>1 DEF ServerThread, HandlerStep, Accept, StallInHandshake, RefuseCreds,
     TakeServe, WriteCreds, RefuseSnapshot, ReadSnapshot, WriteSnapshot, MarkDrained,
     MergeThroughput, ReadStopEvent, AckStop, SetStopRequested, WakeMainLoop, snapVars
<1>5. \A j \in Conns : body'[j] \in {body[j], finalSnapshots}
  BY <1>3 DEF ReadSnapshot, TypeInv, TypeOK, CredServerTypeOK
<1> QED BY <1>2, <1>4, <1>5 DEF SnapshotInv, mainVars, clientVars

LEMMA SnapshotListenerStep ==
  ASSUME TypeInv, SnapshotInv, ListenerStep \/ Environment
  PROVE  SnapshotInv'
<1> USE DEF SnapshotInv, TypeInv, TypeOK, ListenerMainTypeOK, Teardown
<1>1. gotSnapshot' = gotSnapshot
  BY DEF ListenerStep, Environment, clientVars
<1>2. CASE StartCredServer \/ BindStop \/ RewakeAfterBind \/ StopCredServer
  BY <1>1, <1>2 DEF StartCredServer, OpenPort, EndProcess, BindStop, BindStopEvent,
     RewakeAfterBind, WakeFromBind, StopCredServer, ClosePort, snapVars, wireVars
<1>3. CASE StartResponders
  BY <1>1, <1>3 DEF StartResponders, EndProcess, serverVars, snapVars, wireVars
<1>4. CASE \/ WaitReturns \/ StopEchoReadClientIp \/ DrainEnds \/ FinalizeResults
           \/ \E p \in Protocols : Tick(p)
  BY <1>1, <1>4 DEF WaitReturns, StopEchoReadClientIp, DrainEnds, FinalizeResults, Tick,
     serverVars, snapVars, wireVars
<1>5. CASE AllStopped \/ StopDeadline \/ \E p \in Protocols : StopResponder(p)
  BY <1>1, <1>5 DEF AllStopped, StopDeadline, StopResponder, serverVars, snapVars, wireVars
<1>6. CASE CommitSnapshots
  BY <1>1, <1>6 DEF CommitSnapshots, CommitFinalSnapshots, wireVars
<1>7. CASE SaveReport \/ Signal
  BY <1>1, <1>7 DEF SaveReport, Signal, EndProcess, Ended, serverVars, snapVars, wireVars
<1> QED BY <1>2, <1>3, <1>4, <1>5, <1>6, <1>7 DEF ListenerStep, MainStep, Environment

LEMMA SnapshotClientStep ==
  ASSUME TypeInv, SnapshotInv, NEW c \in Clients, ClientStep(c)
  PROVE  SnapshotInv'
<1> USE DEF TypeInv, TypeOK, CredServerTypeOK, ClientRunTypeOK
<1>1. UNCHANGED <<mainVars, snapVars>>
  BY DEF ClientStep
<1>2. body' = body
  BY DEF ClientStep, ClientRunStep, LaunchClient, SendRequest, TransientError,
     PermanentError, ReceiveCreds, FinishProbes, ReceiveAck, ReceiveSnapshot, HangUp,
     wireVars
<1>3. CASE ReceiveSnapshot(c)
  <2>1. Conn(c) \in Conns
    BY <1>3, ConnInConns DEF ReceiveSnapshot, Routes
  <2> QED BY <1>1, <1>2, <1>3, <2>1 DEF ReceiveSnapshot, SnapshotInv, mainVars, snapVars
<1>4. CASE gotSnapshot' = gotSnapshot
  BY <1>1, <1>2, <1>4 DEF SnapshotInv, mainVars, snapVars
<1>5. ReceiveSnapshot(c) \/ gotSnapshot' = gotSnapshot
  BY DEF ClientStep, ClientRunStep, LaunchClient, SendRequest, TransientError,
     PermanentError, ReceiveCreds, FinishProbes, ReceiveAck
<1> QED BY <1>3, <1>4, <1>5

THEOREM SnapshotInvAlways == Spec => []SnapshotInv
<1>1. Init => SnapshotInv
  BY DEF Init, CredServerInit, ListenerMainInit, ClientRunInit, SnapshotInv, Teardown
<1>2. TypeInv /\ SnapshotInv /\ [Next]_vars => SnapshotInv'
  <2>1. UNCHANGED vars /\ SnapshotInv => SnapshotInv'
    BY DEF vars, serverVars, snapVars, wireVars, mainVars, clientVars, SnapshotInv
  <2> QED BY <2>1, SnapshotServerStep, SnapshotListenerStep, SnapshotClientStep
          DEF Next, Over
<1> QED BY <1>1, <1>2, TypeCorrect, PTL DEF Spec

(* No client ever reads a view of the session taken before the responders   *)
(* were down, or one that differs from the dict that was committed          *)
(* (cred_server.py:433-440, main.py:571-580).                               *)
THEOREM SnapshotIsFinalAlways == Spec => []SnapshotIsFinal
<1>1. SnapshotInv => SnapshotIsFinal
  BY DEF SnapshotInv, SnapshotIsFinal
<1> QED BY <1>1, SnapshotInvAlways, PTL

-----------------------------------------------------------------------------
(* The report.  What the listener saves is the draft it finalised, and      *)
(* whatever was read of a latched counter after its stop() still holds.     *)
Committed == {"echo", "draining", "closing", "finalizing", "saving", "done"}

ReportInv ==
  /\ mainPc \in Committed => finalSnapshots # NoSnapshots
  /\ draft # NoReport => mainPc \in {"saving", "done", "dead"}
  /\ report # NoReport => report = draft /\ mainPc = "done"

Frozen(p) == p \in Latched /\ responder[p] = "stopped"

LatchInv ==
  \A p \in Protocols : Frozen(p) =>
    /\ finalSnapshots # NoSnapshots /\ finalSnapshots[p] # "error"
       => (finalSnapshots[p] = "seen") = saw[p]
    /\ draft # NoReport => draft.results[p] = saw[p]

ViewInv == TypeInv /\ SnapshotInv /\ ReportInv /\ LatchInv

LEMMA ReportListenerStep ==
  ASSUME TypeInv, SnapshotInv, ReportInv, ListenerStep \/ Environment
  PROVE  ReportInv'
<1> USE DEF ReportInv, Committed
<1>1. CASE CommitSnapshots
  <2>1. finalSnapshots' \in Snapshots
    BY <1>1 DEF CommitSnapshots, CommitFinalSnapshots, Snapshots
  <2>2. finalSnapshots' # NoSnapshots
    BY <2>1, CredServerAssumption DEF CredServerAssumption, Snapshots
  <2> QED BY <1>1, <2>2 DEF CommitSnapshots
<1>2. CASE StartCredServer \/ StartResponders \/ BindStop \/ RewakeAfterBind \/ WaitReturns
  BY <1>2 DEF StartCredServer, OpenPort, EndProcess, StartResponders, BindStop,
     BindStopEvent, RewakeAfterBind, WakeFromBind, WaitReturns, serverVars, snapVars
<1>3. CASE \/ AllStopped \/ StopDeadline \/ StopEchoReadClientIp \/ DrainEnds
           \/ StopCredServer \/ \E p \in Protocols : StopResponder(p) \/ Tick(p)
  BY <1>3 DEF AllStopped, StopDeadline, StopEchoReadClientIp, DrainEnds, StopCredServer,
     ClosePort, StopResponder, Tick, serverVars, snapVars
<1>4. CASE FinalizeResults
  BY <1>4 DEF FinalizeResults, serverVars, snapVars
<1>5. CASE SaveReport
  BY <1>5 DEF SaveReport, EndProcess, snapVars
<1>6. CASE Signal
  BY <1>6 DEF Signal, EndProcess, Ended, serverVars, snapVars
<1> QED BY <1>1, <1>2, <1>3, <1>4, <1>5, <1>6 DEF ListenerStep, MainStep, Environment

LEMMA LatchListenerStep ==
  ASSUME TypeInv, SnapshotInv, ReportInv, LatchInv, ListenerStep \/ Environment
  PROVE  LatchInv'
<1> USE DEF LatchInv, Frozen, TypeInv, TypeOK, ListenerMainTypeOK
<1>1. CASE UNCHANGED <<responder, saw, finalSnapshots, draft>>
  BY <1>1
<1>2. \/ UNCHANGED <<responder, saw, finalSnapshots, draft>>
      \/ StartResponders \/ StopDeadline \/ CommitSnapshots \/ FinalizeResults
      \/ \E p \in Protocols : StopResponder(p) \/ Tick(p)
  BY DEF ListenerStep, Environment, MainStep, StartCredServer, OpenPort, EndProcess,
     BindStop, BindStopEvent, RewakeAfterBind, WakeFromBind, WaitReturns, AllStopped,
     StopEchoReadClientIp, DrainEnds, StopCredServer, ClosePort, SaveReport, Signal,
     serverVars, snapVars
<1>3. CASE StartResponders
  BY <1>3 DEF StartResponders
<1>4. CASE StopDeadline
  BY <1>4 DEF StopDeadline, serverVars, snapVars
<1>5. ASSUME NEW p \in Protocols, StopResponder(p)
      PROVE  LatchInv'
  BY <1>5 DEF StopResponder, serverVars, snapVars, SnapshotInv, ReportInv
<1>6. ASSUME NEW p \in Protocols, Tick(p)
      PROVE  LatchInv'
  BY <1>6 DEF Tick, serverVars, snapVars
<1>7. CASE CommitSnapshots
  <2>1. PICK seen \in [Protocols -> BOOLEAN], broken \in SUBSET Started :
          /\ \A p \in Protocols : seen[p] \in Reading(p)
          /\ finalSnapshots' = [p \in Protocols |->
               IF p \in broken THEN "error" ELSE IF seen[p] THEN "seen" ELSE "unseen"]
    BY <1>7 DEF CommitSnapshots, CommitFinalSnapshots
  <2>2. \A p \in Protocols : Frozen(p) => seen[p] = saw[p]
    BY <2>1 DEF Reading
  <2>3. UNCHANGED <<responder, saw, draft>>
    BY <1>7 DEF CommitSnapshots
  <2> QED BY <2>1, <2>2, <2>3
<1>8. CASE FinalizeResults
  <2>1. PICK seen \in [Protocols -> BOOLEAN] :
          /\ \A p \in Protocols : seen[p] \in Reading(p)
          /\ draft'.results = seen
    BY <1>8 DEF FinalizeResults
  <2>2. \A p \in Protocols : Frozen(p) => seen[p] = saw[p]
    BY <2>1 DEF Reading
  <2>3. UNCHANGED <<responder, saw, finalSnapshots>>
    BY <1>8 DEF FinalizeResults, serverVars, snapVars
  <2> QED BY <2>1, <2>2, <2>3
<1> QED BY <1>1, <1>2, <1>3, <1>4, <1>5, <1>6, <1>7, <1>8

LEMMA ViewInvStep ==
  ASSUME ViewInv, TypeInv', SnapshotInv', [Next]_vars
  PROVE  ViewInv'
<1> USE DEF ViewInv
<1>1. CASE UNCHANGED <<mainVars, finalSnapshots>>
  BY <1>1 DEF mainVars, ReportInv, LatchInv, Frozen
<1>2. CASE ServerStep
  <2>1. finalSnapshots' = finalSnapshots
    BY <1>2 DEF ServerStep, ServerThread, HandlerStep, Accept, StallInHandshake,
       RefuseCreds, TakeServe, WriteCreds, RefuseSnapshot, ReadSnapshot, WriteSnapshot,
       MarkDrained, MergeThroughput, ReadStopEvent, AckStop, SetStopRequested,
       WakeMainLoop, snapVars
  <2> QED BY <1>1, <1>2, <2>1 DEF ServerStep
<1>3. CASE ListenerStep \/ Environment
  BY <1>3, ReportListenerStep, LatchListenerStep
<1>4. CASE \E c \in Clients : ClientStep(c)
  BY <1>1, <1>4 DEF ClientStep, snapVars
<1>5. CASE UNCHANGED vars
  BY <1>1, <1>5 DEF vars, serverVars, snapVars
<1> QED BY <1>2, <1>3, <1>4, <1>5 DEF Next, Over

THEOREM ViewInvAlways == Spec => []ViewInv
<1>1. Init => ReportInv /\ LatchInv
  BY DEF Init, CredServerInit, ListenerMainInit, ReportInv, LatchInv, Committed
<1>2. ViewInv /\ TypeInv' /\ SnapshotInv' /\ [Next]_vars => ViewInv'
  BY ViewInvStep
<1> QED BY <1>1, <1>2, TypeCorrect, SnapshotInvAlways, PTL DEF Spec, ViewInv

(* For every protocol whose stop() ran to its end and latched its counter,  *)
(* the snapshot the client may have read and the report on disk agree       *)
(* (main.py:571-580 and 629-635).                                           *)
THEOREM LatchedViewsAgreeAlways == Spec => []LatchedViewsAgree
<1>1. ViewInv => LatchedViewsAgree
  BY ListenerMainAssumption
     DEF ViewInv, ReportInv, Committed, LatchInv, Frozen, LatchedViewsAgree,
         ListenerMainAssumption
<1> QED BY <1>1, ViewInvAlways, PTL

-----------------------------------------------------------------------------
(* client_connected.  The chain from a wake-up back to a served /creds: the *)
(* main loop was woken by a /stop handler, a client posts /stop only when   *)
(* it holds the credentials, and whoever holds them was given them by a     *)
(* handler that had recorded a peer address first.                          *)
ServedInv ==
  /\ \A k \in Conns : handler[k] = "write_creds" => clientIp # NoClient
  /\ \A k \in Conns : reply[k] = "creds" => clientIp # NoClient
  /\ \A c \in Clients : HasCreds(c) => clientIp # NoClient

WokenInv ==
  /\ \A k \in Conns : Route(k) = "stop" /\ handler[k] # "none" => clientIp # NoClient
  /\ stopRequested \/ remoteStop => clientIp # NoClient
  /\ mainPc = "rewake" => stopRequested

ConnectedInv ==
  /\ mainPc \in Teardown /\ ~gotSignal => clientIp # NoClient
  /\ mainPc \in {"draining", "closing", "finalizing", "saving", "done"} /\ ~gotSignal
       => readIp # NoClient
  /\ draft # NoReport /\ ~gotSignal => draft.connected

PeerInv == TypeInv /\ ReportInv /\ ServedInv /\ WokenInv /\ ConnectedInv

(* A recorded peer is never forgotten.                                      *)
LEMMA PeerStays ==
  ASSUME TypeInv, [Next]_vars, clientIp # NoClient
  PROVE  clientIp' # NoClient
<1>1. clientIp' = clientIp \/ \E k \in Conns : TakeServe(k)
  BY DEF Next, Over, ServerStep, ListenerStep, Environment, ClientStep, ServerThread,
     HandlerStep, Accept, StallInHandshake, RefuseCreds, WriteCreds, RefuseSnapshot,
     ReadSnapshot, WriteSnapshot, MarkDrained, MergeThroughput, ReadStopEvent, AckStop,
     SetStopRequested, WakeMainLoop, MainStep, StartCredServer, OpenPort, EndProcess,
     StartResponders, BindStop, BindStopEvent, RewakeAfterBind, WakeFromBind,
     WaitReturns, AllStopped, StopDeadline, CommitSnapshots, CommitFinalSnapshots,
     StopEchoReadClientIp, DrainEnds, StopCredServer, ClosePort, FinalizeResults,
     SaveReport, StopResponder, Signal, Tick, vars, serverVars, credVars
<1> QED BY <1>1 DEF TakeServe

LEMMA PeerServerStep ==
  ASSUME PeerInv, ServerStep
  PROVE  ServedInv' /\ WokenInv' /\ ConnectedInv'
<1> USE DEF PeerInv, TypeInv, TypeOK, CredServerTypeOK
<1>1. PICK k \in Conns : ServerThread(k)
  BY DEF ServerStep
<1>2. UNCHANGED <<mainVars, clientVars>>
  BY DEF ServerStep
<1>3. clientIp # NoClient => clientIp' # NoClient
  BY PeerStays DEF Next
<1>4. \A c \in Clients : HasCreds(c)' = HasCreds(c)
  BY <1>2 DEF HasCreds, clientVars
<1>5. CASE TakeServe(k)
  <2>1. clientIp' # NoClient
    BY <1>5, ConnFields, CredServerAssumption DEF TakeServe, CredServerAssumption
  <2>2. stopRequested' = stopRequested
    BY <1>5 DEF TakeServe, stopVars
  <2> QED BY <1>2, <2>1, <2>2 DEF ServedInv, WokenInv, ConnectedInv, mainVars
<1>6. CASE WriteCreds(k)
  <2>1. /\ clientIp # NoClient
        /\ UNCHANGED <<stopRequested, remoteStop>>
    BY <1>6 DEF WriteCreds, At, ServedInv, stopVars
  <2> QED BY <1>2, <1>3, <2>1 DEF ServedInv, WokenInv, ConnectedInv, mainVars
<1>7. CASE ~TakeServe(k) /\ ~WriteCreds(k)
  <2>1. \A j \in Conns : /\ handler'[j] = "write_creds" => handler[j] = "write_creds"
                         /\ reply'[j] = "creds" => reply[j] = "creds"
    BY <1>1, <1>7, OtherHandlersHandNothingOut
       DEF ServerThread, HandlerStep, Writing, Offered
  <2>2. \A j \in Conns : handler'[j] # "none" => handler[j] # "none"
    BY <1>1, <1>7 DEF ServerThread, HandlerStep, Accept, StallInHandshake, At, Write,
       RefuseCreds, RefuseSnapshot, ReadSnapshot, WriteSnapshot, MarkDrained,
       MergeThroughput, ReadStopEvent, AckStop, SetStopRequested, WakeMainLoop
  <2>3. \/ UNCHANGED <<stopRequested, remoteStop>>
        \/ /\ SetStopRequested(k) \/ WakeMainLoop(k)
           /\ stopRequested => stopRequested'
    BY <1>1, <1>7 DEF ServerThread, HandlerStep, Accept, StallInHandshake, RefuseCreds,
       RefuseSnapshot, ReadSnapshot, WriteSnapshot, MarkDrained, MergeThroughput,
       ReadStopEvent, AckStop, SetStopRequested, WakeMainLoop, stopVars
  <2>4. SetStopRequested(k) \/ WakeMainLoop(k) => clientIp # NoClient
    BY DEF SetStopRequested, WakeMainLoop, At, WokenInv
  <2> QED BY <1>2, <1>3, <1>4, <2>1, <2>2, <2>3, <2>4
          DEF ServedInv, WokenInv, ConnectedInv, mainVars
<1> QED BY <1>5, <1>6, <1>7

LEMMA PeerListenerStep ==
  ASSUME PeerInv, ListenerStep \/ Environment
  PROVE  ServedInv' /\ WokenInv' /\ ConnectedInv'
<1> USE DEF PeerInv, TypeInv, TypeOK, CredServerTypeOK
<1>1. clientIp' = clientIp /\ reply' = reply
  BY DEF ListenerStep, Environment, MainStep, StartCredServer, OpenPort, EndProcess,
     StartResponders, BindStop, BindStopEvent, RewakeAfterBind, WakeFromBind,
     WaitReturns, AllStopped, StopDeadline, CommitSnapshots, CommitFinalSnapshots,
     StopEchoReadClientIp, DrainEnds, StopCredServer, ClosePort, FinalizeResults,
     SaveReport, StopResponder, Signal, Tick, serverVars, credVars, wireVars
<1>2. \A k \in Conns : /\ handler'[k] = "write_creds" => handler[k] = "write_creds"
                       /\ handler'[k] # "none" => handler[k] # "none"
  <2>1. handler' = handler \/ EndProcess
    BY DEF ListenerStep, Environment, MainStep, StartCredServer, OpenPort,
       StartResponders, BindStop, BindStopEvent, RewakeAfterBind, WakeFromBind,
       WaitReturns, AllStopped, StopDeadline, CommitSnapshots, CommitFinalSnapshots,
       StopEchoReadClientIp, DrainEnds, StopCredServer, ClosePort, FinalizeResults,
       SaveReport, StopResponder, Signal, Tick, serverVars
  <2> QED BY <2>1 DEF EndProcess
<1>3. ServedInv'
  BY <1>1, <1>2 DEF ServedInv, HasCreds, ListenerStep, Environment, clientVars
<1>4. WokenInv'
  <2>1. CASE UNCHANGED <<stopRequested, remoteStop>> /\ mainPc' # "rewake"
    BY <1>1, <1>2, <2>1 DEF WokenInv
  <2>2. CASE BindStop
    BY <1>1, <1>2, <2>2 DEF WokenInv, BindStop, BindStopEvent
  <2>3. CASE RewakeAfterBind
    BY <1>1, <1>2, <2>3 DEF WokenInv, RewakeAfterBind, WakeFromBind
  <2>4. CASE UNCHANGED <<stopRequested, remoteStop, mainPc>>
    BY <1>1, <1>2, <2>4 DEF WokenInv
  <2> QED BY <2>1, <2>2, <2>3, <2>4 DEF ListenerStep, Environment, MainStep,
     StartCredServer, OpenPort, EndProcess, StartResponders, WaitReturns, AllStopped,
     StopDeadline, CommitSnapshots, CommitFinalSnapshots, StopEchoReadClientIp,
     DrainEnds, StopCredServer, ClosePort, FinalizeResults, SaveReport, StopResponder,
     Signal, Tick, serverVars, stopVars
<1>5. ConnectedInv'
  <2> USE <1>1 DEF ConnectedInv, Teardown
  <2>1. CASE StartCredServer \/ StartResponders \/ BindStop \/ RewakeAfterBind
    BY <2>1 DEF StartCredServer, StartResponders, BindStop, RewakeAfterBind, ReportInv
  <2>2. CASE WaitReturns
    BY <2>2 DEF WaitReturns, WokenInv
  <2>3. CASE \/ AllStopped \/ StopDeadline \/ CommitSnapshots \/ DrainEnds
             \/ StopCredServer \/ SaveReport
             \/ \E p \in Protocols : StopResponder(p) \/ Tick(p)
    BY <2>3 DEF AllStopped, StopDeadline, CommitSnapshots, DrainEnds, StopCredServer,
       SaveReport, StopResponder, Tick
  <2>4. CASE StopEchoReadClientIp
    BY <2>4 DEF StopEchoReadClientIp
  <2>5. CASE FinalizeResults
    <3>1. PICK seen \in [Protocols -> BOOLEAN] :
            draft' = [connected |-> readIp # NoClient, results |-> seen,
                      throughput |-> clientThroughput \cap Started]
      BY <2>5 DEF FinalizeResults
    <3>2. draft'.connected = (readIp # NoClient)
      BY <3>1
    <3>3. ~gotSignal => readIp # NoClient /\ clientIp # NoClient
      BY <2>5 DEF FinalizeResults
    <3>4. UNCHANGED <<gotSignal, readIp>> /\ mainPc' = "saving"
      BY <2>5 DEF FinalizeResults
    <3>5. draft' # NoReport /\ ~gotSignal' => draft'.connected
      BY <3>2, <3>3, <3>4
    <3> QED BY <3>3, <3>4, <3>5
  <2>6. CASE Signal
    BY <2>6 DEF Signal, Ended, ReportInv
  <2> QED BY <2>1, <2>2, <2>3, <2>4, <2>5, <2>6 DEF ListenerStep, Environment, MainStep
<1> QED BY <1>3, <1>4, <1>5

LEMMA PeerClientStep ==
  ASSUME PeerInv, NEW c \in Clients, ClientStep(c)
  PROVE  ServedInv' /\ WokenInv' /\ ConnectedInv'
<1> USE DEF PeerInv, TypeInv, TypeOK, CredServerTypeOK, ClientRunTypeOK
<1>1. UNCHANGED <<mainVars, clientIp, stopRequested, remoteStop>>
  BY DEF ClientStep, credVars, stopVars
<1>2. ConnectedInv'
  BY <1>1 DEF ConnectedInv, mainVars
<1>3. inFlight[c] => clPc[c] \in Routes
  BY DEF InFlightInPhase
<1>4. CASE SendRequest(c)
  <2>1. Conn(c) \in Conns /\ Route(Conn(c)) = clPc[c]
    BY <1>4, ConnInConns DEF SendRequest, Conn, Route
  <2>2. clPc[c] = "stop" => clientIp # NoClient
    BY DEF ServedInv, HasCreds
  <2>3. \A k \in Conns : handler'[k] # handler[k] => k = Conn(c) /\ handler'[k] = "queued"
    BY <1>4 DEF SendRequest
  <2> QED BY <1>1, <1>2, <1>4, <2>1, <2>2, <2>3
          DEF SendRequest, ServedInv, WokenInv, HasCreds, wireVars, mainVars
<1>5. CASE ~SendRequest(c)
  <2>1. handler' = handler /\ \A k \in Conns : reply'[k] = "creds" => reply[k] = "creds"
    <3>1. handler' = handler
      BY <1>5 DEF ClientStep, ClientRunStep, LaunchClient, TransientError,
         PermanentError, ReceiveCreds, FinishProbes, ReceiveAck, ReceiveSnapshot
    <3>2. reply' = reply \/ reply' = [reply EXCEPT ![Conn(c)] = "none"]
      BY <1>5 DEF ClientStep, ClientRunStep, LaunchClient, TransientError,
         PermanentError, ReceiveCreds, FinishProbes, ReceiveAck, ReceiveSnapshot, HangUp,
         wireVars
    <3> QED BY <3>1, <3>2
  <2>2. \A d \in Clients : HasCreds(d)' => clientIp # NoClient
    <3>1. CASE ReceiveCreds(c)
      <4>1. Conn(c) \in Conns
        BY <3>1, ConnInConns DEF ReceiveCreds, Routes
      <4> QED BY <3>1, <4>1 DEF ReceiveCreds, EnterPhase, ServedInv, HasCreds
    <3>2. CASE ~ReceiveCreds(c)
      <4>1. Holders' \subseteq Holders
        BY <1>5, <3>2, OtherClientStepsHandNothingOut DEF ClientStep, ClientRunStep
      <4> QED BY <4>1 DEF Holders, ServedInv
    <3> QED BY <3>1, <3>2
  <2> QED BY <1>1, <1>2, <2>1, <2>2 DEF ServedInv, WokenInv, mainVars
<1> QED BY <1>4, <1>5

THEOREM PeerInvAlways == Spec => []PeerInv
<1>1. Init => ServedInv /\ WokenInv /\ ConnectedInv
  BY DEF Init, CredServerInit, ListenerMainInit, ClientRunInit, ServedInv, WokenInv,
     ConnectedInv, Teardown, HasCreds
<1>2. PeerInv /\ TypeInv' /\ ReportInv' /\ [Next]_vars => PeerInv'
  <2>1. UNCHANGED vars /\ PeerInv => ServedInv' /\ WokenInv' /\ ConnectedInv'
    BY DEF vars, serverVars, credVars, stopVars, wireVars, mainVars, clientVars,
       PeerInv, ServedInv, WokenInv, ConnectedInv, HasCreds
  <2> QED BY <2>1, PeerServerStep, PeerListenerStep, PeerClientStep
          DEF PeerInv, Next, Over
<1>3. ViewInv => TypeInv /\ ReportInv
  BY DEF ViewInv
<1> QED BY <1>1, <1>2, <1>3, ViewInvAlways, PTL DEF Spec, PeerInv

(* A session that a client ended is never saved as one that no client       *)
(* reached: client_ip, read after the responders are down, names a client   *)
(* (main.py:592, cred_server.py:391-402).                                   *)
THEOREM RemoteStopMeansConnectedAlways == Spec => []RemoteStopMeansConnected
<1>1. PeerInv => RemoteStopMeansConnected
  BY DEF PeerInv, ReportInv, ConnectedInv, RemoteStopMeansConnected
<1> QED BY <1>1, PeerInvAlways, PTL

-----------------------------------------------------------------------------
(* Who ended the session.  The chain from a wake-up back to its client: the *)
(* main loop was woken by a /stop handler, which had merged the numbers of  *)
(* its client first; and a client posts /stop only after its probes, and    *)
(* never probes again.                                                      *)
Merged == {"read_event", "ack_bound", "ack_unbound", "set_bound", "set_unbound", "wake"}

Heard(c) == clPc[c] \in PastProbes /\ measured[c] \subseteq clientThroughput
Kept(c) == clPc[c] \in PastProbes /\ measured[c] \cap Started \subseteq draft.throughput

PostedInv ==
  \A k \in Conns : Route(k) = "stop" =>
    /\ handler[k] # "none" => clPc[Client(k)] \in PastProbes
    /\ handler[k] \in Merged => measured[Client(k)] \subseteq clientThroughput

HeardInv ==
  /\ stopRequested \/ remoteStop => \E c \in Clients : Heard(c)
  /\ mainPc = "rewake" => stopRequested
  /\ mainPc \in Teardown /\ ~gotSignal => \E c \in Clients : Heard(c)
  /\ draft # NoReport /\ ~gotSignal => \E c \in Clients : Kept(c)

StopperInv == TypeInv /\ ReportInv /\ PostedInv /\ HeardInv

LEMMA StopperServerStep ==
  ASSUME StopperInv, ServerStep
  PROVE  PostedInv' /\ HeardInv'
<1> USE DEF StopperInv, TypeInv, TypeOK, CredServerTypeOK
<1>1. PICK k \in Conns : ServerThread(k)
  BY DEF ServerStep
<1>2. UNCHANGED <<mainVars, clientVars>>
  BY DEF ServerStep
<1>3. clientThroughput \subseteq clientThroughput'
  BY <1>1 DEF ServerThread, HandlerStep, Accept, StallInHandshake, RefuseCreds, TakeServe,
     WriteCreds, RefuseSnapshot, ReadSnapshot, WriteSnapshot, MarkDrained, MergeThroughput,
     ReadStopEvent, AckStop, SetStopRequested, WakeMainLoop, stopVars
<1>4. \A c \in Clients : (Heard(c) => Heard(c)') /\ (Kept(c) => Kept(c)')
  BY <1>2, <1>3 DEF Heard, Kept, Started, mainVars, clientVars
<1>5. \A j \in Conns : handler'[j] # "none" => handler[j] # "none"
  BY <1>1 DEF ServerThread, HandlerStep, Accept, StallInHandshake, At, Write, RefuseCreds,
     TakeServe, WriteCreds, RefuseSnapshot, ReadSnapshot, WriteSnapshot, MarkDrained,
     MergeThroughput, ReadStopEvent, AckStop, SetStopRequested, WakeMainLoop
<1>6. ASSUME NEW j \in Conns, Route(j) = "stop", handler'[j] \in Merged, handler[j] \notin Merged
      PROVE  j = k /\ MergeThroughput(k, measured[Client(k)])
  <2>1. handler'[j] # handler[j]
    BY <1>6
  <2>2. j = k
    BY <1>1, <2>1 DEF ServerThread, HandlerStep, Accept, StallInHandshake, Write, RefuseCreds,
       TakeServe, WriteCreds, RefuseSnapshot, ReadSnapshot, WriteSnapshot, MarkDrained,
       MergeThroughput, ReadStopEvent, AckStop, SetStopRequested, WakeMainLoop
  <2>3. ~(Accept(k) \/ StallInHandshake(k))
    BY <1>6, <2>1, <2>2 DEF Accept, StallInHandshake, Merged
  <2>4. ~(RefuseCreds(k) \/ TakeServe(k) \/ WriteCreds(k) \/ RefuseSnapshot(k) \/ ReadSnapshot(k)
           \/ WriteSnapshot(k) \/ MarkDrained(k))
    BY <1>6, <2>2 DEF At, RefuseCreds, TakeServe, WriteCreds, RefuseSnapshot, ReadSnapshot,
       WriteSnapshot, MarkDrained
  <2>5. ~(ReadStopEvent(k) \/ AckStop(k) \/ SetStopRequested(k) \/ WakeMainLoop(k))
    BY <1>6, <2>2 DEF At, ReadStopEvent, AckStop, SetStopRequested, WakeMainLoop, Merged
  <2> QED BY <1>1, <2>2, <2>3, <2>4, <2>5 DEF ServerThread, HandlerStep
<1>7. PostedInv'
  <2> SUFFICES ASSUME NEW j \in Conns, Route(j) = "stop"
               PROVE  /\ handler'[j] # "none" => clPc'[Client(j)] \in PastProbes
                      /\ handler'[j] \in Merged => measured'[Client(j)] \subseteq clientThroughput'
    BY DEF PostedInv
  <2>1. MergeThroughput(k, measured[Client(k)]) => measured[Client(k)] \subseteq clientThroughput'
    BY DEF MergeThroughput
  <2>2. UNCHANGED <<clPc, measured>>
    BY <1>2 DEF clientVars
  <2> QED BY <1>3, <1>5, <1>6, <2>1, <2>2 DEF PostedInv
<1>8. HeardInv'
  <2>1. \/ UNCHANGED <<stopRequested, remoteStop>>
        \/ /\ SetStopRequested(k) \/ WakeMainLoop(k)
           /\ stopRequested => stopRequested'
    BY <1>1 DEF ServerThread, HandlerStep, Accept, StallInHandshake, RefuseCreds, TakeServe, WriteCreds,
       RefuseSnapshot, ReadSnapshot, WriteSnapshot, MarkDrained, MergeThroughput,
       ReadStopEvent, AckStop, SetStopRequested, WakeMainLoop, stopVars
  <2>2. SetStopRequested(k) \/ WakeMainLoop(k) => Heard(Client(k)) /\ Client(k) \in Clients
    BY ConnFields DEF SetStopRequested, WakeMainLoop, At, PostedInv, Heard, Merged
  <2> QED BY <1>2, <1>4, <2>1, <2>2 DEF HeardInv, mainVars
<1> QED BY <1>7, <1>8

LEMMA StopperListenerStep ==
  ASSUME StopperInv, ListenerStep \/ Environment
  PROVE  PostedInv' /\ HeardInv'
<1> USE DEF StopperInv, TypeInv, TypeOK, CredServerTypeOK, ListenerMainTypeOK
<1>1. clientThroughput' = clientThroughput /\ UNCHANGED clientVars
  BY DEF ListenerStep, Environment, MainStep, StartCredServer, OpenPort, EndProcess,
     StartResponders, BindStop, BindStopEvent, RewakeAfterBind, WakeFromBind,
     WaitReturns, AllStopped, StopDeadline, CommitSnapshots, CommitFinalSnapshots,
     StopEchoReadClientIp, DrainEnds, StopCredServer, ClosePort, FinalizeResults,
     SaveReport, StopResponder, Signal, Tick, serverVars, stopVars
<1>2. \A c \in Clients : Heard(c)' = Heard(c)
  BY <1>1 DEF Heard, clientVars
<1>3. ASSUME NEW k \in Conns
      PROVE  handler'[k] = handler[k] \/ handler'[k] = "none" \/ (handler'[k] = "done" /\ handler[k] # "none")
  <2>1. CASE handler' = handler
    BY <2>1
  <2>2. CASE EndProcess
    <3>1. handler' = [j \in Conns |-> IF handler[j] \in {"none", "queued"} THEN "none" ELSE "done"]
      BY <2>2 DEF EndProcess
    <3>2. CASE handler[k] \in {"none", "queued"}
      BY <3>1, <3>2
    <3>3. CASE handler[k] \notin {"none", "queued"}
      BY <3>1, <3>3
    <3> QED BY <3>2, <3>3
  <2>3. handler' = handler \/ EndProcess
    BY DEF ListenerStep, Environment, MainStep, StartCredServer, OpenPort,
       StartResponders, BindStop, BindStopEvent, RewakeAfterBind, WakeFromBind,
       WaitReturns, AllStopped, StopDeadline, CommitSnapshots, CommitFinalSnapshots,
       StopEchoReadClientIp, DrainEnds, StopCredServer, ClosePort, FinalizeResults,
       SaveReport, StopResponder, Signal, Tick, serverVars
  <2> QED BY <2>1, <2>2, <2>3
<1>4. PostedInv'
  BY <1>1, <1>3 DEF PostedInv, Merged, clientVars
<1>5. (stopRequested \/ remoteStop => \E c \in Clients : Heard(c))'
  <2>1. CASE UNCHANGED <<stopRequested, remoteStop>>
    BY <1>2, <2>1 DEF HeardInv
  <2>2. CASE BindStop
    BY <1>2, <2>2 DEF HeardInv, BindStop, BindStopEvent
  <2>3. CASE RewakeAfterBind
    BY <1>2, <2>3 DEF HeardInv, RewakeAfterBind, WakeFromBind
  <2> QED BY <2>1, <2>2, <2>3 DEF ListenerStep, Environment, MainStep,
     StartCredServer, OpenPort, EndProcess, StartResponders, WaitReturns, AllStopped,
     StopDeadline, CommitSnapshots, CommitFinalSnapshots, StopEchoReadClientIp,
     DrainEnds, StopCredServer, ClosePort, FinalizeResults, SaveReport, StopResponder,
     Signal, Tick, serverVars, stopVars
<1>6. (mainPc = "rewake" => stopRequested)'
  <2>1. CASE mainPc' # "rewake"
    BY <2>1
  <2>2. CASE BindStop
    BY <2>2 DEF BindStop, BindStopEvent
  <2>3. CASE UNCHANGED <<stopRequested, mainPc>>
    BY <2>3 DEF HeardInv
  <2> QED BY <2>1, <2>2, <2>3 DEF ListenerStep, Environment, MainStep,
     StartCredServer, StartResponders, RewakeAfterBind, WaitReturns, AllStopped,
     StopDeadline, CommitSnapshots, CommitFinalSnapshots, StopEchoReadClientIp,
     DrainEnds, StopCredServer, FinalizeResults, SaveReport, StopResponder,
     Signal, Tick, serverVars, stopVars
<1>7. (mainPc \in Teardown /\ ~gotSignal => \E c \in Clients : Heard(c))'
  <2> USE <1>2 DEF Teardown
  <2>1. CASE StartCredServer \/ StartResponders \/ BindStop \/ RewakeAfterBind
    BY <2>1 DEF StartCredServer, StartResponders, BindStop, RewakeAfterBind
  <2>2. CASE WaitReturns
    BY <2>2 DEF WaitReturns, HeardInv
  <2>3. CASE \/ AllStopped \/ StopDeadline \/ CommitSnapshots \/ DrainEnds
             \/ StopCredServer \/ SaveReport \/ StopEchoReadClientIp \/ FinalizeResults
             \/ \E p \in Protocols : StopResponder(p) \/ Tick(p)
    BY <2>3 DEF AllStopped, StopDeadline, CommitSnapshots, DrainEnds, StopCredServer,
       SaveReport, StopResponder, Tick, StopEchoReadClientIp, FinalizeResults, HeardInv
  <2>4. CASE Signal
    BY <2>4 DEF Signal, HeardInv
  <2> QED BY <2>1, <2>2, <2>3, <2>4 DEF ListenerStep, Environment, MainStep
<1>8. (draft # NoReport /\ ~gotSignal => \E c \in Clients : Kept(c))'
  <2>1. CASE FinalizeResults
    <3>1. PICK seen \in [Protocols -> BOOLEAN] :
            draft' = [connected |-> readIp # NoClient, results |-> seen,
                      throughput |-> clientThroughput \cap Started]
      BY <2>1 DEF FinalizeResults
    <3>2. draft'.throughput = clientThroughput \cap Started
      BY <3>1
    <3>3. Started' = Started /\ gotSignal' = gotSignal /\ UNCHANGED <<clPc, measured>>
      BY <1>1, <2>1 DEF FinalizeResults, Started, clientVars
    <3>4. \A c \in Clients : Heard(c) => Kept(c)'
      BY <3>2, <3>3 DEF Heard, Kept
    <3>5. ~gotSignal => \E c \in Clients : Heard(c)
      BY <2>1 DEF FinalizeResults, HeardInv, Teardown
    <3> QED BY <3>3, <3>4, <3>5
  <2>2. CASE StartResponders \/ BindStop
    <3>1. draft = NoReport /\ draft' = draft
      BY <2>2 DEF StartResponders, BindStop, ReportInv
    <3> QED BY <3>1
  <2>3. CASE ~FinalizeResults /\ ~StartResponders /\ ~BindStop
    <3>1. draft' = draft /\ Started' = Started
      <4>1. CASE responder' = responder
        BY <2>3, <4>1 DEF Started, ListenerStep, Environment, MainStep, StartCredServer,
           RewakeAfterBind, WaitReturns, AllStopped, StopDeadline, CommitSnapshots,
           StopEchoReadClientIp, DrainEnds, StopCredServer, SaveReport, StopResponder, Signal, Tick
      <4>2. CASE StopDeadline \/ \E p \in Protocols : StopResponder(p)
        BY <4>2 DEF StopDeadline, StopResponder, Started
      <4> QED BY <2>3, <4>1, <4>2 DEF ListenerStep, Environment, MainStep, StartCredServer,
         RewakeAfterBind, WaitReturns, AllStopped, CommitSnapshots,
         StopEchoReadClientIp, DrainEnds, StopCredServer, SaveReport, Signal, Tick
    <3>2. \A c \in Clients : Kept(c) => Kept(c)'
      BY <1>1, <3>1 DEF Kept, clientVars
    <3>3. draft # NoReport /\ ~gotSignal' => ~gotSignal
      <4>1. gotSignal' = gotSignal \/ gotSignal' = TRUE
        BY DEF ListenerStep, Environment, MainStep, StartCredServer, StartResponders, BindStop,
           RewakeAfterBind, WaitReturns, AllStopped, StopDeadline, CommitSnapshots,
           StopEchoReadClientIp, DrainEnds, StopCredServer, FinalizeResults, SaveReport,
           StopResponder, Signal, Tick
      <4> QED BY <4>1
    <3> QED BY <3>1, <3>2, <3>3 DEF HeardInv
  <2> QED BY <2>1, <2>2, <2>3
<1> QED BY <1>4, <1>5, <1>6, <1>7, <1>8 DEF HeardInv

LEMMA StopperClientStep ==
  ASSUME StopperInv, NEW c \in Clients, ClientStep(c)
  PROVE  PostedInv' /\ HeardInv'
<1> USE DEF StopperInv, TypeInv, TypeOK, CredServerTypeOK, ClientRunTypeOK
<1>1. UNCHANGED <<mainVars, clientThroughput, stopRequested, remoteStop>>
  BY DEF ClientStep, stopVars
<1>2. inFlight[c] => clPc[c] \in Routes
  BY DEF InFlightInPhase
<1>3. clPc[c] \in PastProbes => clPc'[c] \in PastProbes /\ measured' = measured
  <2>1. CASE TransientError(c) \/ PermanentError(c)
    <3>1. \/ clPc' = clPc
          \/ clPc' = [clPc EXCEPT ![c] = AfterFailure[clPc[c]]]
      BY <2>1 DEF TransientError, PermanentError, EnterPhase
    <3>2. clPc[c] \in Routes /\ measured' = measured
      BY <1>2, <2>1 DEF TransientError, PermanentError
    <3> QED BY <3>1, <3>2 DEF AfterFailure, Routes, PastProbes
  <2>2. CASE ~(TransientError(c) \/ PermanentError(c))
    BY <2>2 DEF ClientStep, ClientRunStep, LaunchClient, SendRequest, ReceiveCreds, FinishProbes,
       ReceiveAck, ReceiveSnapshot, EnterPhase, PastProbes
  <2> QED BY <2>1, <2>2
<1>4. \A d \in Clients \ {c} : clPc'[d] = clPc[d] /\ measured'[d] = measured[d]
  BY DEF ClientStep, ClientRunStep, LaunchClient, SendRequest, TransientError, PermanentError,
     ReceiveCreds, FinishProbes, ReceiveAck, ReceiveSnapshot, EnterPhase
<1>5. \A d \in Clients : clPc[d] \in PastProbes => clPc'[d] \in PastProbes /\ measured'[d] = measured[d]
  BY <1>3, <1>4
<1>6. HeardInv'
  <2>1. \A d \in Clients : (Heard(d) => Heard(d)') /\ (Kept(d) => Kept(d)')
    BY <1>1, <1>5 DEF Heard, Kept, Started, mainVars
  <2> QED BY <1>1, <2>1 DEF HeardInv, mainVars
<1>7. \A k \in Conns : handler'[k] # handler[k] =>
        Client(k) = c /\ Route(k) = clPc[c] /\ clPc' = clPc /\ handler'[k] = "queued"
  <2>1. CASE SendRequest(c)
    <3>1. Conn(c) \in Conns /\ Route(Conn(c)) = clPc[c] /\ Client(Conn(c)) = c
      BY <2>1, ConnInConns DEF SendRequest, Conn, Route, Client
    <3> QED BY <2>1, <3>1 DEF SendRequest
  <2>2. CASE ~SendRequest(c)
    BY <2>2 DEF ClientStep, ClientRunStep, LaunchClient, TransientError, PermanentError,
       ReceiveCreds, FinishProbes, ReceiveAck, ReceiveSnapshot
  <2> QED BY <2>1, <2>2
<1>8. PostedInv'
  <2> SUFFICES ASSUME NEW k \in Conns, Route(k) = "stop"
               PROVE  /\ handler'[k] # "none" => clPc'[Client(k)] \in PastProbes
                      /\ handler'[k] \in Merged => measured'[Client(k)] \subseteq clientThroughput'
    BY DEF PostedInv
  <2>1. Client(k) \in Clients
    BY ConnFields
  <2>2. CASE handler'[k] = handler[k]
    <3>1. Merged \subseteq HandlerStates \ {"none"}
      BY DEF Merged, HandlerStates
    <3> QED BY <1>1, <1>5, <2>1, <2>2, <3>1 DEF PostedInv
  <2>3. CASE handler'[k] # handler[k]
    BY <1>7, <2>3 DEF PastProbes, Merged
  <2> QED BY <2>2, <2>3
<1> QED BY <1>6, <1>8

(* The inductive invariant of the end of a session: unless the operator     *)
(* ended it, some client that is past its probes did, and the endpoint has  *)
(* merged the numbers of that client.                                       *)
THEOREM StopperInvAlways == Spec => []StopperInv
<1>1. Init => PostedInv /\ HeardInv
  BY DEF Init, CredServerInit, ListenerMainInit, ClientRunInit, PostedInv, HeardInv, Merged, Teardown
<1>2. StopperInv /\ TypeInv' /\ ReportInv' /\ [Next]_vars => StopperInv'
  <2>1. UNCHANGED vars /\ StopperInv => PostedInv' /\ HeardInv'
    BY DEF vars, serverVars, stopVars, mainVars, clientVars, StopperInv, PostedInv, HeardInv, Heard,
       Kept, Started
  <2> QED BY <2>1, StopperServerStep, StopperListenerStep, StopperClientStep
          DEF StopperInv, Next, Over
<1>3. ViewInv => TypeInv /\ ReportInv
  BY DEF ViewInv
<1> QED BY <1>1, <1>2, <1>3, ViewInvAlways, PTL DEF Spec, StopperInv

(* With a token that is good for one client there is one holder.            *)
LEMMA OneHolder ==
  ASSUME TypeInv, SingleUse, MaxServes = 1,
         NEW c \in Clients, NEW d \in Clients, HasCreds(c), HasCreds(d)
  PROVE  c = d
<1>1. IsFiniteSet(Holders) /\ Cardinality(Holders) <= 1
  BY CredServerAssumption, FS_Subset DEF CredServerAssumption, SingleUse, Holders
<1>2. {c, d} \subseteq Holders
  BY DEF Holders
<1>3. Cardinality({c, d}) <= Cardinality(Holders) /\ IsFiniteSet({c, d})
  BY <1>1, <1>2, FS_Subset
<1>4. SUFFICES ASSUME c # d PROVE FALSE
  OBVIOUS
<1>5. Cardinality({c} \cup {d}) = 2
  <2>1. IsFiniteSet({c}) /\ Cardinality({c}) = 1 /\ d \notin {c}
    BY <1>4, FS_Singleton
  <2> QED BY <2>1, FS_AddElement
<1>6. {c} \cup {d} = {c, d} /\ Cardinality(Holders) \in Nat
  BY <1>1, FS_CardinalityType
<1> QED BY <1>1, <1>3, <1>5, <1>6

(* With _MAX_SERVES = 1 (cred_server.py:56) a /stop comes from the one      *)
(* client that has the credentials and after its probes: the responders are *)
(* torn down under a probing client only at the operator's request          *)
(* (main.py:556-562).                                                       *)
THEOREM NoTeardownUnderProbesAlways ==
  ASSUME MaxServes = 1
  PROVE  Spec => []NoTeardownUnderProbes
<1>1. StopperInv /\ SingleUse => NoTeardownUnderProbes
  <2> SUFFICES ASSUME StopperInv, SingleUse, mainPc \in Teardown, ~gotSignal,
                      NEW d \in Clients, clPc[d] = "probing"
               PROVE  FALSE
    BY DEF NoTeardownUnderProbes
  <2>1. PICK c \in Clients : Heard(c)
    BY DEF StopperInv, HeardInv
  <2>2. HasCreds(c) /\ HasCreds(d) /\ c # d
    BY <2>1 DEF Heard, HasCreds, PastProbes
  <2> QED BY <2>2, OneHolder DEF StopperInv
<1> QED BY <1>1, StopperInvAlways, SingleUseAlways, PTL

(* With _MAX_SERVES = 1 the numbers that the client posted are in the       *)
(* report of every session that a client ended, whether or not its          *)
(* acknowledgement reached it (cred_server.py:487-494, main.py:628-634).    *)
THEOREM RemoteStopKeepsThroughputAlways ==
  ASSUME MaxServes = 1
  PROVE  Spec => []RemoteStopKeepsThroughput
<1>1. StopperInv /\ SingleUse => RemoteStopKeepsThroughput
  <2> SUFFICES ASSUME StopperInv, SingleUse, report # NoReport, ~gotSignal,
                      NEW d \in Clients, HasCreds(d)
               PROVE  measured[d] \cap Started \subseteq report.throughput
    BY DEF RemoteStopKeepsThroughput
  <2>1. report = draft
    BY DEF StopperInv, ReportInv
  <2>2. PICK c \in Clients : Kept(c)
    BY <2>1 DEF StopperInv, HeardInv
  <2>3. HasCreds(c)
    BY <2>2 DEF Kept, HasCreds, PastProbes
  <2>4. c = d
    BY <2>3, OneHolder DEF StopperInv
  <2> QED BY <2>1, <2>2, <2>4 DEF Kept
<1> QED BY <1>1, StopperInvAlways, SingleUseAlways, PTL

-----------------------------------------------------------------------------
(* The refinement.  What ProbeSession sees of the listener changes at a few *)
(* of its steps only; three facts are needed beside the invariants above:   *)
(* responders are started once, a client that read a view is finished, and  *)
(* what is about to be saved is a report on the protocols that were served. *)
StartedInv ==
  /\ mainPc \in {"booting", "starting"} => Started = {}
  /\ mainPc \notin {"booting", "starting"} \cup Ended => Started # {}
ReadInv == \A c \in Clients : gotSnapshot[c] # NoSnapshots => clPc[c] = "finished"
DraftInv ==
  mainPc = "saving" =>
    draft \in Reports /\ draft # NoReport /\ draft.throughput \subseteq Started

PromiseInv == StartedInv /\ ReadInv /\ DraftInv

\* What stays of Started and Settled.
LEMMA RespondersKept ==
  ASSUME responder' = responder
  PROVE  Started' = Started /\ Settled' = Settled
BY DEF Started, Settled

\* What ProbeSession sees of the clients.
LEMMA ClientsKept ==
  ASSUME UNCHANGED clientVars
  PROVE  /\ Holders' = Holders /\ Probed' = Probed
         /\ measured' = measured /\ gotSnapshot' = gotSnapshot
BY DEF clientVars, Holders, HasCreds, Probed

LEMMA PromiseVars ==
  ASSUME Mode' = Mode, gotSignal' = gotSignal, Started' = Started, Settled' = Settled,
         Holders' = Holders, Probed' = Probed, measured' = measured,
         finalSnapshots' = finalSnapshots, gotSnapshot' = gotSnapshot, report' = report
  PROVE  UNCHANGED Promise!vars
BY DEF Promise!vars, Promise!runVars, Promise!clientVars, Promise!outVars

LEMMA StartedListenerStep ==
  ASSUME TypeInv, StartedInv, ListenerStep \/ Environment
  PROVE  StartedInv'
<1>1. CASE StartResponders
  <2>1. PICK up \in SUBSET Protocols :
          /\ responder' = [p \in Protocols |-> IF p \in up THEN "running" ELSE "off"]
          /\ mainPc' = IF up = {} THEN "exited" ELSE "binding"
    BY <1>1 DEF StartResponders
  <2>2. Started' = up
    BY <2>1 DEF Started
  <2> QED BY <2>1, <2>2 DEF StartedInv, Ended
<1>2. CASE StopDeadline \/ \E p \in Protocols : StopResponder(p)
  <2>1. \A p \in Protocols : (responder'[p] # "off") <=> (responder[p] # "off")
    BY <1>2 DEF StopDeadline, StopResponder, TypeInv, TypeOK, ListenerMainTypeOK
  <2>2. Started' = Started
    BY <2>1 DEF Started
  <2>3. mainPc' = mainPc
    BY <1>2 DEF StopDeadline, StopResponder
  <2> QED BY <2>2, <2>3 DEF StartedInv
<1>3. CASE Signal \/ StartCredServer
  <2>1. responder' = responder
    BY <1>3 DEF Signal, StartCredServer
  <2>2. mainPc' \in {mainPc, "dead"} \/ (mainPc = "booting" /\ mainPc' \in {"starting", "exited"})
    BY <1>3 DEF Signal, StartCredServer
  <2> QED BY <2>1, <2>2, RespondersKept DEF StartedInv, Ended
<1>4. CASE \/ BindStop \/ RewakeAfterBind \/ WaitReturns \/ AllStopped \/ CommitSnapshots
           \/ StopEchoReadClientIp \/ DrainEnds \/ StopCredServer \/ FinalizeResults \/ SaveReport
  <2>1. responder' = responder
    BY <1>4 DEF BindStop, RewakeAfterBind, WaitReturns, AllStopped, CommitSnapshots,
       StopEchoReadClientIp, DrainEnds, StopCredServer, FinalizeResults, SaveReport
  <2>2. mainPc \notin {"booting", "starting"} \cup Ended /\ mainPc' \notin {"booting", "starting"}
    BY <1>4 DEF Ended, BindStop, RewakeAfterBind, WaitReturns, AllStopped, CommitSnapshots,
       StopEchoReadClientIp, DrainEnds, StopCredServer, FinalizeResults, SaveReport
  <2> QED BY <2>1, <2>2, RespondersKept DEF StartedInv
<1>5. CASE \E p \in Protocols : Tick(p)
  BY <1>5, RespondersKept DEF Tick, StartedInv
<1> QED
  BY <1>1, <1>2, <1>3, <1>4, <1>5 DEF ListenerStep, MainStep, Environment

LEMMA DraftListenerStep ==
  ASSUME TypeInv, DraftInv, ListenerStep \/ Environment
  PROVE  DraftInv'
<1>1. CASE FinalizeResults
  <2>1. PICK seen \in [Protocols -> BOOLEAN] :
          draft' = [connected |-> readIp # NoClient, results |-> seen,
                    throughput |-> clientThroughput \cap Started]
    BY <1>1 DEF FinalizeResults
  <2>2. responder' = responder
    BY <1>1 DEF FinalizeResults
  <2>3. draft' \in Reports
    BY <2>1 DEF Reports, TypeInv, TypeOK, CredServerTypeOK
  <2>4. draft' # NoReport
    BY <2>3, ListenerMainAssumption DEF ListenerMainAssumption, Reports
  <2>5. draft'.throughput \subseteq Started
    BY <2>1
  <2> QED BY <2>2, <2>3, <2>4, <2>5, RespondersKept DEF DraftInv
<1>2. CASE \E p \in Protocols : Tick(p)
  BY <1>2, RespondersKept DEF Tick, DraftInv
<1>3. CASE Signal
  <2>1. draft' = draft /\ responder' = responder /\ mainPc' \in {mainPc, "dead"}
    BY <1>3 DEF Signal
  <2> QED BY <2>1, RespondersKept DEF DraftInv
<1>4. CASE ListenerStep /\ ~FinalizeResults
  <2>1. mainPc' # "saving"
    BY <1>4 DEF ListenerStep, MainStep, StartCredServer, StartResponders, BindStop, RewakeAfterBind,
       WaitReturns, StopResponder, StopDeadline, AllStopped, CommitSnapshots, StopEchoReadClientIp,
       DrainEnds, StopCredServer, SaveReport
  <2> QED BY <2>1 DEF DraftInv
<1> QED
  BY <1>1, <1>2, <1>3, <1>4 DEF Environment

LEMMA ReadClientStep ==
  ASSUME TypeInv, ReadInv, NEW c \in Clients, ClientStep(c)
  PROVE  ReadInv'
<1>1. /\ clPc \in [Clients -> ClientStates]
      /\ gotSnapshot \in [Clients -> Snapshots \cup {NoSnapshots}]
  BY DEF TypeInv, TypeOK, ClientRunTypeOK
<1>2. CASE ReceiveSnapshot(c)
  <2>1. clPc' = [clPc EXCEPT ![c] = "finished"]
        /\ \A d \in Clients \ {c} : gotSnapshot'[d] = gotSnapshot[d]
    BY <1>1, <1>2 DEF ReceiveSnapshot, EnterPhase
  <2> QED BY <1>1, <2>1 DEF ReadInv
<1>3. CASE ~ReceiveSnapshot(c)
  <2>1. gotSnapshot' = gotSnapshot
    BY <1>3 DEF ClientStep, ClientRunStep, LaunchClient, SendRequest, TransientError,
       PermanentError, ReceiveCreds, FinishProbes, ReceiveAck
  <2>2. clPc[c] # "finished" \/ clPc' = clPc
    <3>1. InFlightInPhase
      BY DEF TypeInv
    <3> QED
      BY <1>3, <3>1 DEF ClientStep, ClientRunStep, LaunchClient, SendRequest, TransientError,
         PermanentError, ReceiveCreds, FinishProbes, ReceiveAck, InFlightInPhase, Routes
  <2>3. \A d \in Clients \ {c} : clPc'[d] = clPc[d]
    BY <1>1, <1>3 DEF ClientStep, ClientRunStep, LaunchClient, SendRequest, TransientError,
       PermanentError, ReceiveCreds, FinishProbes, ReceiveAck, EnterPhase
  <2> QED BY <2>1, <2>2, <2>3 DEF ReadInv
<1> QED
  BY <1>2, <1>3

THEOREM PromiseInvAlways == Spec => []PromiseInv
<1>1. Init => PromiseInv
  BY DEF Init, CredServerInit, ListenerMainInit, ClientRunInit, PromiseInv, StartedInv, ReadInv,
     DraftInv, Started
<1>2. TypeInv /\ PromiseInv /\ [Next]_vars => PromiseInv'
  <2> SUFFICES ASSUME TypeInv, PromiseInv, [Next]_vars PROVE PromiseInv'
    OBVIOUS
  <2> USE DEF PromiseInv
  <2>1. CASE ServerStep \/ UNCHANGED vars
    BY <2>1, RespondersKept DEF ServerStep, vars, mainVars, clientVars, StartedInv, ReadInv, DraftInv
  <2>2. CASE ListenerStep \/ Environment
    <3>1. UNCHANGED <<gotSnapshot, clPc>>
      BY <2>2 DEF ListenerStep, Environment, clientVars
    <3> QED
      BY <2>2, <3>1, StartedListenerStep, DraftListenerStep DEF ReadInv
  <2>3. ASSUME NEW c \in Clients, ClientStep(c) PROVE PromiseInv'
    <3>1. UNCHANGED mainVars
      BY <2>3 DEF ClientStep
    <3> QED
      BY <2>3, <3>1, ReadClientStep, RespondersKept DEF mainVars, StartedInv, DraftInv
  <2> QED
    BY <2>1, <2>2, <2>3 DEF Next, Over
<1> QED BY <1>1, <1>2, TypeCorrect, PTL DEF Spec

\* What the steps need.
SessionInv == ViewInv /\ StopperInv /\ PeerInv /\ SingleUse /\ PromiseInv

PromisedStep == Promise!Next \/ UNCHANGED Promise!vars

LEMMA ServerStutters ==
  ASSUME ServerStep
  PROVE  PromisedStep
<1>1. UNCHANGED mainVars /\ UNCHANGED clientVars
  BY DEF ServerStep
<1>2. finalSnapshots' = finalSnapshots
  BY DEF ServerStep, ServerThread, HandlerStep, Accept, StallInHandshake,
     RefuseCreds, TakeServe, WriteCreds, RefuseSnapshot, ReadSnapshot, WriteSnapshot,
     MarkDrained, MergeThroughput, ReadStopEvent, AckStop, SetStopRequested,
     WakeMainLoop, snapVars
<1>3. Mode' = Mode /\ gotSignal' = gotSignal /\ report' = report /\ responder' = responder
  BY <1>1 DEF mainVars, Mode
<1> QED
  BY <1>1, <1>2, <1>3, RespondersKept, ClientsKept, PromiseVars DEF PromisedStep

\* The steps of the main coroutine that nobody outside can tell.
LEMMA MainStutters ==
  ASSUME UNCHANGED clientVars,
         \/ StartCredServer /\ mainPc' = "starting"
         \/ BindStop \/ RewakeAfterBind \/ AllStopped \/ StopEchoReadClientIp \/ DrainEnds
         \/ StopCredServer \/ FinalizeResults \/ \E p \in Protocols : Tick(p)
  PROVE  PromisedStep
<1>1. gotSignal' = gotSignal /\ report' = report /\ responder' = responder
  BY DEF StartCredServer, BindStop, RewakeAfterBind, AllStopped, StopEchoReadClientIp, DrainEnds,
     StopCredServer, FinalizeResults, Tick
<1>2. finalSnapshots' = finalSnapshots
  BY DEF StartCredServer, OpenPort, EndProcess, BindStop, BindStopEvent, RewakeAfterBind,
     WakeFromBind, AllStopped, StopEchoReadClientIp, DrainEnds, StopCredServer, ClosePort,
     FinalizeResults, Tick, serverVars, snapVars
<1>3. Mode' = Mode
  BY DEF StartCredServer, BindStop, RewakeAfterBind, AllStopped, StopEchoReadClientIp, DrainEnds,
     StopCredServer, FinalizeResults, Tick, Mode, Ended, Teardown
<1> QED
  BY <1>1, <1>2, <1>3, RespondersKept, ClientsKept, PromiseVars DEF PromisedStep

\* The process ends and nothing is saved.
LEMMA Dying ==
  ASSUME UNCHANGED clientVars, mainPc \notin Ended, mainPc' \in Ended,
         UNCHANGED <<gotSignal, finalSnapshots, report>>, Started' = Started, Settled' = Settled
  PROVE  Promise!Die
BY ClientsKept DEF Promise!Die, Promise!clientVars, Promise!outVars, Mode, Teardown

LEMMA StartingMaps ==
  ASSUME SessionInv, UNCHANGED clientVars, StartResponders
  PROVE  PromisedStep
<1>1. PICK up \in SUBSET Protocols :
        /\ responder' = [p \in Protocols |-> IF p \in up THEN "running" ELSE "off"]
        /\ mainPc' = IF up = {} THEN "exited" ELSE "binding"
  BY DEF StartResponders
<1>2. UNCHANGED <<gotSignal, finalSnapshots, report>> /\ mainPc = "starting"
  BY DEF StartResponders, EndProcess, serverVars, snapVars
<1>3. Started' = up /\ Settled' = {}
  BY <1>1, ListenerMainAssumption DEF Started, Settled, ListenerMainAssumption
<1>4. Started = {}
  BY <1>2 DEF SessionInv, PromiseInv, StartedInv
<1>5. Settled = {}
  BY <1>4, ListenerMainAssumption DEF Started, Settled, ListenerMainAssumption
<1>6. CASE up = {}
  BY <1>1, <1>2, <1>3, <1>4, <1>5, <1>6, Dying DEF PromisedStep, Promise!Next, Ended
<1>7. CASE up # {}
  <2>1. Mode = "open" /\ Mode' = "open"
    BY <1>1, <1>2, <1>7 DEF Mode, Ended, Teardown
  <2>2. Promise!Serve
    BY <1>2, <1>3, <1>4, <1>5, <1>7, <2>1, ClientsKept
       DEF Promise!Serve, Promise!clientVars, Promise!outVars
  <2> QED BY <2>2 DEF PromisedStep, Promise!Next
<1> QED
  BY <1>6, <1>7

\* The session ends for a reason.
LEMMA ClosingMaps ==
  ASSUME SessionInv, UNCHANGED clientVars, WaitReturns
  PROVE  PromisedStep
<1>1. /\ mainPc = "waiting" /\ mainPc' = "stopping" /\ (remoteStop \/ gotSignal)
      /\ UNCHANGED <<gotSignal, responder, report, finalSnapshots>>
  BY DEF WaitReturns, serverVars, snapVars
<1>2. gotSignal \/ Probed # {}
  <2>1. remoteStop => \E c \in Clients : Heard(c)
    BY DEF SessionInv, StopperInv, HeardInv
  <2> QED BY <1>1, <2>1 DEF Heard, Probed
<1>3. Started # {}
  BY <1>1 DEF SessionInv, PromiseInv, StartedInv, Ended
<1>4. Mode = "open" /\ Mode' = "closing"
  BY <1>1 DEF Mode, Ended, Teardown
<1>5. Promise!Close
  BY <1>1, <1>2, <1>3, <1>4, RespondersKept, ClientsKept
     DEF Promise!Close, Promise!clientVars, Promise!outVars
<1> QED
  BY <1>5 DEF PromisedStep, Promise!Next

\* A stop() that ends settles a latched figure, before the view is published;
\* one that is cancelled settles nothing.
LEMMA StoppingMaps ==
  ASSUME SessionInv, UNCHANGED clientVars, NEW p \in Protocols, StopResponder(p)
  PROVE  PromisedStep
<1>1. responder \in [Protocols -> ResponderStates]
  BY DEF SessionInv, ViewInv, TypeInv, TypeOK, ListenerMainTypeOK
<1>2. /\ mainPc = "stopping" /\ responder[p] = "running" /\ responder'[p] = "stopped"
      /\ \A q \in Protocols \ {p} : responder'[q] = responder[q]
      /\ UNCHANGED <<mainPc, gotSignal, report, finalSnapshots>>
  BY <1>1 DEF StopResponder, serverVars, snapVars
<1>3. Started' = Started /\ p \in Started
  BY <1>2 DEF Started
<1>4. Mode = "closing" /\ Mode' = Mode
  BY <1>2 DEF Mode, Ended, Teardown
<1>5. finalSnapshots = NoSnapshots
  BY <1>2 DEF SessionInv, ViewInv, SnapshotInv
<1>6. CASE p \in Latched
  <2>1. Settled' = Settled \cup {p} /\ p \notin Settled
    BY <1>2, <1>6, ListenerMainAssumption DEF Settled, ListenerMainAssumption
  <2>2. Promise!Settle(p)
    BY <1>2, <1>3, <1>4, <1>5, <2>1, ClientsKept
       DEF Promise!Settle, Promise!clientVars, Promise!outVars
  <2> QED BY <2>2 DEF PromisedStep, Promise!Next
<1>7. CASE p \notin Latched
  <2>1. Settled' = Settled
    BY <1>2, <1>7, ListenerMainAssumption DEF Settled, ListenerMainAssumption
  <2> QED BY <1>2, <1>3, <1>4, <2>1, ClientsKept, PromiseVars DEF PromisedStep
<1> QED
  BY <1>6, <1>7

LEMMA DeadlineStutters ==
  ASSUME UNCHANGED clientVars, StopDeadline
  PROVE  PromisedStep
<1>1. /\ \A p \in Protocols :
           responder'[p] = IF responder[p] = "running" THEN "cancelled" ELSE responder[p]
      /\ UNCHANGED <<mainPc, gotSignal, report, finalSnapshots>>
  BY DEF StopDeadline, serverVars, snapVars
<1>2. Started' = Started
  BY <1>1 DEF Started
<1>3. Settled' = Settled
  BY <1>1, ListenerMainAssumption DEF Settled, ListenerMainAssumption
<1>4. Mode' = Mode
  BY <1>1 DEF Mode
<1> QED
  BY <1>1, <1>2, <1>3, <1>4, ClientsKept, PromiseVars DEF PromisedStep

LEMMA PublishingMaps ==
  ASSUME SessionInv, UNCHANGED clientVars, CommitSnapshots
  PROVE  PromisedStep
<1>1. /\ mainPc = "snapshotting" /\ mainPc' = "echo"
      /\ UNCHANGED <<gotSignal, responder, report>>
  BY DEF CommitSnapshots
<1>2. finalSnapshots' \in Promise!Views
  BY DEF CommitSnapshots, CommitFinalSnapshots, Promise!Views
<1>3. finalSnapshots = NoSnapshots
  BY <1>1 DEF SessionInv, ViewInv, SnapshotInv
<1>4. Mode = "closing" /\ Mode' = Mode
  BY <1>1 DEF Mode, Ended, Teardown
<1>5. Promise!Publish
  BY <1>1, <1>2, <1>3, <1>4, RespondersKept, ClientsKept
     DEF Promise!Publish, Promise!runVars, Promise!clientVars
<1> QED
  BY <1>5 DEF PromisedStep, Promise!Next

\* The report that is saved is true.
LEMMA SavingMaps ==
  ASSUME SessionInv, UNCHANGED clientVars, SaveReport
  PROVE  PromisedStep
<1>1. /\ mainPc = "saving" /\ mainPc' = "done" /\ report' = draft
      /\ UNCHANGED <<gotSignal, responder, finalSnapshots>>
  BY DEF SaveReport, EndProcess, snapVars
<1>2. draft \in Reports /\ draft # NoReport /\ draft.throughput \subseteq Started
  BY <1>1 DEF SessionInv, PromiseInv, DraftInv
<1>3. finalSnapshots # NoSnapshots
  BY <1>1 DEF SessionInv, ViewInv, ReportInv, Committed
<1>4. ASSUME NEW p \in Settled, finalSnapshots[p] # "error"
      PROVE  draft.results[p] = (finalSnapshots[p] = "seen")
  <2>1. p \in Protocols /\ Frozen(p)
    BY ListenerMainAssumption DEF Settled, Frozen, ListenerMainAssumption
  <2>2. /\ (finalSnapshots[p] = "seen") = saw[p]
        /\ draft.results[p] = saw[p]
    BY <1>2, <1>3, <1>4, <2>1 DEF SessionInv, ViewInv, LatchInv
  <2> QED BY <2>2
<1>5. ~gotSignal => draft.connected
  BY <1>2 DEF SessionInv, PeerInv, ConnectedInv
<1>6. ~gotSignal => \E c \in Probed : measured[c] \cap Started \subseteq draft.throughput
  <2>1. ~gotSignal => \E c \in Clients : Kept(c)
    BY <1>2 DEF SessionInv, StopperInv, HeardInv
  <2> QED BY <2>1 DEF Kept, Probed
<1>7. Promise!True(draft)
  BY <1>2, <1>4, <1>5, <1>6 DEF Promise!True
<1>8. draft \in Promise!Reports
  BY <1>2 DEF Reports, Promise!Reports
<1>9. Mode = "closing" /\ Mode' = "over"
  BY <1>1 DEF Mode, Ended, Teardown
<1>10. Promise!Save
  BY <1>1, <1>3, <1>7, <1>8, <1>9, RespondersKept, ClientsKept
     DEF Promise!Save, Promise!clientVars
<1> QED
  BY <1>10 DEF PromisedStep, Promise!Next

LEMMA SignalMaps ==
  ASSUME UNCHANGED clientVars, Signal
  PROVE  PromisedStep
<1>1. UNCHANGED <<responder, report, finalSnapshots>> /\ mainPc \notin Ended
  BY DEF Signal, EndProcess, serverVars, snapVars
<1>2. CASE mainPc = "waiting" /\ ~gotSignal
  <2>1. gotSignal' = TRUE /\ mainPc' = mainPc
    BY <1>2 DEF Signal
  <2>2. Mode = "open" /\ Mode' = Mode
    BY <1>2, <2>1 DEF Mode, Ended, Teardown
  <2>3. Promise!Ask
    BY <1>1, <1>2, <2>1, <2>2, RespondersKept, ClientsKept
       DEF Promise!Ask, Promise!clientVars, Promise!outVars
  <2> QED BY <2>3 DEF PromisedStep, Promise!Next
<1>3. CASE ~(mainPc = "waiting" /\ ~gotSignal)
  <2>1. mainPc' = "dead" /\ gotSignal' = gotSignal
    BY <1>3 DEF Signal
  <2>2. mainPc' \in Ended
    BY <2>1 DEF Ended
  <2> QED BY <1>1, <2>1, <2>2, RespondersKept, Dying DEF PromisedStep, Promise!Next
<1> QED
  BY <1>2, <1>3

LEMMA MainMaps ==
  ASSUME SessionInv, ListenerStep \/ Environment
  PROVE  PromisedStep
<1>1. UNCHANGED clientVars
  BY DEF ListenerStep, Environment
<1>2. CASE StartCredServer /\ mainPc' # "starting"
  <2>1. /\ mainPc = "booting" /\ mainPc' = "exited"
        /\ UNCHANGED <<responder, gotSignal, report, finalSnapshots>>
    BY <1>2 DEF StartCredServer, EndProcess, snapVars
  <2>2. mainPc \notin Ended /\ mainPc' \in Ended
    BY <2>1 DEF Ended
  <2> QED BY <1>1, <2>1, <2>2, RespondersKept, Dying DEF PromisedStep, Promise!Next
<1>3. CASE StartResponders
  BY <1>1, <1>3, StartingMaps
<1>4. CASE WaitReturns
  BY <1>1, <1>4, ClosingMaps
<1>5. ASSUME NEW p \in Protocols, StopResponder(p) PROVE PromisedStep
  BY <1>1, <1>5, StoppingMaps
<1>6. CASE StopDeadline
  BY <1>1, <1>6, DeadlineStutters
<1>7. CASE CommitSnapshots
  BY <1>1, <1>7, PublishingMaps
<1>8. CASE SaveReport
  BY <1>1, <1>8, SavingMaps
<1>9. CASE Signal
  BY <1>1, <1>9, SignalMaps
<1> QED
  BY <1>1, <1>2, <1>3, <1>4, <1>5, <1>6, <1>7, <1>8, <1>9, MainStutters
     DEF ListenerStep, MainStep, Environment

\* A client gets the credentials: there was one left to get them.
LEMMA GrantMaps ==
  ASSUME TypeInv, SingleUse', NEW c \in Clients, UNCHANGED mainVars,
         finalSnapshots' = finalSnapshots, ReceiveCreds(c), clPc'[c] # "gave_up"
  PROVE  PromisedStep
<1>1. clPc \in [Clients -> ClientStates]
  BY DEF TypeInv, TypeOK, ClientRunTypeOK
<1>2. /\ clPc[c] = "creds" /\ clPc' = [clPc EXCEPT ![c] = "probing"]
      /\ UNCHANGED <<gotSnapshot, measured>>
  BY <1>1 DEF ReceiveCreds, EnterPhase
<1>3. Holders' = Holders \cup {c} /\ c \notin Holders /\ Probed' = Probed
  BY <1>1, <1>2 DEF Holders, HasCreds, Probed, PastProbes
<1>4. Cardinality(Holders) < MaxServes
  <2>1. IsFiniteSet(Holders)
    BY CredServerAssumption, FS_Subset DEF CredServerAssumption, Holders
  <2>2. Cardinality(Holders \cup {c}) = Cardinality(Holders) + 1 /\ Cardinality(Holders) \in Nat
    BY <1>3, <2>1, FS_AddElement, FS_CardinalityType
  <2>3. Cardinality(Holders \cup {c}) <= MaxServes
    BY <1>3 DEF SingleUse, Holders
  <2>4. MaxServes \in Nat
    BY CredServerAssumption DEF CredServerAssumption
  <2> QED BY <2>2, <2>3, <2>4
<1>5. Mode' = Mode /\ gotSignal' = gotSignal /\ report' = report /\ responder' = responder
  BY DEF mainVars, Mode
<1>6. Promise!Cardinality(Holders) = Cardinality(Holders)
  BY DEF Promise!Cardinality, Cardinality
<1>7. UNCHANGED <<Promise!runVars, Probed, measured, Promise!outVars>>
  BY <1>2, <1>3, <1>5, RespondersKept DEF Promise!runVars, Promise!outVars
<1>8. Promise!Grant(c)
  BY <1>3, <1>4, <1>6, <1>7 DEF Promise!Grant
<1> QED
  BY <1>8 DEF PromisedStep, Promise!Next

LEMMA ProbeMaps ==
  ASSUME TypeInv, NEW c \in Clients, UNCHANGED mainVars,
         finalSnapshots' = finalSnapshots, FinishProbes(c)
  PROVE  PromisedStep
<1>1. clPc \in [Clients -> ClientStates]
  BY DEF TypeInv, TypeOK, ClientRunTypeOK
<1>2. /\ clPc[c] = "probing" /\ clPc' = [clPc EXCEPT ![c] = "stop"]
      /\ gotSnapshot' = gotSnapshot
      /\ \E m \in SUBSET Protocols : measured' = [measured EXCEPT ![c] = m]
  BY DEF FinishProbes, EnterPhase
<1>3. Holders' = Holders /\ c \in Holders \ Probed /\ Probed' = Probed \cup {c}
  BY <1>1, <1>2 DEF Holders, HasCreds, Probed, PastProbes
<1>4. Mode' = Mode /\ gotSignal' = gotSignal /\ report' = report /\ responder' = responder
  BY DEF mainVars, Mode
<1>5. Promise!Probe(c)
  BY <1>2, <1>3, <1>4, RespondersKept DEF Promise!Probe, Promise!runVars, Promise!outVars
<1> QED
  BY <1>5 DEF PromisedStep, Promise!Next

LEMMA ReadingMaps ==
  ASSUME SessionInv, NEW c \in Clients, UNCHANGED mainVars,
         finalSnapshots' = finalSnapshots, ReceiveSnapshot(c)
  PROVE  PromisedStep
<1>0. TypeInv /\ SnapshotInv /\ ReadInv
  BY DEF SessionInv, ViewInv, PromiseInv
<1>1. /\ clPc \in [Clients -> ClientStates]
      /\ gotSnapshot \in [Clients -> Snapshots \cup {NoSnapshots}]
  BY <1>0 DEF TypeInv, TypeOK, ClientRunTypeOK
<1>2. /\ clPc[c] = "snapshot" /\ clPc' = [clPc EXCEPT ![c] = "finished"]
      /\ gotSnapshot' = [gotSnapshot EXCEPT ![c] = body[Conn(c)]]
      /\ measured' = measured
  BY DEF ReceiveSnapshot, EnterPhase
<1>3. Conn(c) \in Conns
  BY <1>0, <1>2, ConnInConns DEF Routes, TypeInv, TypeOK
<1>4. body[Conn(c)] \in {NoSnapshots, finalSnapshots}
  BY <1>0, <1>3 DEF SnapshotInv
<1>5. gotSnapshot[c] = NoSnapshots
  BY <1>0, <1>2 DEF ReadInv
<1>6. Holders' = Holders /\ Probed' = Probed /\ c \in Probed
  BY <1>1, <1>2 DEF Holders, HasCreds, Probed, PastProbes
<1>7. Mode' = Mode /\ gotSignal' = gotSignal /\ report' = report /\ responder' = responder
  BY DEF mainVars, Mode
<1>8. CASE body[Conn(c)] = NoSnapshots
  <2>1. gotSnapshot' = gotSnapshot
    BY <1>1, <1>2, <1>5, <1>8
  <2> QED BY <1>2, <1>6, <1>7, <2>1, RespondersKept, PromiseVars DEF PromisedStep
<1>9. CASE body[Conn(c)] # NoSnapshots
  <2>1. Promise!Read(c)
    BY <1>2, <1>4, <1>5, <1>6, <1>7, <1>9, RespondersKept
       DEF Promise!Read, Promise!runVars, Promise!clientVars
  <2> QED BY <2>1 DEF PromisedStep, Promise!Next
<1> QED
  BY <1>8, <1>9

\* The requests, their errors and their retries, and credentials that do not
\* parse, concern nobody else.
LEMMA RequestsStutter ==
  ASSUME TypeInv, NEW c \in Clients, UNCHANGED mainVars, finalSnapshots' = finalSnapshots,
         \/ LaunchClient(c) \/ SendRequest(c) \/ TransientError(c) \/ PermanentError(c)
         \/ ReceiveAck(c) \/ (ReceiveCreds(c) /\ clPc'[c] = "gave_up")
  PROVE  PromisedStep
<1>1. clPc \in [Clients -> ClientStates] /\ InFlightInPhase
  BY DEF TypeInv, TypeOK, ClientRunTypeOK
<1>2. UNCHANGED <<gotSnapshot, measured>>
  BY DEF LaunchClient, SendRequest, TransientError, PermanentError, ReceiveAck, ReceiveCreds
<1>3. \/ clPc' = clPc
      \/ \E from \in {"start", "creds"}, to \in {"creds", "gave_up"} :
           clPc[c] = from /\ clPc' = [clPc EXCEPT ![c] = to]
      \/ \E from \in {"stop", "snapshot"}, to \in {"snapshot", "finished"} :
           clPc[c] = from /\ clPc' = [clPc EXCEPT ![c] = to]
  BY <1>1 DEF LaunchClient, SendRequest, TransientError, PermanentError, ReceiveAck, ReceiveCreds,
     EnterPhase, InFlightInPhase, Routes, AfterFailure
<1>4. Holders' = Holders /\ Probed' = Probed
  BY <1>1, <1>3 DEF Holders, HasCreds, Probed, PastProbes
<1>5. Mode' = Mode /\ gotSignal' = gotSignal /\ report' = report /\ responder' = responder
  BY DEF mainVars, Mode
<1> QED
  BY <1>2, <1>4, <1>5, RespondersKept, PromiseVars DEF PromisedStep

LEMMA SessionStepsMap ==
  ASSUME SessionInv, SingleUse', [Next]_vars
  PROVE  PromisedStep
<1>1. CASE ServerStep
  BY <1>1, ServerStutters
<1>2. CASE ListenerStep \/ Environment
  BY <1>2, MainMaps
<1>3. ASSUME NEW c \in Clients, ClientStep(c) PROVE PromisedStep
  <2>1. TypeInv
    BY DEF SessionInv, ViewInv
  <2>2. UNCHANGED mainVars /\ finalSnapshots' = finalSnapshots /\ ClientRunStep(c)
    BY <1>3 DEF ClientStep, snapVars
  <2> QED
    BY <2>1, <2>2, GrantMaps, ProbeMaps, ReadingMaps, RequestsStutter DEF ClientRunStep
<1>4. CASE UNCHANGED vars
  <2>1. UNCHANGED mainVars /\ UNCHANGED clientVars /\ finalSnapshots' = finalSnapshots
    BY <1>4 DEF vars, serverVars, snapVars
  <2>2. Mode' = Mode /\ gotSignal' = gotSignal /\ report' = report /\ responder' = responder
    BY <2>1 DEF mainVars, Mode
  <2> QED BY <2>1, <2>2, RespondersKept, ClientsKept, PromiseVars DEF PromisedStep
<1> QED
  BY <1>1, <1>2, <1>3, <1>4 DEF Next, Over

(* The session implements what it promises: for any number of clients,      *)
(* protocols, serves and retries, every step of every thread is one of      *)
(* ProbeSession or invisible to it (main.py:451-679, cred_server.py).       *)
THEOREM ImplementsProbeSessionAlways == Spec => ImplementsProbeSession
<1>1. Init => Promise!Init
  BY ListenerMainAssumption
     DEF Init, CredServerInit, ListenerMainInit, ClientRunInit, Promise!Init, Mode, Ended, Teardown,
         Started, Settled, Holders, HasCreds, Probed, PastProbes, ListenerMainAssumption
<1>2. SessionInv /\ SingleUse' /\ [Next]_vars => [Promise!Next]_(Promise!vars)
  BY SessionStepsMap DEF PromisedStep
<1>3. Spec => []SessionInv
  BY ViewInvAlways, StopperInvAlways, PeerInvAlways, SingleUseAlways, PromiseInvAlways, PTL
     DEF SessionInv
<1>4. SessionInv => SingleUse
  BY DEF SessionInv
<1> QED
  BY <1>1, <1>2, <1>3, <1>4, PTL DEF Spec, ImplementsProbeSession, Promise!Spec
=============================================================================

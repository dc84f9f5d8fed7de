---------------------------- MODULE RetryProofs ----------------------------
(***************************************************************************)
(* Proofs about Retry for every number of messages and replicas, every     *)
(* MaxDeliver and CaptureReserve, every breaker mode and buffer size.      *)
(***************************************************************************)
EXTENDS Retry, TLAPS

\* Every step keeps the types, and a replica idle exactly when it holds nothing.
LEMMA TypeStep == TypeOK /\ [Next]_vars => TypeOK'
<1> SUFFICES ASSUME TypeOK, [Next]_vars PROVE TypeOK'
  OBVIOUS
<1> USE DEF TypeOK, BrokerTypeOK
<1>1. CASE UNCHANGED vars
  BY <1>1 DEF vars, brokerVars, replicaVars, recordVars
<1>2. ASSUME NEW m \in Messages, NEW r \in Replicas, ServeTo(m, r) PROVE TypeOK'
  <2>1. /\ numDelivered[m] + 1 \in DeliveryCount
        /\ numDelivered'[m] = numDelivered[m] + 1
        /\ BrokerTypeOK'
    BY <1>2, MaxDeliverPositive DEF ServeTo, Serve, DeliveryCount
  <2>2. [msg |-> m, n |-> numDelivered'[m]] \in Delivery
    BY <2>1 DEF Delivery
  <2> QED
    BY <1>2, <2>1, <2>2 DEF ServeTo, Serve, recordVars
<1>3. ASSUME NEW m \in Messages, ServeLost(m) PROVE TypeOK'
  BY <1>3, MaxDeliverPositive DEF ServeLost, Serve, replicaVars
<1>4. ASSUME NEW m \in Messages, ExpireDelivery(m) PROVE TypeOK'
  BY <1>4 DEF ExpireDelivery, Expire, replicaVars, recordVars
<1>5. ASSUME NEW r \in Replicas, Dispatch(r) PROVE TypeOK'
  BY <1>5, RetryAssumption DEF Dispatch, brokerVars, recordVars, Location
<1>6. ASSUME NEW r \in Replicas, HandlerStep(r) PROVE TypeOK'
  <2> USE RetryAssumption
  <2>1. pc[r] # "idle" /\ cur[r] \in Delivery
    BY <1>6 DEF HandlerStep, HandleOk, PlainAck, Settle, DeadLetter, CaptureOk,
                CaptureFails, DoubleAckOk, DoubleAckFails
  <2>2. cur[r].msg \in Messages /\ cur[r].n \in DeliveryCount
    BY <2>1 DEF Delivery
  <2>3. ASSUME NEW o \in Outcome, NEW c \in Cause, NEW k \in BOOLEAN,
               Observe(r, o, c, k)
        PROVE  reports' \in SUBSET Settlement
    BY <2>2, <2>3 DEF Observe, Settlement
  <2>4. Return(r) => /\ pc' \in [Replicas -> Location]
                     /\ cur' \in [Replicas -> Delivery \cup {NoDelivery}]
                     /\ cause' \in [Replicas -> Cause]
                     /\ phase' = phase /\ buffer' = buffer
                     /\ \A q \in Replicas : (pc'[q] = "idle") <=> (cur'[q] = NoDelivery)
    BY DEF Return, Location, Cause
  <2>5. AckLands(cur[r].msg) \/ UNCHANGED brokerVars => BrokerTypeOK'
    BY <2>2 DEF AckLands, brokerVars
  <2>6. CASE HandleOk(r)
    BY <2>1, <2>2, <2>6 DEF HandleOk, brokerVars, Location
  <2>7. CASE PlainAck(r)
    BY <2>4, <2>5, <2>7 DEF PlainAck, recordVars
  <2>8. ASSUME NEW c \in Cause, AwaitRedelivery(r, c) PROVE TypeOK'
    <3>1. reports' \in SUBSET Settlement
      BY <2>3, <2>8 DEF AwaitRedelivery, Outcome
    <3> QED
      BY <2>4, <2>8, <3>1 DEF AwaitRedelivery, brokerVars
  <2>9. ASSUME NEW c \in Cause, Terminate(r, c) PROVE TypeOK'
    BY <2>1, <2>9 DEF Terminate, brokerVars, recordVars, Location
  <2>10. CASE Settle(r)
    BY <2>8, <2>9, <2>10 DEF Settle, SettleCause, Cause, TerminalCause
  <2>11. CASE DeadLetter(r)
    BY <2>9, <2>11 DEF DeadLetter, Cause, TerminalCause
  <2>12. CASE CaptureOk(r)
    BY <2>1, <2>12 DEF CaptureOk, brokerVars, Location
  <2>13. CASE CaptureFails(r)
    <3>1. reports' \in SUBSET Settlement
      BY <2>3, <2>13 DEF CaptureFails, Outcome
    <3> QED
      BY <2>1, <2>4, <2>13, <3>1 DEF CaptureFails, brokerVars
  <2>14. CASE DoubleAckOk(r)
    <3>1. reports' \in SUBSET Settlement
      BY <2>3, <2>14 DEF DoubleAckOk, Outcome
    <3> QED
      BY <2>4, <2>5, <2>14, <3>1 DEF DoubleAckOk
  <2>15. CASE DoubleAckFails(r)
    <3>1. reports' \in SUBSET Settlement
      BY <2>3, <2>15 DEF DoubleAckFails, Outcome
    <3> QED
      BY <2>4, <2>5, <2>15, <3>1 DEF DoubleAckFails
  <2> QED
    BY <1>6, <2>6, <2>7, <2>10, <2>11, <2>12, <2>13, <2>14, <2>15 DEF HandlerStep
<1>7. ASSUME NEW r \in Replicas, StopPulling(r) PROVE TypeOK'
  BY <1>7 DEF StopPulling, brokerVars, Phase, FinalAmong
<1>8. ASSUME NEW r \in Replicas, WindowElapsed(r) \/ Stopped(r) \/ Start(r) PROVE TypeOK'
  BY <1>8 DEF WindowElapsed, Stopped, Start, brokerVars, recordVars, Phase
<1>9. ASSUME NEW r \in Replicas, Crash(r) PROVE TypeOK'
  BY <1>9 DEF Crash, brokerVars, Phase, Location, Cause, FinalAmong
<1> QED
  BY <1>1, <1>2, <1>3, <1>4, <1>5, <1>6, <1>7, <1>8, <1>9 DEF Next

\* Types, for every state the replicas, the server and the DLQ can reach.
THEOREM TypeCorrect == Spec => []TypeOK
<1>1. Init => TypeOK
  BY MaxDeliverPositive, RetryAssumption
     DEF Init, BrokerInit, TypeOK, BrokerTypeOK, Phase, Location, Cause
<1> QED
  BY <1>1, TypeStep, PTL DEF Spec

-----------------------------------------------------------------------------
(* Reports *)

\* What a replica has already done for the delivery it holds: a handler about to
\* Ack has processed it, and terminate reaches its DoubleAck with a copy stored.
WorkDone ==
    \A r \in Replicas : /\ pc[r] = "ack" => cur[r].msg \in processed
                        /\ pc[r] = "doubleAck" => cur[r] \in dlq

\* Nothing is ever unsettled, uncaptured, unreported or forgotten.
LEMMA Monotone ==
    ASSUME TypeOK, [Next]_vars
    PROVE  /\ settled \subseteq settled'
           /\ dlq \subseteq dlq'
           /\ reports \subseteq reports'
           /\ processed \subseteq processed'
           /\ gone \subseteq gone'
<1> USE DEF Serve, Expire, AckLands, vars, brokerVars, replicaVars, recordVars
<1>1. CASE UNCHANGED vars
  BY <1>1
<1>2. CASE \E m \in Messages : \/ \E r \in Replicas : ServeTo(m, r)
                               \/ ServeLost(m) \/ ExpireDelivery(m)
  BY <1>2 DEF ServeTo, ServeLost, ExpireDelivery
<1>3. ASSUME NEW r \in Replicas, HandlerStep(r)
      PROVE  /\ settled \subseteq settled'
             /\ dlq \subseteq dlq'
             /\ reports \subseteq reports'
             /\ processed \subseteq processed'
             /\ gone \subseteq gone'
  BY <1>3 DEF HandlerStep, HandleOk, PlainAck, Settle, DeadLetter, CaptureOk, CaptureFails,
              DoubleAckOk, DoubleAckFails, AwaitRedelivery, Terminate, Observe
<1>4. CASE \E r \in Replicas : \/ Dispatch(r) \/ StopPulling(r) \/ WindowElapsed(r)
                               \/ Stopped(r) \/ Crash(r) \/ Start(r)
  BY <1>4 DEF Dispatch, StopPulling, WindowElapsed, Stopped, Crash, Start
<1> QED
  BY <1>1, <1>2, <1>3, <1>4 DEF Next

\* Only its own steps move a replica, and only these put it before an Ack.
LEMMA WorkStep == TypeOK /\ WorkDone /\ [Next]_vars => WorkDone'
<1> SUFFICES ASSUME TypeOK, WorkDone, [Next]_vars, NEW q \in Replicas
             PROVE  /\ pc'[q] = "ack" => cur'[q].msg \in processed'
                    /\ pc'[q] = "doubleAck" => cur'[q] \in dlq'
  BY DEF WorkDone
<1> USE DEF TypeOK, WorkDone, vars, brokerVars, replicaVars, recordVars
<1>1. processed \subseteq processed' /\ dlq \subseteq dlq'
  BY Monotone
<1>2. CASE pc'[q] = pc[q] /\ cur'[q] = cur[q]
  BY <1>1, <1>2
<1>3. CASE UNCHANGED vars
  BY <1>2, <1>3
<1>4. CASE \E m \in Messages : \/ \E r \in Replicas : ServeTo(m, r)
                               \/ ServeLost(m) \/ ExpireDelivery(m)
  BY <1>2, <1>4 DEF ServeTo, ServeLost, ExpireDelivery
<1>5. ASSUME NEW r \in Replicas, HandlerStep(r)
      PROVE  /\ pc'[q] = "ack" => cur'[q].msg \in processed'
             /\ pc'[q] = "doubleAck" => cur'[q] \in dlq'
  <2>1. CASE q # r
    BY <1>2, <1>5, <2>1 DEF HandlerStep, HandleOk, PlainAck, Settle, DeadLetter, CaptureOk,
          CaptureFails, DoubleAckOk, DoubleAckFails, AwaitRedelivery, Terminate, Return
  <2>2. CASE q = r
    BY <1>1, <1>5, <2>2 DEF HandlerStep, HandleOk, PlainAck, Settle, DeadLetter, CaptureOk,
          CaptureFails, DoubleAckOk, DoubleAckFails, AwaitRedelivery, Terminate, Return
  <2> QED
    BY <2>1, <2>2
<1>6. CASE \E r \in Replicas : \/ Dispatch(r) \/ StopPulling(r) \/ WindowElapsed(r)
                               \/ Stopped(r) \/ Crash(r) \/ Start(r)
  BY <1>1, <1>2, <1>6 DEF Dispatch, StopPulling, WindowElapsed, Stopped, Crash, Start
<1> QED
  BY <1>3, <1>4, <1>5, <1>6 DEF Next

\* A report, once true, stays true; the one a step adds is true when it is made.
LEMMA ReportStep ==
    TypeOK /\ WorkDone /\ ReportsAreTrue /\ [Next]_vars => ReportsAreTrue'
<1> SUFFICES ASSUME TypeOK, WorkDone, ReportsAreTrue, [Next]_vars, NEW s \in reports'
             PROVE  /\ s.captured => [msg |-> s.msg, n |-> s.n] \in dlq'
                    /\ s.outcome \in {"dead_lettered", "uncertain"} => s.captured
                    /\ s.outcome = "dead_lettered" => s.msg \in settled'
                    /\ s.outcome = "retried" <=> (s.n < MaxDeliver /\ s.outcome # "dead_lettered")
  BY DEF ReportsAreTrue
<1>1. CASE s \in reports
  BY <1>1, Monotone DEF ReportsAreTrue
<1>2. CASE s \notin reports
  <2>1. PICK r \in Replicas : HandlerStep(r)
    BY <1>2 DEF Next, vars, brokerVars, replicaVars, recordVars, ServeTo, ServeLost,
                ExpireDelivery, Dispatch, StopPulling, WindowElapsed, Stopped, Crash, Start
  <2>2. cur[r] \in Delivery
    BY <2>1 DEF TypeOK, HandlerStep, HandleOk, PlainAck, Settle, DeadLetter, CaptureOk,
                CaptureFails, DoubleAckOk, DoubleAckFails
  <2>3. /\ cur[r].msg \in Messages /\ cur[r].n \in 1..MaxDeliver
        /\ cur[r] = [msg |-> cur[r].msg, n |-> cur[r].n]
    BY <2>2 DEF Delivery, DeliveryCount
  <2> USE MaxDeliverPositive, RetryAssumption DEF BrokerCapReached, Observe
  <2>4. CASE Settle(r)
    <3>1. PICK trip \in BOOLEAN :
            \/ SettleCause(cur[r].n, trip) = "none"
            \/ SettleCause(cur[r].n, trip) # "none" /\ Interrupted(r)
      BY <1>2, <2>4 DEF Settle, Terminate, recordVars
    <3>2. cur[r].n < MaxDeliver
      BY <2>3, <3>1 DEF SettleCause, LadderSpent, Interrupted
    <3>3. s.msg = cur[r].msg /\ s.n = cur[r].n /\ s.outcome = "retried" /\ s.captured = FALSE
      BY <1>2, <2>4 DEF Settle, AwaitRedelivery, Terminate, recordVars
    <3> QED
      BY <3>2, <3>3
  <2>5. CASE CaptureFails(r)
    <3>1. /\ s.msg = cur[r].msg /\ s.n = cur[r].n /\ s.captured = FALSE
          /\ s.outcome = IF cur[r].n >= MaxDeliver THEN "stranded" ELSE "retried"
      BY <1>2, <2>5 DEF CaptureFails
    <3> QED
      BY <2>3, <3>1
  <2>6. CASE DoubleAckOk(r)
    <3>1. s.msg = cur[r].msg /\ s.n = cur[r].n /\ s.outcome = "dead_lettered" /\ s.captured = TRUE
      BY <1>2, <2>6 DEF DoubleAckOk
    <3>2. cur[r] \in dlq' /\ cur[r].msg \in settled'
      BY <2>6 DEF DoubleAckOk, AckLands, WorkDone
    <3> QED
      BY <2>3, <3>1, <3>2
  <2>7. CASE DoubleAckFails(r)
    <3>1. /\ s.msg = cur[r].msg /\ s.n = cur[r].n /\ s.captured = TRUE
          /\ s.outcome = IF cur[r].n >= MaxDeliver THEN "uncertain" ELSE "retried"
      BY <1>2, <2>7 DEF DoubleAckFails
    <3>2. cur[r] \in dlq'
      BY <2>7 DEF DoubleAckFails, WorkDone
    <3> QED
      BY <2>3, <3>1, <3>2
  <2> QED
    BY <1>2, <2>1, <2>4, <2>5, <2>6, <2>7
       DEF HandlerStep, HandleOk, PlainAck, DeadLetter, Terminate, CaptureOk, recordVars
<1> QED
  BY <1>1, <1>2

\* OnSettle is never lied to, whatever the replicas, crashes and lost
\* acknowledgements in between.
THEOREM ReportsTrue == Spec => []ReportsAreTrue
<1>1. Init => WorkDone /\ ReportsAreTrue
  BY DEF Init, WorkDone, ReportsAreTrue
<1> QED
  BY <1>1, TypeCorrect, WorkStep, ReportStep, PTL DEF Spec

-----------------------------------------------------------------------------
(* The last delivery *)

\* The message's last delivery is where FinalDeliveryAccounted says.
Accounted(m) == \/ m \in settled \cup processed \cup gone
                \/ Held(m, MaxDeliver)
                \/ Flagged(m)

\* Letting go of the last delivery is what could lose it: every way a handler
\* returns from it leaves the message processed, settled or flagged.
LEMMA ReturnAccounts ==
    ASSUME TypeOK, WorkDone, NEW r \in Replicas, HandlerStep(r), pc'[r] = "idle",
           NEW m \in Messages, cur[r].msg = m, cur[r].n = MaxDeliver
    PROVE  m \in settled' \cup processed' \/ Flagged(m)'
<1> USE DEF TypeOK
<1>1. CASE PlainAck(r)
  BY <1>1 DEF PlainAck, WorkDone, recordVars
<1>2. CASE Settle(r)
  <2>1. \A trip \in BOOLEAN : SettleCause(cur[r].n, trip) # "none"
    BY RetryAssumption, MaxDeliverPositive DEF SettleCause, LadderSpent
  <2>2. ~Interrupted(r)
    BY MaxDeliverPositive DEF Interrupted, BrokerCapReached
  <2>3. PICK trip \in BOOLEAN : Terminate(r, SettleCause(cur[r].n, trip))
    BY <1>2, <2>1, <2>2 DEF Settle
  <2>4. pc'[r] = "capture"
    BY <2>3 DEF Terminate
  <2> QED
    BY <2>4
<1>3. CASE CaptureFails(r) \/ DoubleAckFails(r)
  <2>1. BrokerCapReached(cur[r].n)
    BY MaxDeliverPositive DEF BrokerCapReached
  <2> DEFINE s(o, k) == [msg |-> cur[r].msg, n |-> cur[r].n, outcome |-> o,
                         cause |-> cause[r], captured |-> k]
  <2>2. s("stranded", FALSE) \in reports' \/ s("uncertain", TRUE) \in reports'
    BY <1>3, <2>1 DEF CaptureFails, DoubleAckFails, Observe
  <2> QED
    BY <2>2 DEF Flagged
<1>4. CASE DoubleAckOk(r)
  BY <1>4 DEF DoubleAckOk, AckLands
<1>5. CASE HandleOk(r) \/ DeadLetter(r) \/ CaptureOk(r)
  <2>1. pc'[r] # "idle"
    BY <1>5 DEF HandleOk, DeadLetter, CaptureOk, Terminate
  <2> QED
    BY <2>1
<1> QED
  BY <1>1, <1>2, <1>3, <1>4, <1>5 DEF HandlerStep

LEMMA FinalStep ==
    TypeOK /\ WorkDone /\ FinalDeliveryAccounted /\ [Next]_vars => FinalDeliveryAccounted'
<1> SUFFICES ASSUME TypeOK, WorkDone, FinalDeliveryAccounted, [Next]_vars,
                    NEW m \in Messages, numDelivered'[m] = MaxDeliver
             PROVE  Accounted(m)'
  BY DEF FinalDeliveryAccounted, Accounted
<1> DEFINE last == [msg |-> m, n |-> MaxDeliver]
<1>1. /\ m \in settled \cup processed \cup gone => Accounted(m)'
      /\ Flagged(m) => Flagged(m)'
  BY Monotone DEF Flagged, Accounted
<1>2. (\E r \in Replicas : last \in buffer'[r] \cup {cur'[r]}) => Accounted(m)'
  BY DEF Accounted, Held
<1>3. numDelivered[m] = MaxDeliver =>
        \/ m \in settled \cup processed \cup gone
        \/ Flagged(m)
        \/ \E r \in Replicas : last \in buffer[r] \cup {cur[r]}
  BY DEF FinalDeliveryAccounted, Held
<1> USE DEF TypeOK, BrokerTypeOK
<1>4. ASSUME numDelivered[m] = MaxDeliver,
             \A r \in Replicas : last \in buffer[r] \cup {cur[r]} =>
                                    last \in buffer'[r] \cup {cur'[r]}
      PROVE  Accounted(m)'
  BY <1>1, <1>2, <1>3, <1>4 DEF Accounted
<1>5. CASE UNCHANGED vars
  BY <1>4, <1>5 DEF vars, brokerVars, replicaVars
<1>6. ASSUME NEW k \in Messages, NEW r \in Replicas, ServeTo(k, r) PROVE Accounted(m)'
  <2>1. CASE k = m
    <3>1. last \in buffer'[r]
      BY <1>6, <2>1 DEF ServeTo
    <3> QED
      BY <1>2, <3>1
  <2>2. CASE k # m
    BY <1>4, <1>6, <2>2 DEF ServeTo, Serve
  <2> QED
    BY <2>1, <2>2
<1>7. ASSUME NEW k \in Messages, ServeLost(k) PROVE Accounted(m)'
  <2>1. CASE k = m
    BY <1>7, <2>1, MaxDeliverPositive DEF ServeLost, BrokerCapReached, Accounted
  <2>2. CASE k # m
    BY <1>4, <1>7, <2>2 DEF ServeLost, Serve, replicaVars
  <2> QED
    BY <2>1, <2>2
<1>8. ASSUME NEW k \in Messages, ExpireDelivery(k) PROVE Accounted(m)'
  BY <1>4, <1>8 DEF ExpireDelivery, Expire, replicaVars
<1>9. ASSUME NEW r \in Replicas, Dispatch(r) PROVE Accounted(m)'
  <2>1. last # NoDelivery
    BY RetryAssumption, MaxDeliverPositive DEF Delivery, DeliveryCount
  <2>2. cur[r] = NoDelivery /\ cur'[r] \in buffer[r] /\ buffer'[r] = buffer[r] \ {cur'[r]}
    BY <1>9 DEF Dispatch
  <2>3. \A q \in Replicas \ {r} : buffer'[q] = buffer[q] /\ cur'[q] = cur[q]
    BY <1>9 DEF Dispatch
  <2>4. numDelivered' = numDelivered
    BY <1>9 DEF Dispatch, brokerVars
  <2> QED
    BY <1>4, <2>1, <2>2, <2>3, <2>4
<1>10. ASSUME NEW r \in Replicas, HandlerStep(r) PROVE Accounted(m)'
  <2>1. /\ numDelivered' = numDelivered /\ buffer' = buffer
        /\ \A q \in Replicas \ {r} : cur'[q] = cur[q]
        /\ cur'[r] = cur[r] \/ (pc'[r] = "idle" /\ cur[r] # NoDelivery)
    BY <1>10 DEF HandlerStep, HandleOk, PlainAck, Settle, DeadLetter, CaptureOk, CaptureFails,
         DoubleAckOk, DoubleAckFails, AwaitRedelivery, Terminate, Return, AckLands, brokerVars
  <2>2. CASE cur'[r] = cur[r]
    BY <1>4, <2>1, <2>2
  <2>3. CASE cur'[r] # cur[r] /\ cur[r] # last
    BY <1>1, <1>2, <1>3, <2>1, <2>3 DEF Accounted
  <2>4. CASE cur'[r] # cur[r] /\ cur[r] = last
    <3>1. cur[r].msg = m /\ cur[r].n = MaxDeliver
      BY <2>4
    <3> QED
      BY <1>2, <1>10, <2>1, <2>4, <3>1, ReturnAccounts DEF Accounted
  <2> QED
    BY <2>2, <2>3, <2>4
<1>11. ASSUME NEW r \in Replicas, StopPulling(r) \/ Crash(r) PROVE Accounted(m)'
  <2>1. /\ numDelivered' = numDelivered
        /\ \A q \in Replicas \ {r} : buffer'[q] = buffer[q] /\ cur'[q] = cur[q]
        /\ last \in buffer[r] \cup {cur[r]} =>
             m \in gone' \/ last \in buffer'[r] \cup {cur'[r]}
    BY <1>11 DEF StopPulling, Crash, FinalAmong, brokerVars
  <2> QED
    BY <1>1, <1>2, <1>3, <2>1 DEF Accounted
<1>12. ASSUME NEW r \in Replicas, WindowElapsed(r) \/ Stopped(r) \/ Start(r)
       PROVE Accounted(m)'
  BY <1>4, <1>12 DEF WindowElapsed, Stopped, Start, brokerVars
<1> QED
  BY <1>5, <1>6, <1>7, <1>8, <1>9, <1>10, <1>11, <1>12 DEF Next

\* No silent strand, for any number of replicas, stops and crashes.
THEOREM FinalAccounted == Spec => []FinalDeliveryAccounted
<1>1. Init => WorkDone /\ FinalDeliveryAccounted
  BY MaxDeliverPositive DEF Init, BrokerInit, WorkDone, FinalDeliveryAccounted
<1> QED
  BY <1>1, TypeCorrect, WorkStep, FinalStep, PTL DEF Spec

-----------------------------------------------------------------------------
(* Refinement *)

\* Each step of the consumers is a step of MessageFate or changes nothing it sees.
LEMMA FateStep == TypeOK /\ WorkDone /\ [Next]_vars => [Fate!Next]_(Fate!vars)
<1> SUFFICES ASSUME TypeOK, WorkDone, [Next]_vars PROVE [Fate!Next]_(Fate!vars)
  OBVIOUS
<1>1. ASSUME processed' = processed, dlq' = dlq, settled' = settled
      PROVE  [Fate!Next]_(Fate!vars)
  BY <1>1 DEF Fate!vars, CopiedMessages
<1>2. ASSUME NEW r \in Replicas, HandlerStep(r)
      PROVE  [Fate!Next]_(Fate!vars)
  <2>1. pc[r] # "idle" /\ cur[r] \in Delivery /\ cur[r].msg \in Messages
    BY <1>2 DEF TypeOK, Delivery, HandlerStep, HandleOk, PlainAck, Settle, DeadLetter,
                CaptureOk, CaptureFails, DoubleAckOk, DoubleAckFails
  <2> DEFINE m == cur[r].msg
  <2>2. CASE HandleOk(r)
    <3>1. Fate!Process(m)
      BY <2>2 DEF HandleOk, Fate!Process, CopiedMessages, brokerVars
    <3> QED
      BY <2>1, <3>1 DEF Fate!Next
  <2>3. ASSUME AckLands(m) \/ UNCHANGED brokerVars, m \in processed \cup CopiedMessages,
               processed' = processed, dlq' = dlq
        PROVE  [Fate!Next]_(Fate!vars)
    <3>1. CASE UNCHANGED brokerVars
      BY <1>1, <2>3, <3>1 DEF brokerVars
    <3>2. CASE AckLands(m)
      <4>1. Fate!Remove(m)
        BY <2>3, <3>2 DEF AckLands, Fate!Remove, CopiedMessages
      <4> QED
        BY <2>1, <4>1 DEF Fate!Next
    <3> QED
      BY <2>3, <3>1, <3>2
  <2>4. CASE PlainAck(r)
    BY <2>3, <2>4 DEF PlainAck, WorkDone, recordVars
  <2>5. CASE DoubleAckOk(r) \/ DoubleAckFails(r)
    <3>1. m \in CopiedMessages
      BY <2>5 DEF DoubleAckOk, DoubleAckFails, WorkDone, CopiedMessages
    <3> QED
      BY <2>3, <2>5, <3>1 DEF DoubleAckOk, DoubleAckFails
  <2>6. CASE Settle(r) \/ DeadLetter(r)
    BY <1>1, <2>6 DEF Settle, DeadLetter, AwaitRedelivery, Terminate, brokerVars, recordVars
  <2>7. CASE CaptureOk(r) \/ CaptureFails(r)
    <3>1. /\ dlq' = dlq \/ dlq' = dlq \cup {cur[r]}
          /\ processed' = processed /\ settled' = settled
      BY <2>7 DEF CaptureOk, CaptureFails, brokerVars
    <3>2. CASE dlq' = dlq
      BY <1>1, <3>1, <3>2
    <3>3. CASE dlq' = dlq \cup {cur[r]}
      <4>1. CopiedMessages' = CopiedMessages \cup {m}
        BY <3>3 DEF CopiedMessages
      <4>2. Fate!Copy(m)
        BY <3>1, <4>1 DEF Fate!Copy
      <4> QED
        BY <2>1, <4>2 DEF Fate!Next
    <3> QED
      BY <3>1, <3>2, <3>3
  <2> QED
    BY <1>2, <2>2, <2>4, <2>5, <2>6, <2>7 DEF HandlerStep
<1>3. ASSUME \/ UNCHANGED vars
             \/ \E m \in Messages : \/ \E r \in Replicas : ServeTo(m, r)
                                    \/ ServeLost(m) \/ ExpireDelivery(m)
             \/ \E r \in Replicas : \/ Dispatch(r) \/ StopPulling(r) \/ WindowElapsed(r)
                                    \/ Stopped(r) \/ Crash(r) \/ Start(r)
      PROVE  [Fate!Next]_(Fate!vars)
  BY <1>1, <1>3 DEF vars, brokerVars, replicaVars, recordVars, ServeTo, ServeLost, Serve,
     ExpireDelivery, Expire, Dispatch, StopPulling, WindowElapsed, Stopped, Crash, Start
<1> QED
  BY <1>2, <1>3 DEF Next

\* Never a drop: the replicated consumers implement MessageFate.
THEOREM Refinement == Spec => NeverADrop
<1>1. Init => WorkDone /\ Fate!Init
  BY DEF Init, BrokerInit, WorkDone, Fate!Init, CopiedMessages
<1> QED
  BY <1>1, TypeCorrect, WorkStep, FateStep, PTL DEF Spec, NeverADrop, Fate!Spec
=============================================================================

------------------------------- MODULE Retry -------------------------------
(***************************************************************************)
(* jsconsumer.Retry across the replicas of one service: every replica runs *)
(* one consume loop (jsconsumer.Runner) on the same durable, handles one   *)
(* delivery at a time and disposes of it with a plain Ack, Retry.Settle or *)
(* Retry.DeadLetter.  Replicas are stopped (stop pulling, drain window,    *)
(* cancel, wind down), crash and start again while deliveries are held.    *)
(*                                                                         *)
(* terminate() is three steps, because other replicas, the server and the  *)
(* process's death may come between them: the decision, the DLQ publish    *)
(* (Capture) and the DoubleAck.  The breaker's timing is in Breaker.tla;   *)
(* here a trip is an input, allowed whenever the message-local conditions  *)
(* that do not depend on time hold.                                        *)
(***************************************************************************)
EXTENDS JetStream, FiniteSets

CONSTANTS Replicas,        \* processes consuming from the durable
          CaptureReserve,  \* RetryConfig.CaptureReserve, resolved
          MinDeliveries,   \* RetryConfig.MinDeliveries, resolved
          Breaker,         \* "off" (no monitor), "observe" or "enforce"
          MaxMessages,     \* Config.MaxMessages: the client-side buffer
          MaxStops,        \* bound: stops and crashes, all replicas together
          NoDelivery       \* what an idle replica holds

\* What NewRetry accepts (retry.go 607-635).
ASSUME RetryAssumption ==
    /\ CaptureReserve \in Nat
    /\ MinDeliveries \in Nat \ {0}
    /\ MinDeliveries + CaptureReserve <= MaxDeliver
    /\ Breaker \in {"off", "observe", "enforce"}
    /\ MaxMessages \in Nat \ {0}
    /\ MaxStops \in Nat
    /\ NoDelivery \notin Delivery

VARIABLES phase,      \* per replica: state of its Runner
          buffer,     \* per replica: deliveries pulled and not yet dispatched
          pc,         \* per replica: where its in-flight delivery is
          cur,        \* per replica: the in-flight delivery
          cause,      \* per replica: Settlement.Cause of the terminal branch
          dlq,        \* copies in the dead-letter stream
          reports,    \* Settlements handed to OnSettle
          processed,  \* messages some handler finished successfully
          gone,       \* messages whose last delivery died with its holder
          stops       \* stops and crashes so far

replicaVars == <<phase, buffer, pc, cur, cause>>
recordVars == <<dlq, reports, processed, gone, stops>>
vars == <<brokerVars, replicaVars, recordVars>>

Phase == {"up", "draining", "cancelled", "down"}
Location == {"idle", "handling", "ack", "capture", "doubleAck"}
TerminalCause == {"floor_age", "max_deliver", "permanent"}
Cause == TerminalCause \cup {"none", "shutdown"}
Outcome == {"retried", "dead_lettered", "stranded", "uncertain"}
Settlement == [msg : Messages, n : DeliveryCount, outcome : Outcome,
               cause : Cause, captured : BOOLEAN]

TypeOK ==
    /\ BrokerTypeOK
    /\ phase \in [Replicas -> Phase]
    /\ buffer \in [Replicas -> SUBSET Delivery]
    /\ pc \in [Replicas -> Location]
    /\ cur \in [Replicas -> Delivery \cup {NoDelivery}]
    /\ cause \in [Replicas -> Cause]
    /\ dlq \in SUBSET Delivery
    /\ reports \in SUBSET Settlement
    /\ processed \in SUBSET Messages
    /\ gone \in SUBSET Messages
    /\ stops \in Nat
    /\ \A r \in Replicas : (pc[r] = "idle") <=> (cur[r] = NoDelivery)

Init ==
    /\ BrokerInit
    /\ phase = [r \in Replicas |-> "up"]
    /\ buffer = [r \in Replicas |-> {}]
    /\ pc = [r \in Replicas |-> "idle"]
    /\ cur = [r \in Replicas |-> NoDelivery]
    /\ cause = [r \in Replicas |-> "none"]
    /\ dlq = {}
    /\ reports = {}
    /\ processed = {}
    /\ gone = {}
    /\ stops = 0

-----------------------------------------------------------------------------
(* The decisions, as predicates on the delivery count. *)

\* Mutant: the cap missed by one.
CapMissedByOne(n) == n > MaxDeliver

BrokerCapReached(n) == n >= MaxDeliver

LadderSpent(n) == n >= MaxDeliver - CaptureReserve

\* Mutant: a shutdown defers every delivery, the last one included.
InterruptedAtTheCapToo(r) == phase[r] = "cancelled"

\* backoff.IsInterrupted on the handler context, while deliveries remain.
Interrupted(r) == phase[r] = "cancelled" /\ ~BrokerCapReached(cur[r].n)

\* The part of shouldQuarantine that does not depend on time.
MayTrip(r) == /\ Breaker # "off"
              /\ ~Interrupted(r)
              /\ cur[r].n >= MinDeliveries

SettleCause(n, trip) ==
    IF trip /\ Breaker = "enforce" THEN "floor_age"
    ELSE IF LadderSpent(n) THEN "max_deliver" ELSE "none"

-----------------------------------------------------------------------------
(* Deliveries reaching a replica. *)

\* The server serves m to a replica with a pull outstanding.
ServeTo(m, r) ==
    /\ phase[r] = "up"
    /\ Cardinality(buffer[r]) < MaxMessages
    /\ Serve(m)
    /\ buffer' = [buffer EXCEPT ![r] = @ \cup {[msg |-> m, n |-> numDelivered'[m]]}]
    /\ UNCHANGED <<phase, pc, cur, cause, recordVars>>

\* The server serves m to a pull whose client is gone: it counts all the same.
ServeLost(m) ==
    /\ Serve(m)
    /\ gone' = IF BrokerCapReached(numDelivered'[m]) THEN gone \cup {m} ELSE gone
    /\ UNCHANGED <<replicaVars, dlq, reports, processed, stops>>

ExpireDelivery(m) == Expire(m) /\ UNCHANGED <<replicaVars, recordVars>>

\* The consume loop calls onMsg with a buffered delivery.
Dispatch(r) ==
    /\ phase[r] = "up"
    /\ pc[r] = "idle"
    /\ \E d \in buffer[r] :
          /\ cur' = [cur EXCEPT ![r] = d]
          /\ buffer' = [buffer EXCEPT ![r] = @ \ {d}]
    /\ pc' = [pc EXCEPT ![r] = "handling"]
    /\ UNCHANGED <<brokerVars, phase, cause, recordVars>>

\* Mutant: the in-flight marker survives the handler's return.
ReturnKeepsInFlight(r) ==
    /\ pc' = [pc EXCEPT ![r] = "idle"]
    /\ cause' = [cause EXCEPT ![r] = "none"]
    /\ UNCHANGED <<phase, buffer, cur>>

\* The handler's call returns: the loop is free for the next delivery.
Return(r) ==
    /\ pc' = [pc EXCEPT ![r] = "idle"]
    /\ cur' = [cur EXCEPT ![r] = NoDelivery]
    /\ cause' = [cause EXCEPT ![r] = "none"]
    /\ UNCHANGED <<phase, buffer>>

\* OnSettle.
Observe(r, outcome, why, captured) ==
    reports' = reports \cup {[msg |-> cur[r].msg, n |-> cur[r].n,
                              outcome |-> outcome, cause |-> why,
                              captured |-> captured]}

-----------------------------------------------------------------------------
(* The handler and its dispositions. *)

\* The handler succeeds; its plain Ack is still to be sent.
HandleOk(r) ==
    /\ pc[r] = "handling"
    /\ processed' = processed \cup {cur[r].msg}
    /\ pc' = [pc EXCEPT ![r] = "ack"]
    /\ UNCHANGED <<brokerVars, phase, buffer, cur, cause, dlq, reports, gone, stops>>

\* A plain Ack is fire-and-forget: it lands or it is lost, and nobody is told.
PlainAck(r) ==
    /\ pc[r] = "ack"
    /\ AckLands(cur[r].msg) \/ UNCHANGED brokerVars
    /\ Return(r)
    /\ UNCHANGED recordVars

\* Mutant: handing the message back acknowledges it.
AckedOnRetry(r, why) ==
    /\ Observe(r, "retried", why, FALSE)
    /\ AckLands(cur[r].msg)
    /\ Return(r)
    /\ UNCHANGED <<dlq, processed, gone, stops>>

\* awaitRedelivery: doing nothing to the message is the disposition.
AwaitRedelivery(r, why) ==
    /\ Observe(r, "retried", why, FALSE)
    /\ Return(r)
    /\ UNCHANGED <<brokerVars, dlq, processed, gone, stops>>

\* terminate, up to the capture: from here on shutdown cannot cancel it.
Terminate(r, why) ==
    /\ pc' = [pc EXCEPT ![r] = "capture"]
    /\ cause' = [cause EXCEPT ![r] = why]
    /\ UNCHANGED <<brokerVars, phase, buffer, cur, recordVars>>

\* Retry.Settle, after a transient failure: breaker, exhaustion or the ladder.
Settle(r) ==
    /\ pc[r] = "handling"
    /\ \E trip \in BOOLEAN :
          LET why == SettleCause(cur[r].n, trip) IN
          /\ trip => MayTrip(r)
          /\ \/ why = "none" /\ AwaitRedelivery(r, "none")
             \/ why # "none" /\ Interrupted(r) /\ AwaitRedelivery(r, "shutdown")
             \/ why # "none" /\ ~Interrupted(r) /\ Terminate(r, why)

\* Retry.DeadLetter, for a payload that does not decode (Process) or a failure
\* the handler knows to be permanent.  It does not look at interruption.
DeadLetter(r) == pc[r] = "handling" /\ Terminate(r, "permanent")

\* The DLQ publish is acknowledged.
CaptureOk(r) ==
    /\ pc[r] = "capture"
    /\ dlq' = dlq \cup {cur[r]}
    /\ pc' = [pc EXCEPT ![r] = "doubleAck"]
    /\ UNCHANGED <<brokerVars, phase, buffer, cur, cause, reports, processed, gone, stops>>

\* Mutant: a failed capture is followed by the acknowledgement all the same.
CaptureErrorIgnored(r) ==
    /\ pc[r] = "capture"
    /\ pc' = [pc EXCEPT ![r] = "doubleAck"]
    /\ UNCHANGED <<brokerVars, phase, buffer, cur, cause, recordVars>>

\* Mutant: a failed capture returns its error and tells OnSettle nothing.
CaptureFailsUnreported(r) ==
    /\ pc[r] = "capture"
    /\ dlq' \in {dlq, dlq \cup {cur[r]}}
    /\ Return(r)
    /\ UNCHANGED <<brokerVars, reports, processed, gone, stops>>

\* The DLQ publish returns an error.  Its PubAck may be what was lost, so a
\* copy may have been stored all the same.
CaptureFails(r) ==
    /\ pc[r] = "capture"
    /\ dlq' \in {dlq, dlq \cup {cur[r]}}
    /\ Observe(r, IF BrokerCapReached(cur[r].n) THEN "stranded" ELSE "retried",
               cause[r], FALSE)
    /\ Return(r)
    /\ UNCHANGED <<brokerVars, processed, gone, stops>>

\* The DoubleAck is confirmed.
DoubleAckOk(r) ==
    /\ pc[r] = "doubleAck"
    /\ AckLands(cur[r].msg)
    /\ Observe(r, "dead_lettered", cause[r], TRUE)
    /\ Return(r)
    /\ UNCHANGED <<dlq, processed, gone, stops>>

\* No confirmation arrives: the ack or only its confirmation was lost.
DoubleAckFails(r) ==
    /\ pc[r] = "doubleAck"
    /\ AckLands(cur[r].msg) \/ UNCHANGED brokerVars
    /\ Observe(r, IF BrokerCapReached(cur[r].n) THEN "uncertain" ELSE "retried",
               cause[r], TRUE)
    /\ Return(r)
    /\ UNCHANGED <<dlq, processed, gone, stops>>

HandlerStep(r) ==
    \/ HandleOk(r) \/ PlainAck(r) \/ Settle(r) \/ DeadLetter(r)
    \/ CaptureOk(r) \/ CaptureFails(r) \/ DoubleAckOk(r) \/ DoubleAckFails(r)

-----------------------------------------------------------------------------
(* The Runner's life. *)

\* Messages whose last delivery is among the given ones.
FinalAmong(deliveries) ==
    {m \in Messages : [msg |-> m, n |-> MaxDeliver] \in deliveries}

\* Runner.Stop: nothing more is dispatched and the buffer is dropped.
StopPulling(r) ==
    /\ phase[r] = "up"
    /\ stops < MaxStops
    /\ stops' = stops + 1
    /\ phase' = [phase EXCEPT ![r] = "draining"]
    /\ buffer' = [buffer EXCEPT ![r] = {}]
    /\ gone' = gone \cup FinalAmong(buffer[r])
    /\ UNCHANGED <<brokerVars, pc, cur, cause, dlq, reports, processed>>

\* The drain window elapses with the handler still running.
WindowElapsed(r) ==
    /\ phase[r] = "draining"
    /\ pc[r] # "idle"
    /\ phase' = [phase EXCEPT ![r] = "cancelled"]
    /\ UNCHANGED <<brokerVars, buffer, pc, cur, cause, recordVars>>

\* The loop has wound down and Stop returns.
Stopped(r) ==
    /\ phase[r] \in {"draining", "cancelled"}
    /\ pc[r] = "idle"
    /\ phase' = [phase EXCEPT ![r] = "down"]
    /\ UNCHANGED <<brokerVars, buffer, pc, cur, cause, recordVars>>

\* The process dies with whatever it holds.
Crash(r) ==
    /\ phase[r] # "down"
    /\ stops < MaxStops
    /\ stops' = stops + 1
    /\ phase' = [phase EXCEPT ![r] = "down"]
    /\ buffer' = [buffer EXCEPT ![r] = {}]
    /\ pc' = [pc EXCEPT ![r] = "idle"]
    /\ cur' = [cur EXCEPT ![r] = NoDelivery]
    /\ cause' = [cause EXCEPT ![r] = "none"]
    /\ gone' = gone \cup FinalAmong(buffer[r] \cup {cur[r]})
    /\ UNCHANGED <<brokerVars, dlq, reports, processed>>

\* A new process, or a supervised restart of the loop.
Start(r) ==
    /\ phase[r] = "down"
    /\ phase' = [phase EXCEPT ![r] = "up"]
    /\ UNCHANGED <<brokerVars, buffer, pc, cur, cause, recordVars>>

-----------------------------------------------------------------------------
Next ==
    \/ \E m \in Messages : \/ \E r \in Replicas : ServeTo(m, r)
                           \/ ServeLost(m)
                           \/ ExpireDelivery(m)
    \/ \E r \in Replicas : \/ Dispatch(r)
                           \/ HandlerStep(r)
                           \/ StopPulling(r) \/ WindowElapsed(r) \/ Stopped(r)
                           \/ Crash(r) \/ Start(r)

Spec == Init /\ [][Next]_vars

\* Every handler returns, the server keeps serving and timing out, loops keep
\* dispatching, and a stopped process winds down and is replaced.  Which way a
\* handler, a publish or an ack goes is left open, as is every stop and crash.
Fairness ==
    /\ \A r \in Replicas : /\ WF_vars(HandlerStep(r))
                           /\ WF_vars(Dispatch(r))
                           /\ WF_vars(Stopped(r))
                           /\ WF_vars(Start(r))
    /\ \A m \in Messages : /\ WF_vars(\E r \in Replicas : ServeTo(m, r))
                           /\ WF_vars(ExpireDelivery(m))

FairSpec == Spec /\ Fairness
-----------------------------------------------------------------------------
(* Properties *)

CopiedMessages == {d.msg : d \in dlq}

\* "Never a drop": what the replicas, the server and the DLQ do together is
\* what MessageFate allows.  A message is removed (acknowledged, by Ack or by
\* terminate's DoubleAck) only after a handler processed it or a copy was stored.
Fate == INSTANCE MessageFate WITH copied <- CopiedMessages, removed <- settled
NeverADrop == Fate!Spec

\* What OnSettle is told is true, then and ever after: dead_lettered means a
\* copy of that delivery and a settled original; captured means a copy; retried
\* means the server had deliveries left; stranded and uncertain mean it had none.
ReportsAreTrue ==
    \A s \in reports :
        /\ s.captured => [msg |-> s.msg, n |-> s.n] \in dlq
        /\ s.outcome \in {"dead_lettered", "uncertain"} => s.captured
        /\ s.outcome = "dead_lettered" => s.msg \in settled
        /\ s.outcome = "retried" <=> (s.n < MaxDeliver /\ s.outcome # "dead_lettered")

\* Whether some replica still holds message m's delivery n.
Held(m, n) ==
    \E r \in Replicas : [msg |-> m, n |-> n] \in buffer[r] \cup {cur[r]}

\* Whether OnSettle asked for an operator on message m.
Flagged(m) ==
    \E s \in reports : s.msg = m /\ s.outcome \in {"stranded", "uncertain"}

\* No silent strand: once the last delivery was served, the message is settled
\* or processed, or the delivery is still held, or it died with its holder, or
\* OnSettle said stranded or uncertain.  Settle never lets it slip away as a
\* retry that nothing will serve, shutdown or not.
FinalDeliveryAccounted ==
    \A m \in Messages :
        numDelivered[m] = MaxDeliver =>
            \/ m \in settled \cup processed \cup gone
            \/ Held(m, MaxDeliver)
            \/ Flagged(m)

Retried(m, n) == \E s \in reports : s.msg = m /\ s.n = n /\ s.outcome = "retried"

\* A retried report is kept: the server serves the message again, unless it
\* was settled meanwhile.
RetriedComesBack ==
    \A m \in Messages, n \in DeliveryCount :
        Retried(m, n) ~> (m \in settled \/ numDelivered[m] > n)

\* Every message ends: settled, processed, flagged for an operator, or lost
\* with the process that held its last delivery.
EveryMessageEnds ==
    \A m \in Messages :
        <>(m \in settled \cup processed \cup gone \/ Flagged(m))
=============================================================================

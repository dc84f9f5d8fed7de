------------------------------ MODULE Process ------------------------------
(***************************************************************************)
(* jsconsumer.Process on a consumer without a Retry: one message, the      *)
(* workers of a durable, each running a delivery inside Process with the   *)
(* KeepInProgress heartbeat around the handler, and a handler that ends a  *)
(* failed delivery as package backoff documents: capture on the final      *)
(* delivery unless interrupted, then Policy.NakOrTerm.                     *)
(*                                                                         *)
(* Time is discrete.  A heartbeat's goroutine takes its tick, and the      *)
(* server acts on an expired lease, before the next unit of time; a        *)
(* handler takes as long as it likes, for ever included.                   *)
(***************************************************************************)
EXTENDS Heartbeat, Backoff

CONSTANTS NakDelays, Factors, MaxDelays, MaxDelivers, Terms,  \* fields of a Policy
          MaxServed  \* bound on the deliveries of an unlimited consumer

ASSUME ProcessAssumption ==
    /\ NakDelays \subseteq 1..MaxDuration /\ MaxDelays \subseteq 0..MaxDuration
    /\ Factors \subseteq Nat /\ MaxDelivers \subseteq 0..MaxServed
    /\ Terms \subseteq BOOLEAN /\ MaxServed \in Nat \ {0}

VARIABLES policy,        \* the handler's Policy; its MaxDeliver is the durable's
          undecodable,   \* whether decode fails on the payload
          \* the durable (external)
          numDelivered, pending, lease, gone,
          \* the DLQ
          captured,
          \* the delivery in hand, per worker
          pc, delivery, cancelled, ackd,
          \* history: consecutive extensions that did not land and age of the
          \* delivery, per worker; whether another delivery's Nak reached this one's
          \* lease; the delivery the message was given up on
          missed, age, disturbed, givenUpAt

durableVars == <<numDelivered, pending, lease, gone>>
workerVars == <<pc, delivery, cancelled, ackd>>
historyVars == <<missed, age, disturbed, givenUpAt>>
inputVars == <<policy, undecodable>>
vars == <<inputVars, durableVars, captured, workerVars, historyVars, heartbeatVars>>

Cap == IF policy.maxDeliver = 0 THEN MaxServed ELSE policy.maxDeliver
Runway == MaxTicks * Interval + AckWait
PC == {"idle", "handling", "capturing", "disposing", "disposed", "left", "stopping"}

TypeOK ==
    /\ HeartbeatTypeOK
    /\ policy \in Policy /\ undecodable \in BOOLEAN
    /\ numDelivered \in 0..MaxServed
    /\ pending \in BOOLEAN /\ lease \in 0..(AckWait + MaxDuration)
    /\ gone \in {"no", "acked", "undecodable", "given_up"}
    /\ captured \in BOOLEAN
    /\ pc \in [Workers -> PC]
    /\ delivery \in [Workers -> 0..MaxServed]
    /\ cancelled \subseteq Workers /\ ackd \subseteq Workers
    /\ missed \in [Workers -> 0..(MaxTicks + 1)]
    /\ age \in [Workers -> 0..Runway]
    /\ disturbed \in BOOLEAN /\ givenUpAt \in 0..MaxServed

Init ==
    /\ HeartbeatInit
    /\ policy \in [nakDelay : NakDelays, factor : Factors, maxDelay : MaxDelays,
                   maxDeliver : MaxDelivers, termOnExhaustion : Terms]
    /\ undecodable \in BOOLEAN
    /\ numDelivered = 0 /\ pending = FALSE /\ lease = 0 /\ gone = "no"
    /\ captured = FALSE
    /\ pc = [w \in Workers |-> "idle"]
    /\ delivery = [w \in Workers |-> 0]
    /\ cancelled = {} /\ ackd = {}
    /\ missed = [w \in Workers |-> 0]
    /\ age = [w \in Workers |-> 0]
    /\ disturbed = FALSE /\ givenUpAt = 0

-----------------------------------------------------------------------------
(* The durable *)

\* The server delivers the message: AckWait starts.
Serve ==
    /\ gone = "no" /\ ~pending
    /\ numDelivered < Cap
    /\ numDelivered' = numDelivered + 1
    /\ pending' = TRUE /\ lease' = AckWait
    /\ disturbed' = FALSE

\* The lease runs out; at the cap the message stays unacknowledged.
Expire ==
    /\ pending /\ lease = 0
    /\ pending' = FALSE
    /\ UNCHANGED <<inputVars, numDelivered, lease, gone, captured, workerVars, historyVars,
                   heartbeatVars>>

\* A request to remove the message lands, or is lost on the way.
Remove(how) ==
    /\ \/ /\ gone' = IF gone = "no" THEN how ELSE gone
          /\ pending' = FALSE /\ lease' = 0
       \/ UNCHANGED <<pending, lease, gone>>
    /\ UNCHANGED numDelivered

\* A Nak lands and restarts the timer, whichever delivery it is for, or is lost;
\* at the cap the server drops it.
NakLands(delay) ==
    /\ \/ pending /\ numDelivered < Cap /\ lease' = delay
       \/ UNCHANGED lease
    /\ UNCHANGED <<numDelivered, pending, gone>>

-----------------------------------------------------------------------------
(* Process *)

\* The payload does not decode: Term, and no handler runs.
DecodeFails(w) ==
    /\ pc[w] = "idle" /\ undecodable
    /\ gone = "no" /\ ~pending /\ numDelivered < Cap
    /\ numDelivered' = numDelivered + 1
    /\ disturbed' = FALSE
    /\ \/ gone' = "undecodable" /\ UNCHANGED <<pending, lease>>
       \/ pending' = TRUE /\ lease' = AckWait /\ UNCHANGED gone
    /\ UNCHANGED <<inputVars, captured, workerVars, missed, age, givenUpAt, heartbeatVars>>

\* The payload decodes: the heartbeat starts, then the handler.
HandlerStarts(w) ==
    /\ pc[w] = "idle" /\ ~undecodable
    /\ Serve
    /\ HeartbeatStarts(w)
    /\ pc' = [pc EXCEPT ![w] = "handling"]
    /\ delivery' = [delivery EXCEPT ![w] = numDelivered + 1]
    /\ missed' = [missed EXCEPT ![w] = 0]
    /\ age' = [age EXCEPT ![w] = 0]
    /\ UNCHANGED <<inputVars, gone, captured, cancelled, ackd, givenUpAt>>

\* The drain window elapses: the handler's context is cancelled.
Interrupt(w) ==
    /\ pc[w] \in {"handling", "capturing", "disposing"} /\ w \notin cancelled
    /\ cancelled' = cancelled \cup {w}
    /\ UNCHANGED <<inputVars, durableVars, captured, pc, delivery, ackd, historyVars,
                   heartbeatVars>>

\* History: the runway is counted while the handler works on the message.
ForgetRunway(w) ==
    /\ missed' = [missed EXCEPT ![w] = 0]
    /\ age' = [age EXCEPT ![w] = 0]

\* The handler is done with the message and acknowledges it.
HandlerAcks(w) ==
    /\ pc[w] = "handling"
    /\ Remove("acked")
    /\ pc' = [pc EXCEPT ![w] = "disposed"]
    /\ ForgetRunway(w)
    /\ UNCHANGED <<inputVars, captured, delivery, cancelled, ackd, disturbed, givenUpAt,
                   heartbeatVars>>

IsInterrupted(w) == w \in cancelled

\* The handler fails.  The documented gate: capture first on the final delivery,
\* unless the delivery was interrupted.
HandlerFails(w) ==
    /\ pc[w] = "handling"
    /\ pc' = [pc EXCEPT ![w] = IF ~IsInterrupted(w) /\ IsFinalDelivery(policy, delivery[w])
                               THEN "capturing" ELSE "disposing"]
    /\ ForgetRunway(w)
    /\ UNCHANGED <<inputVars, durableVars, captured, delivery, cancelled, ackd, disturbed,
                   givenUpAt, heartbeatVars>>

\* The capture is published, or fails and the delivery is left alone.
Capture(w) ==
    /\ pc[w] = "capturing"
    /\ \/ captured' = TRUE /\ pc' = [pc EXCEPT ![w] = "disposing"]
       \/ pc' = [pc EXCEPT ![w] = "left"] /\ UNCHANGED captured
    /\ UNCHANGED <<inputVars, durableVars, delivery, cancelled, ackd, historyVars, heartbeatVars>>

\* Mutant: an interrupted final delivery is Termed like a failed one.
NakOrTermUninterrupted(w) ==
    LET terms == policy.termOnExhaustion /\ IsFinalDelivery(policy, delivery[w])
    IN  /\ pc[w] = "disposing"
        /\ \/ /\ terms /\ Remove("given_up")
              /\ givenUpAt' = IF gone' = "given_up" /\ gone = "no" THEN delivery[w] ELSE givenUpAt
              /\ UNCHANGED disturbed
           \/ /\ ~terms /\ NakLands(DelayFor(policy, delivery[w]))
              /\ disturbed' = TRUE
              /\ UNCHANGED givenUpAt
        /\ pc' = [pc EXCEPT ![w] = "disposed"]
        /\ UNCHANGED <<inputVars, captured, delivery, cancelled, ackd, missed, age, heartbeatVars>>

\* NakOrTerm.  Neither request waits for the server.
NakOrTerm(w) ==
    LET terms == /\ ~IsInterrupted(w) /\ policy.termOnExhaustion
                 /\ IsFinalDelivery(policy, delivery[w])
    IN  /\ pc[w] = "disposing"
        /\ \/ /\ terms /\ Remove("given_up")
              /\ givenUpAt' = IF gone' = "given_up" /\ gone = "no" THEN delivery[w] ELSE givenUpAt
              /\ UNCHANGED disturbed
           \/ /\ ~terms /\ NakLands(DelayFor(policy, delivery[w]))
              /\ disturbed' = TRUE
              /\ UNCHANGED givenUpAt
        /\ pc' = [pc EXCEPT ![w] = "disposed"]
        /\ UNCHANGED <<inputVars, captured, delivery, cancelled, ackd, missed, age, heartbeatVars>>

\* The client marks the message disposed of once the request is written; handle
\* returns and the deferred stop runs.
HandlerReturns(w) ==
    /\ pc[w] \in {"disposed", "left"}
    /\ ackd' = IF pc[w] = "disposed" THEN ackd \cup {w} ELSE ackd
    /\ pc' = [pc EXCEPT ![w] = "stopping"]
    /\ StopHeartbeat(w)
    /\ UNCHANGED <<inputVars, durableVars, captured, delivery, cancelled, historyVars>>

\* stop returns, and Process.
ProcessReturns(w) ==
    /\ pc[w] = "stopping"
    /\ HeartbeatStopped(w)
    /\ pc' = [pc EXCEPT ![w] = "idle"]
    /\ delivery' = [delivery EXCEPT ![w] = 0]
    /\ cancelled' = cancelled \ {w} /\ ackd' = ackd \ {w}
    /\ UNCHANGED <<inputVars, durableVars, captured, historyVars>>

-----------------------------------------------------------------------------
(* The heartbeat *)

HeartbeatTakes(w) ==
    /\ TakeTick(w, w \in ackd)
    /\ UNCHANGED <<inputVars, durableVars, captured, workerVars, historyVars>>

HeartbeatSeesDone(w) ==
    /\ SeeDone(w)
    /\ UNCHANGED <<inputVars, durableVars, captured, workerVars, historyVars>>

\* InProgress lands: the timer of a pending delivery starts over.
InProgressLands(w) ==
    /\ CallReturns(w)
    /\ lease' = IF pending THEN AckWait ELSE lease
    /\ missed' = [missed EXCEPT ![w] = 0]
    /\ UNCHANGED <<inputVars, numDelivered, pending, gone, captured, workerVars, age, disturbed,
                   givenUpAt>>

\* Mutant: any failure ends the heartbeat.
InProgressGivesUp(w) ==
    /\ hb[w] = "calling"
    /\ hb' = [hb EXCEPT ![w] = "finished"]
    /\ missed' = [missed EXCEPT ![w] = @ + 1]
    /\ UNCHANGED <<ticks, tickIn, tickReady, done, inputVars, durableVars, captured, workerVars,
                   age, disturbed, givenUpAt>>

\* InProgress fails for now, or is lost on the way.
InProgressMisses(w) ==
    /\ CallReturns(w)
    /\ missed' = [missed EXCEPT ![w] = IF pc[w] = "handling" THEN @ + 1 ELSE @]
    /\ UNCHANGED <<inputVars, durableVars, captured, workerVars, age, disturbed, givenUpAt>>

HeartbeatStep(w) ==
    HeartbeatTakes(w) \/ HeartbeatSeesDone(w) \/ InProgressLands(w) \/ InProgressMisses(w)

\* Time passes.
Tick ==
    /\ HeartbeatAtRest
    /\ ~(pending /\ lease = 0)
    /\ TickersAdvance
    /\ lease' = IF pending THEN lease - 1 ELSE lease
    /\ age' = [w \in Workers |-> IF pc[w] = "handling" THEN Min({age[w] + 1, Runway}) ELSE 0]
    /\ UNCHANGED <<inputVars, numDelivered, pending, gone, captured, workerVars, missed,
                   disturbed, givenUpAt>>

Next ==
    \/ Tick \/ Expire
    \/ \E w \in Workers :
          \/ DecodeFails(w) \/ HandlerStarts(w) \/ Interrupt(w)
          \/ HandlerAcks(w) \/ HandlerFails(w) \/ Capture(w) \/ NakOrTerm(w)
          \/ HandlerReturns(w) \/ ProcessReturns(w)
          \/ HeartbeatStep(w)

\* Time and the server go on and goroutines run, the handler's too once it waits in
\* stop; nothing is assumed of the handlers, nor of which case select takes.
Fairness ==
    /\ WF_vars(Tick) /\ WF_vars(Expire)
    /\ \A w \in Workers : WF_vars(HeartbeatStep(w)) /\ WF_vars(ProcessReturns(w))

Spec == Init /\ [][Next]_vars /\ Fairness

-----------------------------------------------------------------------------
(* Properties *)

\* A running handler keeps its delivery: the server takes it back only after two
\* extensions in a row were missed, or the capped runway is over, or another
\* delivery's Nak moved the timer (the third of AckWait and the tick cap).
RunwayKept ==
    [][pending /\ ~pending' /\ gone' = "no" =>
         \A w \in Workers : pc[w] = "handling" /\ delivery[w] = numDelivered =>
             \/ missed[w] >= 2
             \/ age[w] >= Runway - missed[w] * Interval
             \/ disturbed]_vars

\* A message the policy gave up on was captured first and had used every delivery it
\* was allowed, wherever an interruption fell (NakOrTerm and the gate before it).
GivenUpIsCaptured ==
    gone = "given_up" => captured /\ policy.maxDeliver > 0 /\ givenUpAt = policy.maxDeliver

\* An envelope never asks for an earlier redelivery as the deliveries go on, however
\* far it grows, unless NakDelay is above its own cap (DelayFor saturates).
DelaysGrow ==
    \A i, j \in 0..MaxServed :
        i <= j /\ (policy.maxDelay = 0 \/ policy.nakDelay <= policy.maxDelay) =>
            DelayFor(policy, i) <= DelayFor(policy, j)

\* A wedged handler does not pin its message: the server gets the delivery back.
WedgedIsReleased ==
    \A w \in Workers :
        pc[w] = "handling" /\ delivery[w] = numDelivered ~>
            pc[w] # "handling" \/ ~pending \/ delivery[w] # numDelivered

\* The deferred stop, which waits for the heartbeat's goroutine, never keeps Process
\* from returning, whichever of tick and done the goroutine sees, in whatever order,
\* after the disposition or without one (KeepInProgress: finished is closed on every
\* way out).
StopEnds == \A w \in Workers : pc[w] = "stopping" ~> pc[w] = "idle"
=============================================================================

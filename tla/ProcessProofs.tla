--------------------------- MODULE ProcessProofs ---------------------------
(***************************************************************************)
(* What Process promises, for any number of workers and deliveries, any    *)
(* AckWait and any cap on the heartbeat.                                   *)
(***************************************************************************)
EXTENDS Process, WellFoundedInduction, TLAPS

\* The types of all but the lease, which a Nak sets to what the policy asks for.
Typed ==
    /\ HeartbeatTypeOK
    /\ policy \in Policy /\ policy.maxDeliver <= MaxServed
    /\ numDelivered \in 0..MaxServed /\ numDelivered <= Cap
    /\ pending \in BOOLEAN /\ captured \in BOOLEAN /\ disturbed \in BOOLEAN
    /\ pc \in [Workers -> PC]
    /\ delivery \in [Workers -> 0..MaxServed]
    /\ \A w \in Workers : delivery[w] <= numDelivered
    /\ missed \in [Workers -> Nat] /\ age \in [Workers -> 0..Runway]
    /\ givenUpAt \in 0..MaxServed

\* A final delivery that failed by itself is disposed of only after its capture.
FinalIsCaptured ==
    \A w \in Workers :
        pc[w] = "disposing" /\ ~IsInterrupted(w) /\ IsFinalDelivery(policy, delivery[w]) => captured

\* The time that k ticks of the heartbeat take.
Ticked(k) == k * Interval

\* A goroutine that beats is below the cap and has a running ticker.
Beats(w) == hb[w] \in {"select", "calling"} => ticks[w] <= MaxTicks /\ tickIn[w] \in 1..Interval

\* While a handler works, its heartbeat tells how old the delivery is: every tick was
\* taken on time, and the goroutine ends only past the cap.
OnTime(w) ==
    /\ pc[w] # "stopping" => w \notin ackd /\ w \notin done
    /\ pc[w] = "handling" =>
        /\ hb[w] = "off" => Interval = 0 /\ ticks[w] = 0 /\ missed[w] = 0
        /\ hb[w] = "select" =>
              /\ w \in tickReady => tickIn[w] = Interval
              /\ age[w] = Ticked(ticks[w]) + (Interval - tickIn[w])
                                           + (IF w \in tickReady THEN Interval ELSE 0)
        /\ hb[w] = "calling" =>
              /\ w \notin tickReady /\ tickIn[w] = Interval /\ ticks[w] > 0
              /\ age[w] = Ticked(ticks[w])
        /\ hb[w] = "finished" => ticks[w] = MaxTicks + 1 /\ age[w] >= Ticked(MaxTicks + 1)

\* Ticks whose extension was answered, one way or the other.
Answered(w) == IF hb[w] \in {"calling", "finished"} THEN ticks[w] - 1 ELSE ticks[w]

\* What is left of the lease of a delivery that no Nak has touched: the extensions
\* that landed pushed its end as far out as they came.
LeaseLasts(w) ==
    pc[w] = "handling" /\ pending /\ ~disturbed /\ delivery[w] = numDelivered =>
        \/ age[w] = Runway
        \/ lease + age[w] + Ticked(missed[w]) >= AckWait + Ticked(Answered(w))

RunwayInv ==
    /\ pending /\ ~disturbed => lease \in 0..AckWait
    /\ \A w \in Workers : Beats(w) /\ OnTime(w) /\ LeaseLasts(w)

Inv == Typed /\ FinalIsCaptured /\ GivenUpIsCaptured /\ RunwayInv

-----------------------------------------------------------------------------
(* The arithmetic of the runway *)

\* The interval is a third of AckWait, rounded down.
LEMMA IntervalFacts == Interval \in Nat /\ 3 * Interval <= AckWait /\ AckWait \in Nat \ {0}
BY HeartbeatAssumption DEF Interval

\* Ticked is linear and monotonic.
LEMMA TickedFacts ==
    /\ Ticked(0) = 0
    /\ \A k \in Nat : Ticked(k) \in Nat /\ Ticked(k + 1) = Ticked(k) + Interval
    /\ \A j, k \in Nat : j <= k => Ticked(j) <= Ticked(k)
<1>1. \A k \in Nat : Ticked(k) \in Nat /\ Ticked(k + 1) = Ticked(k) + Interval
    BY IntervalFacts DEF Ticked
<1>2. Ticked(0) = 0
    BY IntervalFacts DEF Ticked
<1>3. ASSUME NEW j \in Nat, NEW k \in Nat, j <= k PROVE Ticked(j) <= Ticked(k)
    <2>1. k - j \in Nat /\ k * Interval = j * Interval + (k - j) * Interval
        BY <1>3, IntervalFacts
    <2>2. (k - j) * Interval >= 0 /\ j * Interval \in Nat /\ (k - j) * Interval \in Nat
        BY <2>1, IntervalFacts
    <2> QED
        BY <2>1, <2>2 DEF Ticked
<1> QED
    BY <1>1, <1>2, <1>3

\* The runway is what the capped ticks take and one AckWait.
LEMMA RunwayFacts ==
    /\ MaxTicks \in Nat /\ Runway \in Nat /\ Runway = Ticked(MaxTicks) + AckWait
    /\ Ticked(MaxTicks + 1) <= Runway
<1>1. MaxTicks \in Nat /\ Runway = Ticked(MaxTicks) + AckWait
    BY HeartbeatAssumption DEF Runway, Ticked
<1>2. Ticked(MaxTicks) \in Nat /\ Ticked(MaxTicks + 1) = Ticked(MaxTicks) + Interval
    BY <1>1, TickedFacts
<1>3. Interval <= AckWait
    BY IntervalFacts
<1> QED
    BY <1>1, <1>2, <1>3, IntervalFacts

\* The smaller of two numbers.
LEMMA MinPair == \A a, b \in Int : Min({a, b}) = IF a <= b THEN a ELSE b
BY DEF Min

-----------------------------------------------------------------------------
(* Types *)

\* What a step does to the heartbeats.
LEMMA NextHeartbeat ==
    ASSUME [Next]_vars
    PROVE  \/ UNCHANGED heartbeatVars \/ TickersAdvance
           \/ \E w \in Workers :
                 \/ HeartbeatStarts(w) \/ TakeTick(w, w \in ackd) \/ CallReturns(w) \/ SeeDone(w)
                 \/ StopHeartbeat(w) \/ HeartbeatStopped(w)
BY DEF Next, vars, Tick, Expire, DecodeFails, HandlerStarts, Interrupt, HandlerAcks, HandlerFails,
       Capture, NakOrTerm, HandlerReturns, ProcessReturns, HeartbeatStep, HeartbeatTakes,
       HeartbeatSeesDone, InProgressLands, InProgressMisses

\* KeepInProgress keeps its types, and a goroutine that beats stays below the cap.
LEMMA HeartbeatTypeStep ==
    ASSUME HeartbeatTypeOK, \A w \in Workers : Beats(w), [Next]_vars
    PROVE  HeartbeatTypeOK' /\ \A w \in Workers : Beats(w)'
<1> USE IntervalFacts, HeartbeatAssumption DEF HeartbeatTypeOK, HeartbeatState, Beats
<1>i. Interval' = Interval
    BY DEF Interval
<1>1. CASE UNCHANGED heartbeatVars
    BY <1>1, <1>i DEF heartbeatVars
<1>2. CASE TickersAdvance
    BY <1>2, <1>i DEF TickersAdvance, Beating
<1>3. ASSUME NEW w \in Workers, HeartbeatStarts(w)
      PROVE  HeartbeatTypeOK' /\ \A v \in Workers : Beats(v)'
    BY <1>3, <1>i DEF HeartbeatStarts
<1>4. ASSUME NEW w \in Workers, TakeTick(w, w \in ackd)
      PROVE  HeartbeatTypeOK' /\ \A v \in Workers : Beats(v)'
    BY <1>4, <1>i DEF TakeTick
<1>5. ASSUME NEW w \in Workers, CallReturns(w) \/ SeeDone(w) \/ StopHeartbeat(w) \/ HeartbeatStopped(w)
      PROVE  HeartbeatTypeOK' /\ \A v \in Workers : Beats(v)'
    BY <1>5, <1>i DEF CallReturns, SeeDone, StopHeartbeat, HeartbeatStopped
<1> QED
    BY <1>1, <1>2, <1>3, <1>4, <1>5, NextHeartbeat, Zenon

\* Every step keeps the types; a delivery that is served stays within the cap.
LEMMA TypedStep ==
    ASSUME Typed, \A w \in Workers : Beats(w), [Next]_vars
    PROVE  Typed'
<1> USE ProcessAssumption, RunwayFacts
<1>r. Runway' = Runway
    BY DEF Runway, Interval
<1>p. policy' = policy
    BY DEF Next, vars, inputVars, Tick, Expire, DecodeFails, HandlerStarts, Interrupt, HandlerAcks,
           HandlerFails, Capture, NakOrTerm, HandlerReturns, ProcessReturns, HeartbeatStep,
           HeartbeatTakes, HeartbeatSeesDone, InProgressLands, InProgressMisses
<1>c. Cap' = Cap /\ Cap \in Nat /\ Cap <= MaxServed
    BY <1>p DEF Cap, Typed, Policy
<1>h. HeartbeatTypeOK'
    BY HeartbeatTypeStep DEF Typed
<1> USE DEF Typed, PC
<1>1. CASE UNCHANGED vars
    BY <1>1, <1>r, <1>h, <1>p, <1>c DEF vars, inputVars, durableVars, workerVars, historyVars
<1>2. CASE Tick
    <2>1. \A w \in Workers : Min({age[w] + 1, Runway}) \in 0..Runway
        BY MinPair
    <2>2. age' \in [Workers -> 0..Runway]
        BY <1>2, <2>1 DEF Tick
    <2> QED
        BY <1>2, <2>2, <1>r, <1>h, <1>p, <1>c DEF Tick, workerVars
<1>3. CASE Expire
    BY <1>3, <1>r, <1>h, <1>p, <1>c DEF Expire, workerVars, historyVars
<1>4. ASSUME NEW w \in Workers, DecodeFails(w) PROVE Typed'
    <2>1. numDelivered' = numDelivered + 1 /\ numDelivered < Cap /\ pending' \in BOOLEAN
        BY <1>4 DEF DecodeFails
    <2>2. numDelivered' \in 0..MaxServed /\ numDelivered' <= Cap
          /\ \A v \in Workers : delivery[v] <= numDelivered'
        BY <2>1, <1>c
    <2> QED
        BY <1>4, <2>1, <2>2, <1>r, <1>h, <1>p, <1>c DEF DecodeFails, workerVars
<1>5. ASSUME NEW w \in Workers, HandlerStarts(w) PROVE Typed'
    <2>1. numDelivered' = numDelivered + 1 /\ numDelivered < Cap /\ pending' \in BOOLEAN
        BY <1>5 DEF HandlerStarts, Serve
    <2>2. numDelivered' \in 0..MaxServed /\ numDelivered' <= Cap
        BY <2>1, <1>c
    <2>3. /\ delivery' \in [Workers -> 0..MaxServed]
          /\ \A v \in Workers : delivery'[v] <= numDelivered'
        BY <1>5, <2>1, <2>2 DEF HandlerStarts
    <2>4. pc' \in [Workers -> PC] /\ missed' \in [Workers -> Nat] /\ age' \in [Workers -> 0..Runway]
        BY <1>5 DEF HandlerStarts
    <2> QED
        BY <1>5, <2>1, <2>2, <2>3, <2>4, <1>r, <1>h, <1>p, <1>c DEF HandlerStarts, Serve
<1>6. ASSUME NEW w \in Workers, Interrupt(w) PROVE Typed'
    BY <1>6, <1>r, <1>h, <1>p, <1>c DEF Interrupt, durableVars, historyVars
<1>7. ASSUME NEW w \in Workers, HandlerAcks(w) PROVE Typed'
    <2>1. pc' \in [Workers -> PC] /\ missed' \in [Workers -> Nat] /\ age' \in [Workers -> 0..Runway]
        BY <1>7 DEF HandlerAcks, ForgetRunway
    <2>2. pending' \in BOOLEAN /\ numDelivered' = numDelivered
        BY <1>7 DEF HandlerAcks, Remove
    <2> QED
        BY <1>7, <2>1, <2>2, <1>r, <1>h, <1>p, <1>c DEF HandlerAcks
<1>8. ASSUME NEW w \in Workers, HandlerFails(w) PROVE Typed'
    BY <1>8, <1>r, <1>h, <1>p, <1>c DEF HandlerFails, durableVars, ForgetRunway
<1>9. ASSUME NEW w \in Workers, Capture(w) PROVE Typed'
    BY <1>9, <1>r, <1>h, <1>p, <1>c DEF Capture, durableVars, historyVars
<1>10. ASSUME NEW w \in Workers, NakOrTerm(w) PROVE Typed'
    <2>1. /\ pending' \in BOOLEAN /\ disturbed' \in BOOLEAN /\ givenUpAt' \in 0..MaxServed
          /\ numDelivered' = numDelivered
        BY <1>10 DEF NakOrTerm, Remove, NakLands
    <2> QED
        BY <1>10, <2>1, <1>r, <1>h, <1>p, <1>c DEF NakOrTerm
<1>11. ASSUME NEW w \in Workers, HandlerReturns(w) PROVE Typed'
    BY <1>11, <1>r, <1>h, <1>p, <1>c DEF HandlerReturns, durableVars, historyVars
<1>12. ASSUME NEW w \in Workers, ProcessReturns(w) PROVE Typed'
    BY <1>12, <1>r, <1>h, <1>p, <1>c DEF ProcessReturns, durableVars, historyVars
<1>13. ASSUME NEW w \in Workers, HeartbeatTakes(w) \/ HeartbeatSeesDone(w) PROVE Typed'
    BY <1>13, <1>r, <1>h, <1>p, <1>c DEF HeartbeatTakes, HeartbeatSeesDone, durableVars, workerVars,
                                         historyVars
<1>14. ASSUME NEW w \in Workers, InProgressLands(w) \/ InProgressMisses(w) PROVE Typed'
    BY <1>14, <1>r, <1>h, <1>p, <1>c DEF InProgressLands, InProgressMisses, durableVars, workerVars
<1> QED
    BY <1>1, <1>2, <1>3, <1>4, <1>5, <1>6, <1>7, <1>8, <1>9, <1>10, <1>11, <1>12, <1>13, <1>14
    DEF Next, HeartbeatStep

-----------------------------------------------------------------------------
(* Nothing is given up without a capture *)

\* The gate before NakOrTerm and NakOrTerm itself agree on which delivery is final,
\* wherever the interruption falls between them.
LEMMA CapturedStep ==
    ASSUME Typed, FinalIsCaptured, GivenUpIsCaptured, [Next]_vars
    PROVE  FinalIsCaptured' /\ GivenUpIsCaptured'
<1> USE DEF Typed, FinalIsCaptured, GivenUpIsCaptured, IsInterrupted, IsFinalDelivery
<1>1. ASSUME UNCHANGED <<policy, captured, pc, delivery, cancelled, givenUpAt>>,
             gone' = gone \/ gone' # "given_up"
      PROVE  FinalIsCaptured' /\ GivenUpIsCaptured'
    BY <1>1
<1>2. CASE Tick \/ Expire \/ UNCHANGED vars
    BY <1>1, <1>2 DEF Tick, Expire, vars, inputVars, durableVars, workerVars, historyVars
<1>3. ASSUME NEW w \in Workers, DecodeFails(w) \/ HeartbeatStep(w)
      PROVE  FinalIsCaptured' /\ GivenUpIsCaptured'
    BY <1>1, <1>3 DEF DecodeFails, HeartbeatStep, HeartbeatTakes, HeartbeatSeesDone, InProgressLands,
                      InProgressMisses, inputVars, durableVars, workerVars, historyVars
<1>4. ASSUME NEW w \in Workers,
             HandlerStarts(w) \/ Interrupt(w) \/ HandlerReturns(w) \/ ProcessReturns(w)
      PROVE  FinalIsCaptured' /\ GivenUpIsCaptured'
    BY <1>4 DEF HandlerStarts, Interrupt, HandlerReturns, ProcessReturns, inputVars, durableVars,
                historyVars
<1>5. ASSUME NEW w \in Workers, HandlerAcks(w)
      PROVE  FinalIsCaptured' /\ GivenUpIsCaptured'
    BY <1>5 DEF HandlerAcks, Remove, inputVars
<1>6. ASSUME NEW w \in Workers, HandlerFails(w) \/ Capture(w)
      PROVE  FinalIsCaptured' /\ GivenUpIsCaptured'
    BY <1>6 DEF HandlerFails, Capture, inputVars, durableVars, historyVars
<1>7. ASSUME NEW w \in Workers, NakOrTerm(w)
      PROVE  FinalIsCaptured' /\ GivenUpIsCaptured'
    <2>1. FinalIsCaptured'
        BY <1>7 DEF NakOrTerm, inputVars
    <2>2. CASE gone' # "given_up" \/ gone = "given_up"
        BY <1>7, <2>2 DEF NakOrTerm, Remove, NakLands, inputVars
    <2>3. CASE gone' = "given_up" /\ gone # "given_up"
        <3>1. /\ ~IsInterrupted(w) /\ policy.maxDeliver > 0 /\ delivery[w] >= policy.maxDeliver
              /\ pc[w] = "disposing" /\ gone = "no" /\ givenUpAt' = delivery[w]
              /\ UNCHANGED <<policy, captured>>
            BY <1>7, <2>3 DEF NakOrTerm, Remove, NakLands, inputVars
        <3>2. captured
            BY <3>1
        <3>3. delivery[w] <= policy.maxDeliver
            BY <3>1 DEF Cap, Policy
        <3> QED
            BY <3>1, <3>2, <3>3 DEF Policy
    <2> QED
        BY <2>1, <2>2, <2>3
<1> QED
    BY <1>2, <1>3, <1>4, <1>5, <1>6, <1>7 DEF Next

-----------------------------------------------------------------------------
(* The runway *)

\* The steps of the other workers leave a worker's own state alone.
LEMMA OthersStep ==
    ASSUME NEW w \in Workers, NEW u \in Workers, u # w, Typed,
           \/ DecodeFails(u) \/ HandlerStarts(u) \/ Interrupt(u) \/ HandlerAcks(u) \/ HandlerFails(u)
           \/ Capture(u) \/ NakOrTerm(u) \/ HandlerReturns(u) \/ ProcessReturns(u) \/ HeartbeatStep(u)
    PROVE  /\ pc'[w] = pc[w] /\ hb'[w] = hb[w] /\ ticks'[w] = ticks[w] /\ tickIn'[w] = tickIn[w]
           /\ missed'[w] = missed[w] /\ age'[w] = age[w] /\ delivery'[w] = delivery[w]
           /\ (w \in ackd' <=> w \in ackd) /\ (w \in done' <=> w \in done)
           /\ (w \in tickReady' <=> w \in tickReady)
<1> USE DEF Typed, HeartbeatTypeOK, workerVars, heartbeatVars, historyVars
<1>1. CASE DecodeFails(u) \/ Interrupt(u) \/ Capture(u) \/ NakOrTerm(u)
    BY <1>1 DEF DecodeFails, Interrupt, Capture, NakOrTerm
<1>2. CASE HandlerAcks(u) \/ HandlerFails(u)
    BY <1>2 DEF HandlerAcks, HandlerFails, ForgetRunway
<1>3. CASE HandlerStarts(u)
    BY <1>3 DEF HandlerStarts, HeartbeatStarts
<1>4. CASE HandlerReturns(u)
    BY <1>4 DEF HandlerReturns, StopHeartbeat
<1>5. CASE ProcessReturns(u)
    BY <1>5 DEF ProcessReturns, HeartbeatStopped
<1>6. CASE HeartbeatStep(u)
    BY <1>6 DEF HeartbeatStep, HeartbeatTakes, HeartbeatSeesDone, InProgressLands, InProgressMisses,
                TakeTick, SeeDone, CallReturns
<1> QED
    BY <1>1, <1>2, <1>3, <1>4, <1>5, <1>6

\* The ticks are taken when they are due: time waits for a heartbeat that has one.
LEMMA OnTimeStep ==
    ASSUME Typed, NEW w \in Workers, Beats(w), OnTime(w), [Next]_vars
    PROVE  OnTime(w)'
<1> USE IntervalFacts, RunwayFacts
<1>a. /\ pc \in [Workers -> PC] /\ hb \in [Workers -> HeartbeatState]
      /\ ticks \in [Workers -> 0..(MaxTicks + 1)] /\ tickIn \in [Workers -> 0..Interval]
      /\ missed \in [Workers -> Nat] /\ age \in [Workers -> 0..Runway]
    BY DEF Typed, HeartbeatTypeOK
<1>b. \A k \in Nat : Ticked(k) \in Nat /\ Ticked(k + 1) = Ticked(k) + Interval
    BY TickedFacts
<1>1. CASE UNCHANGED <<pc, ackd, done, hb, ticks, tickIn, tickReady, missed, age>>
    BY <1>1 DEF OnTime
<1>2. CASE Expire \/ UNCHANGED vars
    BY <1>1, <1>2 DEF Expire, vars, workerVars, historyVars, heartbeatVars
<1>3. CASE Tick
    <2>1. UNCHANGED <<pc, ackd, done, hb, ticks, missed>>
        BY <1>3 DEF Tick, TickersAdvance, workerVars
    <2>2. CASE pc[w] # "handling"
        BY <2>1, <2>2 DEF OnTime
    <2>3. CASE pc[w] = "handling"
        <3>1. age'[w] = Min({age[w] + 1, Runway})
            BY <1>3, <2>3 DEF Tick
        <3>2. age'[w] = IF age[w] + 1 <= Runway THEN age[w] + 1 ELSE Runway
            BY <3>1, <1>a, MinPair
        <3>3. CASE hb[w] = "off"
            BY <2>1, <2>3, <3>3 DEF OnTime
        <3>4. CASE hb[w] = "finished"
            <4>1. age'[w] >= Ticked(MaxTicks + 1)
                BY <2>3, <3>2, <3>4, <1>a, <1>b DEF OnTime
            <4> QED
                BY <2>1, <2>3, <3>4, <4>1 DEF OnTime
        <3>5. CASE hb[w] \in {"select", "calling"}
            <4>1. w \in Beating /\ hb[w] = "select" /\ w \notin tickReady
                BY <1>3, <3>5 DEF Tick, HeartbeatAtRest, Beating
            <4>2. tickIn[w] \in 1..Interval /\ ticks[w] <= MaxTicks /\ ticks[w] \in Nat
                BY <4>1, <1>a DEF Beats
            <4>3. age[w] = Ticked(ticks[w]) + (Interval - tickIn[w])
                BY <2>3, <4>1, <1>a, <1>b, <4>2 DEF OnTime
            <4>4. Ticked(ticks[w]) <= Ticked(MaxTicks) /\ Ticked(MaxTicks + 1) = Ticked(MaxTicks) + Interval
                BY <4>2, TickedFacts
            <4>5. age'[w] = age[w] + 1
                BY <3>2, <4>2, <4>3, <4>4, <1>a, <1>b
            <4>6. CASE tickIn[w] = 1
                <5>1. tickIn'[w] = Interval /\ w \in tickReady'
                    BY <1>3, <4>1, <4>6 DEF Tick, TickersAdvance
                <5>2. age'[w] = Ticked(ticks[w]) + (Interval - tickIn'[w]) + Interval
                    BY <4>2, <4>3, <4>5, <4>6, <5>1, <1>a, <1>b
                <5> QED
                    BY <2>1, <2>3, <4>1, <5>1, <5>2 DEF OnTime
            <4>7. CASE tickIn[w] # 1
                <5>1. tickIn'[w] = tickIn[w] - 1 /\ w \notin tickReady'
                    BY <1>3, <4>1, <4>7 DEF Tick, TickersAdvance
                <5>2. age'[w] = Ticked(ticks[w]) + (Interval - tickIn'[w]) + 0
                    BY <4>2, <4>3, <4>5, <5>1, <1>a, <1>b
                <5> QED
                    BY <2>1, <2>3, <4>1, <5>1, <5>2 DEF OnTime
            <4> QED
                BY <4>6, <4>7
        <3> QED
            BY <3>3, <3>4, <3>5, <1>a DEF HeartbeatState
    <2> QED
        BY <2>2, <2>3
<1>4. ASSUME NEW u \in Workers, u # w,
             \/ DecodeFails(u) \/ HandlerStarts(u) \/ Interrupt(u) \/ HandlerAcks(u) \/ HandlerFails(u)
             \/ Capture(u) \/ NakOrTerm(u) \/ HandlerReturns(u) \/ ProcessReturns(u) \/ HeartbeatStep(u)
      PROVE  OnTime(w)'
    BY <1>4, OthersStep DEF OnTime
<1>5. CASE DecodeFails(w) \/ Interrupt(w)
    BY <1>1, <1>5 DEF DecodeFails, Interrupt, workerVars, historyVars, heartbeatVars
<1>6. CASE HandlerStarts(w)
    <2>1. Ticked(0) = 0
        BY TickedFacts
    <2>2. /\ pc'[w] = "handling" /\ ticks'[w] = 0 /\ tickIn'[w] = Interval /\ w \notin tickReady'
          /\ missed'[w] = 0 /\ age'[w] = 0 /\ hb'[w] = IF Interval > 0 THEN "select" ELSE "off"
          /\ w \notin ackd' /\ w \notin done'
        BY <1>6, <1>a DEF HandlerStarts, HeartbeatStarts, OnTime
    <2> QED
        BY <2>1, <2>2 DEF OnTime
<1>7. CASE HandlerAcks(w) \/ HandlerFails(w) \/ Capture(w) \/ NakOrTerm(w) \/ HandlerReturns(w)
           \/ ProcessReturns(w)
    <2>1. pc'[w] # "handling"
        BY <1>7, <1>a DEF HandlerAcks, HandlerFails, Capture, NakOrTerm, HandlerReturns, ProcessReturns
    <2>2. pc'[w] # "stopping" => w \notin ackd' /\ w \notin done'
        BY <1>7, <1>a DEF HandlerAcks, HandlerFails, Capture, NakOrTerm, HandlerReturns,
                          ProcessReturns, HeartbeatStopped, OnTime, heartbeatVars
    <2> QED
        BY <2>1, <2>2 DEF OnTime
<1>8. CASE HeartbeatStep(w)
    <2>1. UNCHANGED <<pc, ackd, done, age>>
        BY <1>8 DEF HeartbeatStep, HeartbeatTakes, HeartbeatSeesDone, InProgressLands,
                    InProgressMisses, TakeTick, SeeDone, CallReturns, workerVars, historyVars
    <2>2. CASE pc[w] # "handling"
        BY <2>1, <2>2 DEF OnTime
    <2>3. CASE pc[w] = "handling" /\ HeartbeatTakes(w)
        <3>1. /\ hb[w] = "select" /\ w \in tickReady /\ w \notin ackd /\ w \notin tickReady'
              /\ ticks'[w] = ticks[w] + 1 /\ tickIn' = tickIn
              /\ hb'[w] = IF ticks[w] + 1 > MaxTicks THEN "finished" ELSE "calling"
            BY <2>3, <1>a DEF HeartbeatTakes, TakeTick, OnTime
        <3>2. ticks[w] <= MaxTicks /\ ticks[w] \in Nat /\ tickIn[w] = Interval
            BY <2>3, <3>1, <1>a DEF Beats, OnTime
        <3>3. age[w] = Ticked(ticks[w]) + (Interval - Interval) + Interval
            BY <2>3, <3>1, <3>2 DEF OnTime
        <3>4. age[w] = Ticked(ticks[w] + 1)
            BY <3>2, <3>3, <1>b
        <3>5. ticks[w] + 1 > MaxTicks => ticks[w] = MaxTicks
            BY <3>2
        <3> QED
            BY <2>1, <2>3, <3>1, <3>2, <3>4, <3>5, <1>a, <1>b DEF OnTime
    <2>4. CASE pc[w] = "handling" /\ (InProgressLands(w) \/ InProgressMisses(w))
        <3>1. hb[w] = "calling" /\ hb'[w] = "select" /\ UNCHANGED <<ticks, tickIn, tickReady>>
            BY <2>4, <1>a DEF InProgressLands, InProgressMisses, CallReturns
        <3>2. ticks[w] \in Nat /\ Ticked(ticks[w]) \in Nat
            BY <1>a, <1>b
        <3>3. age[w] = Ticked(ticks[w]) + (Interval - Interval) + 0
            BY <2>4, <3>1, <3>2 DEF OnTime
        <3> QED
            BY <2>1, <2>4, <3>1, <3>3 DEF OnTime
    <2>5. CASE pc[w] = "handling" /\ HeartbeatSeesDone(w)
        BY <2>5 DEF HeartbeatSeesDone, SeeDone, OnTime
    <2> QED
        BY <1>8, <2>2, <2>3, <2>4, <2>5 DEF HeartbeatStep
<1> QED
    BY <1>2, <1>3, <1>4, <1>5, <1>6, <1>7, <1>8 DEF Next

\* A lease that no Nak has touched never exceeds AckWait.
LEMMA LeaseTypeStep ==
    ASSUME Typed, pending /\ ~disturbed => lease \in 0..AckWait, [Next]_vars
    PROVE  (pending /\ ~disturbed => lease \in 0..AckWait)'
<1>b. pending \in BOOLEAN /\ disturbed \in BOOLEAN
    BY DEF Typed
<1>a. AckWait \in Nat
    BY IntervalFacts
<1> USE <1>a, <1>b DEF durableVars, historyVars
<1>1. CASE Tick
    <2>1. UNCHANGED <<pending, disturbed>> /\ ~(pending /\ lease = 0)
          /\ (pending => lease' = lease - 1)
        BY <1>1 DEF Tick
    <2> QED
        BY <2>1
<1>2. CASE Expire \/ UNCHANGED vars
    BY <1>2 DEF Expire, vars
<1>3. ASSUME NEW w \in Workers, DecodeFails(w) \/ HandlerStarts(w)
      PROVE  (pending /\ ~disturbed => lease \in 0..AckWait)'
    <2>1. CASE lease' = AckWait
        BY <2>1
    <2>2. CASE lease' # AckWait
        BY <1>3, <2>2 DEF DecodeFails, HandlerStarts, Serve
    <2> QED
        BY <2>1, <2>2
<1>4. ASSUME NEW w \in Workers, Interrupt(w) \/ HandlerAcks(w) \/ HandlerFails(w) \/ Capture(w)
      PROVE  (pending /\ ~disturbed => lease \in 0..AckWait)'
    BY <1>4 DEF Interrupt, HandlerAcks, HandlerFails, Capture, Remove
<1>5. ASSUME NEW w \in Workers, NakOrTerm(w)
      PROVE  (pending /\ ~disturbed => lease \in 0..AckWait)'
    BY <1>5 DEF NakOrTerm, Remove
<1>6. ASSUME NEW w \in Workers, HandlerReturns(w) \/ ProcessReturns(w) \/ HeartbeatStep(w)
      PROVE  (pending /\ ~disturbed => lease \in 0..AckWait)'
    <2>1. UNCHANGED <<pending, disturbed>> /\ lease' \in {lease, AckWait}
        BY <1>6 DEF HandlerReturns, ProcessReturns, HeartbeatStep, HeartbeatTakes, HeartbeatSeesDone,
                    InProgressLands, InProgressMisses
    <2> QED
        BY <2>1
<1> QED
    BY <1>1, <1>2, <1>3, <1>4, <1>5, <1>6 DEF Next

\* The age of a delivery covers the ticks that were answered.
LEMMA AnsweredFacts ==
    ASSUME Typed, NEW w \in Workers, Beats(w), OnTime(w), pc[w] = "handling"
    PROVE  /\ Answered(w) \in Nat /\ Answered(w) <= MaxTicks
           /\ Ticked(Answered(w)) \in Nat /\ age[w] >= Ticked(Answered(w))
           /\ missed[w] \in Nat /\ Ticked(missed[w]) \in Nat /\ age[w] \in Nat
<1> USE IntervalFacts, RunwayFacts
<1>1. /\ hb[w] \in HeartbeatState /\ ticks[w] \in Nat /\ tickIn[w] \in 0..Interval
      /\ missed[w] \in Nat /\ age[w] \in Nat
    BY DEF Typed, HeartbeatTypeOK
<1>2. \A k \in Nat : Ticked(k) \in Nat /\ Ticked(k + 1) = Ticked(k) + Interval
    BY TickedFacts
<1>3. CASE hb[w] \in {"off", "select"}
    <2>1. Answered(w) = ticks[w]
        BY <1>3 DEF Answered
    <2>3. ticks[w] <= MaxTicks
        BY <1>3, <1>1 DEF Beats, OnTime
    <2>2. age[w] >= Ticked(ticks[w])
        <3>1. CASE hb[w] = "off"
            <4>1. ticks[w] = 0
                BY <3>1 DEF OnTime
            <4>2. Ticked(0) = 0
                BY TickedFacts
            <4> QED
                BY <4>1, <4>2, <1>1
        <3>2. CASE hb[w] = "select"
            <4>1. age[w] = Ticked(ticks[w]) + (Interval - tickIn[w])
                           + (IF w \in tickReady THEN Interval ELSE 0)
                BY <3>2 DEF OnTime
            <4>2. Ticked(ticks[w]) \in Nat
                BY <1>1, <1>2
            <4> QED
                BY <4>1, <4>2, <1>1
        <3> QED
            BY <1>3, <3>1, <3>2
    <2> QED
        BY <2>1, <2>2, <2>3, <1>1, <1>2
<1>4. CASE hb[w] \in {"calling", "finished"}
    <2>0. Answered(w) = ticks[w] - 1
        BY <1>4 DEF Answered
    <2>1. Answered(w) = ticks[w] - 1 /\ ticks[w] - 1 \in Nat /\ ticks[w] - 1 <= MaxTicks
        BY <1>4, <1>1, <2>0 DEF Beats, OnTime
    <2>2. Ticked(ticks[w] - 1) \in Nat /\ Ticked((ticks[w] - 1) + 1) = Ticked(ticks[w] - 1) + Interval
        BY <2>1, <1>2
    <2>3. age[w] >= Ticked(ticks[w])
        BY <1>4, <1>1, <1>2 DEF OnTime
    <2>4. (ticks[w] - 1) + 1 = ticks[w]
        BY <1>1
    <2> QED
        BY <2>1, <2>2, <2>3, <2>4, <1>1, <1>2
<1> QED
    BY <1>1, <1>3, <1>4 DEF HeartbeatState

\* An extension that lands gives a full AckWait from now; one that does not is paid for
\* by the missed count; everything else lets time and lease run together.
LEMMA LeaseStep ==
    ASSUME Typed, RunwayInv, NEW w \in Workers, [Next]_vars
    PROVE  LeaseLasts(w)'
<1> USE IntervalFacts, RunwayFacts
<1>a. Beats(w) /\ OnTime(w) /\ LeaseLasts(w) /\ (pending /\ ~disturbed => lease \in 0..AckWait)
    BY DEF RunwayInv
<1>r. Runway' = Runway
    BY DEF Runway, Interval
<1>t. /\ pc \in [Workers -> PC] /\ hb \in [Workers -> HeartbeatState]
      /\ ticks \in [Workers -> 0..(MaxTicks + 1)] /\ age \in [Workers -> 0..Runway]
      /\ missed \in [Workers -> Nat] /\ delivery \in [Workers -> 0..MaxServed]
      /\ numDelivered \in 0..MaxServed /\ delivery[w] <= numDelivered
    BY DEF Typed, HeartbeatTypeOK
<1> DEFINE Own == /\ pc'[w] = pc[w] /\ hb'[w] = hb[w] /\ ticks'[w] = ticks[w]
                  /\ missed'[w] = missed[w] /\ age'[w] = age[w] /\ delivery'[w] = delivery[w]
<1>1. ASSUME Own, numDelivered' = numDelivered, pending' => pending, ~disturbed' => ~disturbed,
             pending' => lease' = lease \/ disturbed' \/ (lease' = AckWait)
      PROVE  LeaseLasts(w)'
    <2>1. SUFFICES ASSUME pc[w] = "handling", pending', pending, ~disturbed', ~disturbed,
                          delivery[w] = numDelivered, age[w] # Runway
                   PROVE  lease' + age[w] + Ticked(missed[w]) >= AckWait + Ticked(Answered(w))
        BY <1>1, <1>r DEF LeaseLasts, Answered
    <2>2. lease + age[w] + Ticked(missed[w]) >= AckWait + Ticked(Answered(w))
        BY <2>1, <1>a DEF LeaseLasts
    <2>3. age[w] >= Ticked(Answered(w)) /\ Ticked(Answered(w)) \in Nat /\ Ticked(missed[w]) \in Nat
          /\ age[w] \in Nat
        BY <1>a, <2>1, AnsweredFacts
    <2> QED
        BY <1>1, <2>1, <2>2, <2>3
<1>2. ASSUME pc'[w] # "handling" PROVE LeaseLasts(w)'
    BY <1>2 DEF LeaseLasts
<1>3. CASE Expire \/ UNCHANGED vars
    BY <1>1, <1>3 DEF Expire, vars, durableVars, workerVars, historyVars, heartbeatVars
<1>4. CASE Tick
    <2>0. /\ UNCHANGED <<pc, hb, ticks, missed, delivery, numDelivered, pending, disturbed>>
          /\ pending => lease' = lease - 1
        BY <1>4 DEF Tick, TickersAdvance, workerVars
    <2>1. SUFFICES ASSUME pc[w] = "handling", pending, ~disturbed, delivery[w] = numDelivered,
                          age'[w] # Runway
                   PROVE  lease' + age'[w] + Ticked(missed[w]) >= AckWait + Ticked(Answered(w))
        BY <2>0, <1>r DEF LeaseLasts, Answered
    <2>2. age'[w] = IF age[w] + 1 <= Runway THEN age[w] + 1 ELSE Runway
        BY <1>4, <2>1, <1>t, MinPair DEF Tick
    <2>3. age[w] # Runway /\ age'[w] = age[w] + 1
        BY <2>1, <2>2, <1>t
    <2>4. lease + age[w] + Ticked(missed[w]) >= AckWait + Ticked(Answered(w))
        BY <2>1, <2>3, <1>a DEF LeaseLasts
    <2>5. lease \in Nat /\ Ticked(Answered(w)) \in Nat /\ Ticked(missed[w]) \in Nat /\ age[w] \in Nat
        BY <1>a, <2>1, AnsweredFacts
    <2> QED
        BY <2>0, <2>1, <2>3, <2>4, <2>5
<1>5. ASSUME NEW u \in Workers, DecodeFails(u) \/ HandlerStarts(u), u # w PROVE LeaseLasts(w)'
    <2>1. numDelivered' = numDelivered + 1 /\ delivery'[w] = delivery[w]
        BY <1>5, <1>t DEF DecodeFails, HandlerStarts, Serve, workerVars
    <2> QED
        BY <2>1, <1>t DEF LeaseLasts
<1>6. ASSUME NEW u \in Workers, u # w,
             \/ Interrupt(u) \/ HandlerAcks(u) \/ HandlerFails(u) \/ Capture(u) \/ NakOrTerm(u)
             \/ HandlerReturns(u) \/ ProcessReturns(u) \/ HeartbeatStep(u)
      PROVE  LeaseLasts(w)'
    <2>1. Own
        BY <1>6, OthersStep
    <2>2. /\ numDelivered' = numDelivered /\ (pending' => pending) /\ (~disturbed' => ~disturbed)
          /\ pending' => lease' = lease \/ disturbed' \/ (lease' = AckWait)
        BY <1>6 DEF Interrupt, HandlerAcks, HandlerFails, Capture, NakOrTerm, HandlerReturns,
                    ProcessReturns, HeartbeatStep, HeartbeatTakes, HeartbeatSeesDone, InProgressLands,
                    InProgressMisses, Remove, NakLands, durableVars, historyVars, Typed
    <2> QED
        BY <1>1, <2>1, <2>2
<1>7. CASE DecodeFails(w) \/ HandlerAcks(w) \/ HandlerFails(w) \/ Capture(w) \/ NakOrTerm(w)
           \/ HandlerReturns(w) \/ ProcessReturns(w)
    BY <1>2, <1>7, <1>t DEF DecodeFails, HandlerAcks, HandlerFails, Capture, NakOrTerm, HandlerReturns,
                            ProcessReturns, workerVars
<1>8. CASE Interrupt(w)
    BY <1>1, <1>8 DEF Interrupt, durableVars, historyVars, heartbeatVars
<1>9. CASE HandlerStarts(w)
    <2>1. /\ hb'[w] \in {"off", "select"} /\ ticks'[w] = 0 /\ missed'[w] = 0 /\ age'[w] = 0
          /\ lease' = AckWait
        BY <1>9, <1>t DEF HandlerStarts, Serve, HeartbeatStarts, Typed, HeartbeatTypeOK
    <2>2. Ticked(0) = 0
        BY TickedFacts
    <2> QED
        BY <2>1, <2>2 DEF LeaseLasts, Answered
<1>10. CASE HeartbeatTakes(w) \/ HeartbeatSeesDone(w)
    <2>0. /\ UNCHANGED <<pc, missed, age, delivery, numDelivered, pending, lease, disturbed>>
        BY <1>10 DEF HeartbeatTakes, HeartbeatSeesDone, durableVars, workerVars, historyVars
    <2>1. CASE pc[w] # "handling"
        BY <1>2, <2>0, <2>1
    <2>2. CASE pc[w] = "handling"
        <3>1. hb[w] = "select" /\ hb'[w] \in {"calling", "finished"} /\ ticks'[w] = ticks[w] + 1
            BY <1>10, <2>2, <1>a, <1>t DEF HeartbeatTakes, TakeTick, HeartbeatSeesDone, SeeDone, OnTime
        <3>2. Answered(w)' = Answered(w)
            BY <3>1, <1>t DEF Answered
        <3> QED
            BY <2>0, <3>2, <1>a, <1>r DEF LeaseLasts
    <2> QED
        BY <2>1, <2>2
<1>11. CASE InProgressLands(w) \/ InProgressMisses(w)
    <2>0. /\ UNCHANGED <<pc, age, delivery, numDelivered, pending, disturbed, ticks>>
          /\ hb[w] = "calling" /\ hb'[w] = "select"
        BY <1>11, <1>t DEF InProgressLands, InProgressMisses, CallReturns, durableVars, workerVars
    <2>1. SUFFICES ASSUME pc[w] = "handling", pending, ~disturbed, delivery[w] = numDelivered,
                          age[w] # Runway
                   PROVE  lease' + age[w] + Ticked(missed'[w]) >= AckWait + Ticked(ticks[w])
        BY <2>0, <1>r DEF LeaseLasts, Answered
    <2>2. /\ ticks[w] \in Nat \ {0} /\ age[w] = Ticked(ticks[w]) /\ Ticked(ticks[w]) \in Nat
          /\ Answered(w) = ticks[w] - 1
        BY <2>0, <2>1, <1>a, <1>t, TickedFacts DEF OnTime, Answered
    <2>3. CASE InProgressLands(w)
        <3>1. lease' = AckWait /\ missed'[w] = 0
            BY <2>1, <2>3, <1>t DEF InProgressLands
        <3> QED
            BY <2>2, <3>1, TickedFacts
    <2>4. CASE InProgressMisses(w)
        <3>1. lease' = lease /\ missed'[w] = missed[w] + 1
            BY <2>1, <2>4, <1>t DEF InProgressMisses, durableVars
        <3>2. Ticked(missed[w] + 1) = Ticked(missed[w]) + Interval /\ Ticked(missed[w]) \in Nat
            BY <1>t, TickedFacts
        <3>3. Ticked(ticks[w]) = Ticked(ticks[w] - 1) + Interval /\ Ticked(ticks[w] - 1) \in Nat
            <4>1. ticks[w] - 1 \in Nat /\ (ticks[w] - 1) + 1 = ticks[w]
                BY <2>2
            <4> QED
                BY <4>1, TickedFacts
        <3>4. lease + age[w] + Ticked(missed[w]) >= AckWait + Ticked(ticks[w] - 1)
            BY <2>1, <2>2, <1>a DEF LeaseLasts
        <3>5. lease \in Nat /\ age[w] \in Nat
            BY <2>1, <1>a, <1>t
        <3> QED
            BY <3>1, <3>2, <3>3, <3>4, <3>5
    <2> QED
        BY <1>11, <2>3, <2>4
<1> QED
    BY <1>3, <1>4, <1>5, <1>6, <1>7, <1>8, <1>9, <1>10, <1>11 DEF Next, HeartbeatStep

\* Every worker starts idle.
LEMMA InitInv == Init => Inv
<1> SUFFICES ASSUME Init PROVE Inv
    OBVIOUS
<1> USE ProcessAssumption, RunwayFacts, IntervalFacts
<1>1. HeartbeatTypeOK
    BY DEF Init, HeartbeatInit, HeartbeatTypeOK, HeartbeatState
<1>2. policy \in Policy /\ policy.maxDeliver <= MaxServed
    <2>1. policy \in [nakDelay : NakDelays, factor : Factors, maxDelay : MaxDelays,
                      maxDeliver : MaxDelivers, termOnExhaustion : Terms]
        BY DEF Init
    <2>2. /\ NakDelays \subseteq 0..MaxDuration /\ MaxDelays \subseteq 0..MaxDuration
          /\ Factors \subseteq Nat /\ MaxDelivers \subseteq Nat /\ Terms \subseteq BOOLEAN
        BY MaxDurationAssumption
    <2>3. policy \in Policy
        BY <2>1, <2>2 DEF Policy
    <2>4. policy.maxDeliver \in 0..MaxServed
        BY <2>1
    <2> QED
        BY <2>3, <2>4
<1>3. /\ pc \in [Workers -> PC] /\ delivery \in [Workers -> 0..MaxServed]
      /\ missed \in [Workers -> Nat] /\ age \in [Workers -> 0..Runway]
    BY DEF Init, PC
<1>4. Cap \in Nat
    BY <1>2 DEF Cap, Policy
<1>5. Typed
    <2>1. /\ numDelivered = 0 /\ givenUpAt = 0 /\ \A w \in Workers : delivery[w] = 0
          /\ pending \in BOOLEAN /\ captured \in BOOLEAN /\ disturbed \in BOOLEAN
        BY DEF Init
    <2> QED
        BY <2>1, <1>1, <1>2, <1>3, <1>4 DEF Typed
<1>6. FinalIsCaptured /\ GivenUpIsCaptured
    BY DEF Init, FinalIsCaptured, GivenUpIsCaptured
<1>7. RunwayInv
    BY DEF Init, HeartbeatInit, RunwayInv, Beats, OnTime, LeaseLasts
<1> QED
    BY <1>5, <1>6, <1>7 DEF Inv

\* The inductive invariant holds in every reachable state.
LEMMA Invariance == Spec => []Inv
<1>1. Inv /\ [Next]_vars => Inv'
    <2> SUFFICES ASSUME Inv, [Next]_vars PROVE Inv'
        OBVIOUS
    <2>1. Typed /\ RunwayInv /\ \A w \in Workers : Beats(w)
        BY DEF Inv, RunwayInv
    <2>2. Typed' /\ \A w \in Workers : Beats(w)'
        BY <2>1, TypedStep, HeartbeatTypeStep DEF Typed
    <2>3. RunwayInv'
        BY <2>1, <2>2, LeaseTypeStep, OnTimeStep, LeaseStep DEF RunwayInv
    <2>4. FinalIsCaptured' /\ GivenUpIsCaptured'
        BY CapturedStep DEF Inv
    <2> QED
        BY <2>2, <2>3, <2>4 DEF Inv
<1> QED
    BY <1>1, InitInv, PTL DEF Spec

\* A lease that runs out under a handler at work: the arithmetic of the third.  At
\* most two intervals pass between the answers of a heartbeat that misses once, and
\* three of them fit into AckWait.
LEMMA LeaseOver ==
    ASSUME Inv, NEW w \in Workers, pc[w] = "handling", delivery[w] = numDelivered,
           pending, ~disturbed, lease = 0, missed[w] < 2
    PROVE  age[w] >= Runway - Ticked(missed[w])
<1> USE IntervalFacts, RunwayFacts
<1>1. Typed /\ Beats(w) /\ OnTime(w) /\ LeaseLasts(w)
    BY DEF Inv, RunwayInv
<1>2. /\ Answered(w) \in Nat /\ Ticked(Answered(w)) \in Nat /\ missed[w] \in Nat
      /\ Ticked(missed[w]) \in Nat /\ age[w] \in Nat
    BY <1>1, AnsweredFacts
<1>3. /\ hb[w] \in HeartbeatState /\ ticks[w] \in Nat /\ tickIn[w] \in 0..Interval
    BY <1>1 DEF Typed, HeartbeatTypeOK
<1>4. CASE age[w] = Runway
    BY <1>2, <1>4
<1>5. CASE age[w] # Runway
    <2>1. age[w] + Ticked(missed[w]) >= AckWait + Ticked(Answered(w))
        BY <1>1, <1>2, <1>5 DEF LeaseLasts
    <2>2. CASE hb[w] = "off"
        <3>1. Interval = 0 /\ Ticked(MaxTicks) = 0
            BY <1>1, <2>2 DEF OnTime, Ticked
        <3> QED
            BY <1>2, <2>1, <3>1
    <2>3. CASE hb[w] = "finished"
        <3>1. Answered(w) = MaxTicks
            BY <1>1, <2>3 DEF OnTime, Answered
        <3> QED
            BY <1>2, <2>1, <3>1
    <2>4. CASE hb[w] \in {"select", "calling"}
        <3>1. age[w] <= Ticked(Answered(w)) + Interval
            <4>1. CASE hb[w] = "select"
                <5>1. age[w] = Ticked(ticks[w]) + (Interval - tickIn[w])
                               + (IF w \in tickReady THEN Interval ELSE 0)
                      /\ (w \in tickReady => tickIn[w] = Interval)
                    BY <1>1, <4>1 DEF OnTime
                <5>2. Answered(w) = ticks[w]
                    BY <4>1 DEF Answered
                <5> QED
                    BY <1>2, <1>3, <5>1, <5>2
            <4>2. CASE hb[w] = "calling"
                <5>1. age[w] = Ticked(ticks[w]) /\ ticks[w] > 0 /\ Answered(w) = ticks[w] - 1
                    BY <1>1, <4>2 DEF OnTime, Answered
                <5>2. Ticked((ticks[w] - 1) + 1) = Ticked(ticks[w] - 1) + Interval
                    BY <1>2, <5>1, TickedFacts
                <5>3. (ticks[w] - 1) + 1 = ticks[w]
                    BY <1>3
                <5> QED
                    BY <1>2, <5>1, <5>2, <5>3
            <4> QED
                BY <2>4, <4>1, <4>2
        <3>2. Interval > 0
            BY <1>1, <2>4 DEF Beats
        <3>3. Ticked(missed[w]) <= Interval
            <4>1. missed[w] <= 1 /\ Ticked(1) = Interval
                BY <1>2 DEF Ticked
            <4>2. Ticked(missed[w]) <= Ticked(1)
                BY <1>2, <4>1, TickedFacts
            <4> QED
                BY <1>2, <4>1, <4>2
        <3>4. FALSE
            BY <1>2, <2>1, <3>1, <3>2, <3>3
        <3> QED
            BY <3>4
    <2> QED
        BY <1>3, <2>2, <2>3, <2>4 DEF HeartbeatState
<1> QED
    BY <1>4, <1>5

-----------------------------------------------------------------------------
\* The documented gate and NakOrTerm: a message is given up only on its last allowed
\* delivery and only after its capture, for any policy and wherever a drain interrupts.
THEOREM GivenUpHolds == Spec => []GivenUpIsCaptured
BY Invariance, PTL DEF Inv

\* The third of AckWait and the tick cap: a delivery is taken from a handler at work
\* only after two missed extensions in a row, or at the end of the runway, or once
\* another delivery's Nak moved the timer, for any AckWait and any cap.
THEOREM RunwayHolds == Spec => RunwayKept
<1> DEFINE Kept == pending /\ ~pending' /\ gone' = "no" =>
                     \A w \in Workers : pc[w] = "handling" /\ delivery[w] = numDelivered =>
                         \/ missed[w] >= 2
                         \/ age[w] >= Runway - missed[w] * Interval
                         \/ disturbed
<1>1. Inv /\ [Next]_vars => [Kept]_vars
    <2> SUFFICES ASSUME Inv, Next, pending, ~pending', gone' = "no",
                        NEW w \in Workers, pc[w] = "handling", delivery[w] = numDelivered,
                        ~(missed[w] >= 2), ~disturbed
                 PROVE  age[w] >= Runway - missed[w] * Interval
        BY DEF vars
    <2>1. lease = 0
        BY DEF Next, Tick, Expire, DecodeFails, HandlerStarts, Serve, Interrupt, HandlerAcks,
               HandlerFails, Capture, NakOrTerm, HandlerReturns, ProcessReturns, HeartbeatStep,
               HeartbeatTakes, HeartbeatSeesDone, InProgressLands, InProgressMisses, Remove, NakLands,
               durableVars
    <2>2. missed[w] \in Nat
        BY DEF Inv, Typed
    <2>3. age[w] >= Runway - Ticked(missed[w])
        BY <2>1, <2>2, LeaseOver
    <2> QED
        BY <2>3 DEF Ticked
<1> QED
    BY <1>1, Invariance, PTL DEF Spec, RunwayKept

-----------------------------------------------------------------------------
(* The envelope *)

\* A set of naturals with an element has a least one.
LEMMA Least ==
    ASSUME NEW T, T \subseteq Nat, T # {}
    PROVE  \E x \in T : \A y \in T : x <= y
<1>1. PICK R : IsWellFoundedOn(R, Nat) /\ \A x, y \in Nat : <<y, x>> \in R <=> y < x
    <2> DEFINE R == OpToRel(<, Nat)
    <2>1. IsWellFoundedOn(R, Nat)
        BY NatLessThanWellFounded
    <2>2. \A x, y \in Nat : <<y, x>> \in R <=> y < x
        BY DEF OpToRel
    <2> QED
        BY <2>1, <2>2, Zenon
<1>2. PICK x \in T : \A y \in T : ~(<<y, x>> \in R)
    BY <1>1, WFMin
<1>3. \A y \in T : ~(y < x)
    BY <1>1, <1>2, Zenon
<1> QED
    BY <1>3

\* The first n powers of b, one by one.
PowersTo(b, p, n) == p \in [0..n -> Nat] /\ p[0] = 1 /\ \A k \in 0..(n - 1) : p[k + 1] = b * p[k]

\* There are so many, for every n.
LEMMA PowersExist ==
    ASSUME NEW b \in Nat, NEW n \in Nat
    PROVE  \E p : PowersTo(b, p, n)
<1> DEFINE T == {i \in Nat : ~\E p : PowersTo(b, p, i)}
<1>1. SUFFICES ASSUME T # {} PROVE FALSE
    OBVIOUS
<1>2. PICK m \in T : \A i \in T : m <= i
    BY <1>1, Least
<1>3. m # 0
    <2>1. PowersTo(b, [i \in 0..0 |-> 1], 0)
        BY DEF PowersTo
    <2> QED
        BY <1>2, <2>1
<1>4. m \in Nat /\ m - 1 \in Nat /\ ~(m <= m - 1) /\ m - 1 \in 0..(m - 1)
    BY <1>2, <1>3
<1>5. PICK p : PowersTo(b, p, m - 1)
    BY <1>2, <1>4
<1> DEFINE last == b * p[m - 1]
           q == [i \in 0..m |-> IF i = m THEN last ELSE p[i]]
<1>6. last \in Nat
    BY <1>4, <1>5 DEF PowersTo
<1>7. ASSUME NEW k \in 0..(m - 1) PROVE q[k + 1] = b * q[k]
    <2>1. q[k] = p[k] /\ k + 1 \in 0..m
        BY <1>4
    <2>2. CASE k = m - 1
        <3>1. k + 1 = m
            BY <1>4, <2>2
        <3> QED
            BY <2>1, <2>2, <3>1
    <2>3. CASE k # m - 1
        <3>1. k \in 0..((m - 1) - 1) /\ k + 1 # m
            BY <1>4, <2>3
        <3>2. p[k + 1] = b * p[k]
            BY <1>5, <3>1 DEF PowersTo
        <3> HIDE DEF last
        <3>3. q[k + 1] = p[k + 1]
            BY <2>1, <3>1
        <3> QED
            BY <2>1, <3>2, <3>3
    <2> QED
        BY <2>2, <2>3
<1>8. q \in [0..m -> Nat] /\ q[0] = 1
    <2> HIDE DEF last
    <2> QED
        BY <1>3, <1>4, <1>5, <1>6 DEF PowersTo
<1>9. PowersTo(b, q, m)
    <2> HIDE DEF q
    <2> QED
        BY <1>7, <1>8 DEF PowersTo
<1> QED
    BY <1>2, <1>9

\* They are the same however many are taken.
LEMMA PowersAgree ==
    ASSUME NEW b \in Nat, NEW n \in Nat, NEW p, NEW q,
           PowersTo(b, p, n), PowersTo(b, q, n + 1)
    PROVE  p[n] = q[n]
<1> DEFINE T == {i \in 0..n : p[i] # q[i]}
<1>1. SUFFICES ASSUME T # {} PROVE FALSE
    OBVIOUS
<1>2. PICK i \in T : \A j \in T : i <= j
    <2>1. T \subseteq Nat
        OBVIOUS
    <2> HIDE DEF T
    <2> QED
        BY <1>1, <2>1, Least
<1>3. i # 0
    BY <1>2 DEF PowersTo
<1>4. i \in Nat /\ i - 1 \in 0..n /\ ~(i <= i - 1)
    BY <1>2, <1>3
<1>5. p[i - 1] = q[i - 1]
    BY <1>2, <1>4
<1>6. i - 1 \in 0..(n - 1) /\ i - 1 \in 0..((n + 1) - 1) /\ (i - 1) + 1 = i
    BY <1>2, <1>3, <1>4
<1> QED
    BY <1>2, <1>5, <1>6 DEF PowersTo

\* So Power multiplies by its base once more at each step.
LEMMA PowerSteps ==
    ASSUME NEW b \in Nat
    PROVE  /\ Power(b) \in [Nat -> Nat] /\ Power(b)[0] = 1
           /\ \A k \in Nat : Power(b)[k + 1] = b * Power(b)[k]
<1> DEFINE P(n) == CHOOSE p : PowersTo(b, p, n)
           g == [n \in Nat |-> P(n)[n]]
<1>1. \A n \in Nat : PowersTo(b, P(n), n)
    BY PowersExist
<1> HIDE DEF P
<1>2. g \in [Nat -> Nat] /\ g[0] = 1
    BY <1>1 DEF PowersTo
<1>3. ASSUME NEW k \in Nat PROVE g[k + 1] = b * g[k]
    <2>1. k + 1 \in Nat /\ k \in 0..((k + 1) - 1)
        OBVIOUS
    <2>2. PowersTo(b, P(k), k) /\ PowersTo(b, P(k + 1), k + 1)
        BY <1>1, <2>1, Zenon
    <2>3. P(k + 1)[k + 1] = b * P(k + 1)[k]
        BY <2>1, <2>2 DEF PowersTo
    <2>4. P(k)[k] = P(k + 1)[k]
        BY <2>2, PowersAgree
    <2> QED
        BY <2>1, <2>3, <2>4
<1> HIDE DEF g
<1>4. ASSUME NEW n \in Nat PROVE g[n] = IF n = 0 THEN 1 ELSE b * g[n - 1]
    <2>1. n # 0 => n - 1 \in Nat /\ (n - 1) + 1 = n
        OBVIOUS
    <2> QED
        BY <1>2, <1>3, <2>1
<1> DEFINE pow[n \in Nat] == IF n = 0 THEN 1 ELSE b * pow[n - 1]
<1>5. g = [n \in Nat |-> IF n = 0 THEN 1 ELSE b * g[n - 1]]
    BY <1>2, <1>4
<1>6. pow = [n \in Nat |-> IF n = 0 THEN 1 ELSE b * pow[n - 1]]
    BY <1>5
<1>7. Power(b) = pow
    BY DEF Power
<1> HIDE DEF pow
<1>8. \A n \in Nat : pow[n] = IF n = 0 THEN 1 ELSE b * pow[n - 1]
    BY <1>6
<1>9. \A n \in Nat : pow[n] = g[n]
    <2> DEFINE T == {n \in Nat : pow[n] # g[n]}
    <2>1. SUFFICES ASSUME T # {} PROVE FALSE
        OBVIOUS
    <2>2. PICK n \in T : \A j \in T : n <= j
        BY <2>1, Least
    <2>3. n # 0 /\ n \in Nat /\ n - 1 \in Nat /\ ~(n <= n - 1)
        BY <1>4, <1>8, <2>2
    <2>4. pow[n - 1] = g[n - 1]
        BY <2>2, <2>3
    <2> QED
        BY <1>4, <1>8, <2>2, <2>3, <2>4
<1>10. pow = g
    BY <1>2, <1>6, <1>9
<1> QED
    BY <1>2, <1>3, <1>7, <1>10

\* The powers of a growing factor grow.
LEMMA PowersGrow ==
    ASSUME NEW b \in Nat, b > 1, NEW i \in Nat, NEW j \in Nat, i <= j
    PROVE  Power(b)[i] <= Power(b)[j] /\ Power(b)[i] >= 1
<1> DEFINE f == Power(b)
<1>1. f \in [Nat -> Nat] /\ f[0] = 1 /\ \A k \in Nat : f[k + 1] = b * f[k]
    BY PowerSteps
<1> HIDE DEF f
<1>2. \A k \in Nat : f[k] <= f[k + 1]
    <2> TAKE k \in Nat
    <2>1. f[k] \in Nat /\ f[k + 1] = b * f[k]
        BY <1>1
    <2>2. b * f[k] = f[k] + (b - 1) * f[k] /\ (b - 1) * f[k] \in Nat
        BY <2>1
    <2> QED
        BY <2>1, <2>2
<1>3. \A m \in Nat, n \in Nat : m <= n => f[m] <= f[n]
    <2> SUFFICES ASSUME NEW m \in Nat PROVE \A n \in Nat : m <= n => f[m] <= f[n]
        OBVIOUS
    <2> DEFINE T == {n \in Nat : m <= n /\ ~(f[m] <= f[n])}
    <2>1. SUFFICES ASSUME T # {} PROVE FALSE
        OBVIOUS
    <2>2. PICK n \in T : \A k \in T : n <= k
        BY <2>1, Least
    <2>3. n # m /\ m <= n /\ n \in Nat
        BY <1>1, <2>2
    <2>4. n - 1 \in Nat /\ m <= n - 1 /\ ~(n <= n - 1) /\ (n - 1) + 1 = n
        BY <2>3
    <2>5. f[m] <= f[n - 1]
        BY <2>2, <2>4
    <2>6. f[n - 1] <= f[n]
        BY <1>2, <2>4
    <2>7. f[m] \in Nat /\ f[n] \in Nat /\ f[n - 1] \in Nat
        BY <1>1, <2>3, <2>4
    <2> QED
        BY <2>2, <2>5, <2>6, <2>7
<1>4. f[0] <= f[i] /\ f[i] <= f[j]
    BY <1>3
<1> QED
    BY <1>1, <1>4 DEF f

\* A growing envelope asks for a delay that its cap and the largest duration bound.
LEMMA GrownDelay ==
    ASSUME NEW p \in Policy, p.factor > 1, NEW n \in Nat, n > 1
    PROVE  LET d == p.nakDelay * Power(p.factor)[n - 1] IN
           /\ d \in Nat
           /\ DelayFor(p, n) = IF p.maxDelay > 0 /\ d >= p.maxDelay THEN p.maxDelay
                               ELSE IF d <= MaxDuration THEN d ELSE MaxDuration
<1>1. n - 1 \in Nat /\ p.factor \in Nat /\ p.nakDelay \in Nat /\ MaxDuration \in Nat
    BY MaxDurationAssumption DEF Policy
<1>2. Power(p.factor)[n - 1] \in Nat
    BY <1>1, PowerSteps
<1> DEFINE d == p.nakDelay * Power(p.factor)[n - 1]
<1>3. d \in Nat
    BY <1>1, <1>2
<1>4. DelayFor(p, n) = IF p.maxDelay > 0 /\ d >= p.maxDelay THEN p.maxDelay
                       ELSE Min({d, MaxDuration})
    BY <1>1 DEF DelayFor
<1> HIDE DEF d
<1>5. Min({d, MaxDuration}) = IF d <= MaxDuration THEN d ELSE MaxDuration
    BY <1>1, <1>3, MinPair
<1>6. DelayFor(p, n) = IF p.maxDelay > 0 /\ d >= p.maxDelay THEN p.maxDelay
                       ELSE IF d <= MaxDuration THEN d ELSE MaxDuration
    BY <1>4, <1>5
<1> QED
    BY <1>3, <1>6 DEF d

\* Every delay is a duration.
LEMMA DelayIsDuration ==
    ASSUME NEW p \in Policy, NEW n \in Nat
    PROVE  DelayFor(p, n) \in 0..MaxDuration
<1>1. p.nakDelay \in 0..MaxDuration /\ p.maxDelay \in 0..MaxDuration /\ p.factor \in Nat
      /\ MaxDuration \in Nat
    BY MaxDurationAssumption DEF Policy
<1>2. CASE p.factor <= 1 \/ n <= 1
    BY <1>1, <1>2 DEF DelayFor
<1>3. CASE p.factor > 1 /\ n > 1
    BY <1>1, <1>3, GrownDelay
<1> QED
    BY <1>1, <1>2, <1>3

\* Multiplication is monotonic.
LEMMA TimesGrows ==
    ASSUME NEW a \in Nat, NEW x \in Nat, NEW y \in Nat, x <= y
    PROVE  a * x <= a * y
<1>1. y - x \in Nat /\ a * y = a * x + a * (y - x)
    OBVIOUS
<1>2. a * (y - x) \in Nat /\ a * x \in Nat
    BY <1>1
<1> QED
    BY <1>1, <1>2

\* The envelope of any policy grows with the deliveries, whatever it is capped at.
LEMMA EnvelopeGrows ==
    ASSUME NEW p \in Policy, NEW i \in Nat, NEW j \in Nat, i <= j,
           p.maxDelay = 0 \/ p.nakDelay <= p.maxDelay
    PROVE  DelayFor(p, i) <= DelayFor(p, j)
<1>1. p.nakDelay \in 0..MaxDuration /\ p.maxDelay \in 0..MaxDuration /\ p.factor \in Nat
      /\ MaxDuration \in Nat
    BY MaxDurationAssumption DEF Policy
<1>2. CASE p.factor <= 1 \/ j <= 1
    BY <1>1, <1>2 DEF DelayFor
<1>3. CASE p.factor > 1 /\ j > 1
    <2> DEFINE e == p.nakDelay * Power(p.factor)[j - 1]
    <2>1. /\ e \in Nat
          /\ DelayFor(p, j) = IF p.maxDelay > 0 /\ e >= p.maxDelay THEN p.maxDelay
                              ELSE IF e <= MaxDuration THEN e ELSE MaxDuration
        BY <1>3, GrownDelay
    <2>2. CASE i <= 1
        <3>1. DelayFor(p, i) = p.nakDelay
            BY <2>2 DEF DelayFor
        <3>2. Power(p.factor)[j - 1] \in Nat /\ Power(p.factor)[j - 1] >= 1
            <4>1. j - 1 \in Nat /\ j - 1 <= j - 1
                BY <1>3
            <4>2. Power(p.factor)[j - 1] \in Nat
                BY <1>1, <4>1, PowerSteps
            <4>3. Power(p.factor)[j - 1] >= 1
                BY <1>1, <1>3, <4>1, PowersGrow
            <4> QED
                BY <4>2, <4>3
        <3>3. p.nakDelay <= e
            <4>1. p.nakDelay * 1 <= e
                BY <1>1, <3>2, TimesGrows
            <4> QED
                BY <1>1, <4>1
        <3> HIDE DEF e
        <3> QED
            BY <1>1, <2>1, <3>1, <3>3
    <2>3. CASE i > 1
        <3> DEFINE d == p.nakDelay * Power(p.factor)[i - 1]
        <3>1. /\ d \in Nat
              /\ DelayFor(p, i) = IF p.maxDelay > 0 /\ d >= p.maxDelay THEN p.maxDelay
                                  ELSE IF d <= MaxDuration THEN d ELSE MaxDuration
            BY <1>3, <2>3, GrownDelay
        <3>2. /\ Power(p.factor)[i - 1] \in Nat /\ Power(p.factor)[j - 1] \in Nat
              /\ Power(p.factor)[i - 1] <= Power(p.factor)[j - 1]
            <4>1. i - 1 \in Nat /\ j - 1 \in Nat /\ i - 1 <= j - 1
                BY <1>3, <2>3
            <4>2. Power(p.factor)[i - 1] \in Nat /\ Power(p.factor)[j - 1] \in Nat
                BY <1>1, <4>1, PowerSteps
            <4>3. Power(p.factor)[i - 1] <= Power(p.factor)[j - 1]
                BY <1>1, <1>3, <4>1, PowersGrow
            <4> QED
                BY <4>2, <4>3
        <3>3. d <= e
            BY <1>1, <3>2, TimesGrows
        <3> HIDE DEF d, e
        <3> QED
            BY <1>1, <2>1, <3>1, <3>3
    <2> QED
        BY <2>2, <2>3
<1> QED
    BY <1>1, <1>2, <1>3

\* No policy asks for an earlier redelivery as the deliveries go on: growth saturates
\* at the cap and at the largest duration, and never wraps.
THEOREM DelaysHold == Spec => []DelaysGrow
<1>1. Inv => DelaysGrow
    <2>1. Inv => policy \in Policy
        BY DEF Inv, Typed
    <2>2. 0..MaxServed \subseteq Nat
        BY ProcessAssumption
    <2> QED
        BY <2>1, <2>2, EnvelopeGrows DEF DelaysGrow
<1> QED
    BY <1>1, Invariance, PTL

-----------------------------------------------------------------------------
(* The remaining types *)

\* A heartbeat misses no more extensions than it asked for.
MissedFits == \A w \in Workers : missed[w] <= IF pc[w] = "handling" THEN Answered(w) ELSE 0

\* What Typed leaves out: the lease is set to an AckWait or to a duration.
RestTyped ==
    /\ undecodable \in BOOLEAN /\ lease \in 0..(AckWait + MaxDuration)
    /\ gone \in {"no", "acked", "undecodable", "given_up"}
    /\ cancelled \subseteq Workers /\ ackd \subseteq Workers

LEMMA MissedStep == Inv /\ MissedFits /\ [Next]_vars => MissedFits'
<1> SUFFICES ASSUME Inv, MissedFits, [Next]_vars, NEW w \in Workers
             PROVE  missed'[w] <= IF pc'[w] = "handling" THEN Answered(w)' ELSE 0
    BY DEF MissedFits
<1>a. Typed /\ OnTime(w) /\ Beats(w) /\ missed[w] <= IF pc[w] = "handling" THEN Answered(w) ELSE 0
    BY DEF Inv, RunwayInv, MissedFits
<1>t. /\ pc \in [Workers -> PC] /\ hb \in [Workers -> HeartbeatState]
      /\ ticks \in [Workers -> Nat] /\ missed \in [Workers -> Nat]
    BY <1>a, RunwayFacts DEF Typed, HeartbeatTypeOK
<1> DEFINE Fits == missed[w] <= IF pc[w] = "handling" THEN Answered(w) ELSE 0
<1>1. CASE UNCHANGED <<pc, hb, ticks, missed>>
    BY <1>a, <1>1 DEF Answered
<1>2. CASE Tick \/ Expire \/ UNCHANGED vars
    BY <1>1, <1>2 DEF Tick, TickersAdvance, Expire, vars, workerVars, historyVars, heartbeatVars
<1>3. ASSUME NEW u \in Workers, u # w,
             \/ DecodeFails(u) \/ HandlerStarts(u) \/ Interrupt(u) \/ HandlerAcks(u) \/ HandlerFails(u)
             \/ Capture(u) \/ NakOrTerm(u) \/ HandlerReturns(u) \/ ProcessReturns(u) \/ HeartbeatStep(u)
      PROVE  Fits'
    BY <1>a, <1>3, OthersStep DEF Answered
<1>4. CASE DecodeFails(w) \/ Interrupt(w)
    BY <1>1, <1>4 DEF DecodeFails, Interrupt, workerVars, historyVars, heartbeatVars
<1>5. CASE HandlerStarts(w)
    <2>1. missed'[w] = 0 /\ ticks'[w] = 0 /\ hb'[w] \in {"select", "off"}
        BY <1>5, <1>t DEF HandlerStarts, HeartbeatStarts
    <2> QED
        BY <2>1 DEF Answered
<1>6. CASE HandlerAcks(w) \/ HandlerFails(w)
    <2>1. missed'[w] = 0 /\ pc'[w] # "handling"
        BY <1>6, <1>t DEF HandlerAcks, HandlerFails, ForgetRunway
    <2> QED
        BY <2>1
<1>7. CASE Capture(w) \/ NakOrTerm(w) \/ HandlerReturns(w) \/ ProcessReturns(w)
    <2>1. missed'[w] = missed[w] /\ pc[w] # "handling" /\ pc'[w] # "handling"
        BY <1>7, <1>t DEF Capture, NakOrTerm, HandlerReturns, ProcessReturns, historyVars
    <2> QED
        BY <1>a, <2>1
<1>8. CASE HeartbeatTakes(w)
    <2>1. /\ hb[w] = "select" /\ hb'[w] \in {"calling", "finished"} /\ ticks'[w] = ticks[w] + 1
          /\ missed'[w] = missed[w] /\ pc'[w] = pc[w]
        BY <1>8, <1>t DEF HeartbeatTakes, TakeTick, workerVars, historyVars
    <2>2. Answered(w)' = Answered(w)
        BY <1>t, <2>1 DEF Answered
    <2> QED
        BY <1>a, <2>1, <2>2
<1>9. CASE HeartbeatSeesDone(w)
    <2>1. w \in done /\ missed'[w] = missed[w] /\ pc'[w] = pc[w]
        BY <1>9, <1>t DEF HeartbeatSeesDone, SeeDone, workerVars, historyVars
    <2>2. pc[w] # "handling"
        BY <1>a, <2>1 DEF OnTime
    <2> QED
        BY <1>a, <2>1, <2>2
<1>10. CASE InProgressLands(w) \/ InProgressMisses(w)
    <2>1. /\ hb[w] = "calling" /\ hb'[w] = "select" /\ ticks'[w] = ticks[w] /\ pc'[w] = pc[w]
          /\ missed'[w] \in {0, missed[w], missed[w] + 1}
          /\ pc[w] # "handling" => missed'[w] \in {0, missed[w]}
        BY <1>10, <1>t DEF InProgressLands, InProgressMisses, CallReturns, workerVars
    <2>2. Answered(w)' = Answered(w) + 1 /\ Answered(w) \in Int
        BY <1>t, <2>1 DEF Answered
    <2>3. pc[w] = "handling" => Answered(w) \in Nat
        BY <1>a, AnsweredFacts
    <2> QED
        BY <1>a, <1>t, <2>1, <2>2, <2>3
<1> QED
    BY <1>2, <1>3, <1>4, <1>5, <1>6, <1>7, <1>8, <1>9, <1>10 DEF Next, HeartbeatStep

LEMMA RestStep == Inv /\ RestTyped /\ [Next]_vars => RestTyped'
<1> SUFFICES ASSUME Inv, RestTyped, [Next]_vars PROVE RestTyped'
    OBVIOUS
<1> USE MaxDurationAssumption, IntervalFacts DEF RestTyped, inputVars, durableVars, workerVars
<1>1. CASE Tick
    BY <1>1 DEF Tick
<1>2. CASE Expire \/ UNCHANGED vars
    BY <1>2 DEF Expire, vars
<1>3. ASSUME NEW w \in Workers, DecodeFails(w) \/ HandlerStarts(w) PROVE RestTyped'
    BY <1>3 DEF DecodeFails, HandlerStarts, Serve
<1>4. ASSUME NEW w \in Workers, Interrupt(w) \/ HandlerAcks(w) \/ HandlerFails(w) \/ Capture(w)
      PROVE  RestTyped'
    BY <1>4 DEF Interrupt, HandlerAcks, HandlerFails, Capture, Remove
<1>5. ASSUME NEW w \in Workers, NakOrTerm(w) PROVE RestTyped'
    <2>1. policy \in Policy /\ delivery[w] \in Nat
        BY ProcessAssumption DEF Inv, Typed
    <2>2. DelayFor(policy, delivery[w]) \in 0..MaxDuration
        BY <2>1, DelayIsDuration
    <2>3. lease' \in {lease, 0, DelayFor(policy, delivery[w])}
        BY <1>5 DEF NakOrTerm, Remove, NakLands
    <2>4. lease' \in 0..(AckWait + MaxDuration)
        BY <2>2, <2>3
    <2> QED
        BY <1>5, <2>4 DEF NakOrTerm, Remove, NakLands
<1>6. ASSUME NEW w \in Workers, HandlerReturns(w) \/ ProcessReturns(w) \/ HeartbeatStep(w)
      PROVE  RestTyped'
    BY <1>6 DEF HandlerReturns, ProcessReturns, HeartbeatStep, HeartbeatTakes, HeartbeatSeesDone,
                InProgressLands, InProgressMisses
<1> QED
    BY <1>1, <1>2, <1>3, <1>4, <1>5, <1>6 DEF Next

\* The state stays well-formed whatever the policy asks for: a lease is never set to
\* more than a duration, and a heartbeat misses no more extensions than its cap.
THEOREM TypeCorrect == Spec => []TypeOK
<1>1. Init => MissedFits /\ RestTyped
    BY IntervalFacts, MaxDurationAssumption DEF Init, MissedFits, RestTyped
<1>2. Inv /\ MissedFits /\ RestTyped /\ [Next]_vars => MissedFits' /\ RestTyped'
    BY MissedStep, RestStep
<1>3. Inv /\ MissedFits /\ RestTyped => TypeOK
    <2> SUFFICES ASSUME Inv, MissedFits, RestTyped PROVE TypeOK
        OBVIOUS
    <2>1. ASSUME NEW w \in Workers PROVE missed[w] \in 0..(MaxTicks + 1)
        <3>1. missed[w] \in Nat /\ MaxTicks \in Nat
            BY RunwayFacts DEF Inv, Typed
        <3>2. missed[w] <= IF pc[w] = "handling" THEN Answered(w) ELSE 0
            BY DEF MissedFits
        <3>3. pc[w] = "handling" => Answered(w) \in Nat /\ Answered(w) <= MaxTicks
            BY AnsweredFacts DEF Inv, RunwayInv
        <3> QED
            BY <3>1, <3>2, <3>3
    <2>2. missed \in [Workers -> 0..(MaxTicks + 1)]
        BY <2>1 DEF Inv, Typed
    <2> QED
        BY <2>2 DEF Inv, Typed, RestTyped, TypeOK
<1> QED
    BY <1>1, <1>2, <1>3, Invariance, PTL DEF Spec
=============================================================================

------------------------------ MODULE Breaker ------------------------------
(***************************************************************************)
(* The floor-age circuit breaker: jsconsumer.FloorMonitor, which polls the *)
(* durable's ack floor, and the half of jsconsumer.Retry that acts on it:  *)
(* the per-message failure clocks (noteFailure, forgetFailure and the      *)
(* sweep), shouldQuarantine and the one-claim-per-window budget.           *)
(*                                                                         *)
(* Time is discrete.  Each process runs one handler at a time beside its   *)
(* poll goroutine; the steps of one Settle interleave with the poll's, but *)
(* no tick passes between them: they are a few locked memory accesses, and *)
(* a tick stands for minutes.                                              *)
(***************************************************************************)
EXTENDS Naturals, FiniteSets, FiniteSetsExt

CONSTANTS Processes,      \* processes consuming from the durable
          MaxSeq,         \* stream sequences 1..MaxSeq
          MaxDeliver,
          CaptureReserve,
          MinDeliveries,
          Enforce,        \* BreakerEnforce rather than BreakerObserve
          FloorAge,       \* FloorMonitorConfig.FloorAge, in ticks
          PollInterval,   \* pollInterval(), in ticks
          PollTimeout,    \* floorPollTimeout, in ticks
          FailureTTL,     \* Retry.failureTTL, in ticks
          MaxTracked,     \* maxTrackedFailures
          PollMayFail,    \* environment: may consumer-info requests fail?
          AckMayBeLost,   \* environment: may a handler's plain Ack be lost?
          MaxTime,        \* bound on the clock
          LoopMayBeLost,  \* environment: may a consume loop close by itself?
          MaxFaults       \* bound on process restarts and lost loops

\* What NewRetry and NewFloorMonitor accept.
ASSUME BreakerAssumption ==
    /\ MaxSeq \in Nat \ {0}
    /\ CaptureReserve \in Nat /\ MinDeliveries \in Nat \ {0}
    /\ MaxDeliver \in Nat \ {0} /\ MinDeliveries + CaptureReserve <= MaxDeliver
    /\ FloorAge \in Nat \ {0}
    /\ PollInterval \in Nat \ {0} /\ PollInterval < FloorAge
    /\ PollTimeout \in Nat
    /\ FailureTTL \in Nat /\ MaxTracked \in Nat \ {0}
    /\ {Enforce, PollMayFail, AckMayBeLost, LoopMayBeLost} \subseteq BOOLEAN
    /\ MaxTime \in Nat /\ MaxFaults \in Nat

VARIABLES now,
          \* the durable (external)
          acked, lastDelivered, count,
          \* FloorMonitor, per process
          stalled, floor, floorSince, polling, polledAt, reading,
          loop,   \* the attempt of Run: its loop is down, consuming, or attached too
          \* Retry, per process
          failing, haveQuarantined, quarantined, quarantinedFloor,
          \* the Settle in progress, per process
          pc, seq, delivered, failingFor, judged,
          faults,   \* restarts and lost loops so far
          \* history: every claim, and what was true of the stream when made
          claims, passedAt, firstAt, failedSince

durableVars == <<acked, lastDelivered, count>>
monitorVars == <<stalled, floor, floorSince, polling, polledAt, reading, loop>>
budgetVars == <<haveQuarantined, quarantined, quarantinedFloor>>
settleVars == <<pc, seq, delivered, failingFor, judged>>
historyVars == <<claims, passedAt, firstAt, failedSince>>
vars == <<now, durableVars, monitorVars, failing, budgetVars, settleVars, faults, historyVars>>

Seqs == 1..MaxSeq
Time == 0..MaxTime
NotFailing == MaxTime + 1   \* failedSince of a message that is not failing
Reading == [floor : 0..MaxSeq, delivered : 0..MaxSeq]
NoReading == [floor |-> 0, delivered |-> 0]
FailureRecord == [seq : Seqs, first : Time, last : Time]

\* lag: how long ago the durable had moved past the floor the claim was judged
\* against; stuck: whether the floor it had really stalled for a window; burned: how
\* long the message had really been failing.
Claim == [proc : Processes, seq : Seqs, n : 1..MaxDeliver, at : Time,
          lag : Time, stuck : BOOLEAN, burned : Time]

TypeOK ==
    /\ now \in Time
    /\ acked \subseteq Seqs /\ lastDelivered \in 0..MaxSeq
    /\ count \in [Seqs -> 0..MaxDeliver]
    /\ stalled \subseteq Processes /\ polling \subseteq Processes
    /\ floor \in [Processes -> 0..MaxSeq]
    /\ floorSince \in [Processes -> Time] /\ polledAt \in [Processes -> Time]
    /\ reading \in [Processes -> Reading]
    /\ loop \in [Processes -> {"down", "consuming", "attached"}]
    /\ failing \in [Processes -> SUBSET FailureRecord]
    /\ haveQuarantined \subseteq Processes
    /\ quarantined \in [Processes -> Time]
    /\ quarantinedFloor \in [Processes -> 0..MaxSeq]
    /\ pc \in [Processes -> {"idle", "judge", "spend", "rest", "dead"}]
    /\ seq \in [Processes -> Seqs] /\ delivered \in [Processes -> 0..MaxDeliver]
    /\ failingFor \in [Processes -> Time]
    /\ judged \in [Processes -> 0..MaxSeq]
    /\ faults \in 0..MaxFaults
    /\ claims \subseteq Claim
    /\ passedAt \in [0..MaxSeq -> Time] /\ firstAt \in [Seqs -> Time]
    /\ failedSince \in [Seqs -> Time \cup {NotFailing}]

Init ==
    /\ now = 0
    /\ acked = {} /\ lastDelivered = 0 /\ count = [s \in Seqs |-> 0]
    /\ stalled = {} /\ polling = {}
    /\ floor = [p \in Processes |-> 0]
    /\ floorSince = [p \in Processes |-> 0]
    /\ polledAt = [p \in Processes |-> 0]
    /\ reading = [p \in Processes |-> NoReading]
    /\ loop = [p \in Processes |-> "attached"]
    /\ failing = [p \in Processes |-> {}]
    /\ haveQuarantined = {}
    /\ quarantined = [p \in Processes |-> 0]
    /\ quarantinedFloor = [p \in Processes |-> 0]
    /\ pc = [p \in Processes |-> "idle"]
    /\ seq = [p \in Processes |-> 1]
    /\ delivered = [p \in Processes |-> 0]
    /\ failingFor = [p \in Processes |-> 0]
    /\ judged = [p \in Processes |-> 0]
    /\ faults = 0
    /\ claims = {}
    /\ passedAt = [f \in 0..MaxSeq |-> 0] /\ firstAt = [s \in Seqs |-> 0]
    /\ failedSince = [s \in Seqs |-> NotFailing]

-----------------------------------------------------------------------------
(* The durable. *)

\* The ack floor is a contiguous watermark.
FloorOf(settled) == Max({f \in 0..MaxSeq : 1..f \subseteq settled})
AckFloor == FloorOf(acked)

\* An acknowledgement of s lands, with the history of the floors it releases.
Acknowledge(s) ==
    /\ acked' = acked \cup {s}
    /\ passedAt' = [f \in 0..MaxSeq |->
                       IF AckFloor <= f /\ f < FloorOf(acked \cup {s}) THEN now ELSE passedAt[f]]

\* The server delivers s to process p: first deliveries in stream order,
\* redeliveries up to the cap.
Deliver(p, s) ==
    /\ pc[p] = "idle" /\ loop[p] # "down"
    /\ s \notin acked
    /\ s <= lastDelivered + 1
    /\ count[s] < MaxDeliver
    /\ count' = [count EXCEPT ![s] = @ + 1]
    /\ lastDelivered' = Max({lastDelivered, s})
    /\ firstAt' = IF count[s] = 0 THEN [firstAt EXCEPT ![s] = now] ELSE firstAt

-----------------------------------------------------------------------------
(* FloorMonitor *)

\* pollOnce asks for the consumer info; the server answers with what holds now.
Ask(p) ==
    /\ polling' = polling \cup {p}
    /\ polledAt' = [polledAt EXCEPT ![p] = now]
    /\ reading' = [reading EXCEPT ![p] = [floor |-> AckFloor, delivered |-> lastDelivered]]

\* The ticker fires.
PollStart(p) ==
    /\ loop[p] = "attached" /\ p \notin polling
    /\ Ask(p)
    /\ UNCHANGED <<now, durableVars, stalled, floor, floorSince, loop, failing, budgetVars,
                   settleVars, faults, historyVars>>

\* pollOnce returns, and pollFloor waits for the ticker: an interval from here at
\* most, which is what the first poll of an attempt waits.
Answered(p) ==
    /\ polling' = polling \ {p}
    /\ polledAt' = [polledAt EXCEPT ![p] = now]
    /\ reading' = [reading EXCEPT ![p] = NoReading]

\* Mutant: a floor that stands still counts as stalled, idle or not.
ObserveStationary(p) ==
    LET same == p \in stalled /\ floor[p] = reading[p].floor
    IN  /\ p \in polling
        /\ floor' = [floor EXCEPT ![p] = reading[p].floor]
        /\ stalled' = stalled \cup {p}
        /\ floorSince' = IF same THEN floorSince ELSE [floorSince EXCEPT ![p] = now]
        /\ Answered(p)
        /\ UNCHANGED <<now, durableVars, loop, failing, budgetVars, settleVars, faults,
                       historyVars>>

\* Mutant: a stall is only left when the consumer catches up.
ObserveFirstStallOnly(p) ==
    LET caughtUp == reading[p].delivered <= reading[p].floor
    IN  /\ p \in polling
        /\ floor' = IF p \in stalled THEN floor ELSE [floor EXCEPT ![p] = reading[p].floor]
        /\ stalled' = IF caughtUp THEN stalled \ {p} ELSE stalled \cup {p}
        /\ floorSince' = IF p \in stalled THEN floorSince ELSE [floorSince EXCEPT ![p] = now]
        /\ Answered(p)
        /\ UNCHANGED <<now, durableVars, loop, failing, budgetVars, settleVars, faults,
                       historyVars>>

\* The reply reaches the process: observeFloor, which may judge a stale reading.
ObserveFloor(p) ==
    LET caughtUp == reading[p].delivered <= reading[p].floor
        sameStall == p \in stalled /\ floor[p] = reading[p].floor
    IN  /\ p \in polling
        /\ floor' = [floor EXCEPT ![p] = reading[p].floor]
        /\ stalled' = IF caughtUp THEN stalled \ {p} ELSE stalled \cup {p}
        /\ floorSince' = IF caughtUp \/ sameStall THEN floorSince
                         ELSE [floorSince EXCEPT ![p] = now]
        /\ Answered(p)
        /\ UNCHANGED <<now, durableVars, loop, failing, budgetVars, settleVars, faults,
                       historyVars>>

\* The request fails or times out: the last observation stands.
PollFails(p) ==
    /\ PollMayFail
    /\ p \in polling
    /\ Answered(p)
    /\ UNCHANGED <<now, durableVars, stalled, floor, floorSince, loop, failing, budgetVars,
                   settleVars, faults, historyVars>>

-----------------------------------------------------------------------------
(* Run's attempts share one FloorMonitor and one Retry. *)

\* The consume loop closes by itself with nothing in flight: its poll ends.
LoopLost(p) ==
    /\ LoopMayBeLost /\ faults < MaxFaults
    /\ loop[p] = "attached" /\ pc[p] = "idle"
    /\ faults' = faults + 1
    /\ loop' = [loop EXCEPT ![p] = "down"]
    /\ polling' = polling \ {p}
    /\ reading' = [reading EXCEPT ![p] = NoReading]
    /\ UNCHANGED <<now, durableVars, stalled, floor, floorSince, polledAt, failing, budgetVars,
                   settleVars, historyVars>>

\* The next attempt's Start has called Consume: handlers run from here on.
Consume(p) ==
    /\ loop[p] = "down"
    /\ loop' = [loop EXCEPT ![p] = "consuming"]
    /\ UNCHANGED <<now, durableVars, stalled, floor, floorSince, polling, polledAt, reading,
                   failing, budgetVars, settleVars, faults, historyVars>>

\* Start goes on: attach forgets no stall, and pollFloor samples at once.
Attach(p) ==
    /\ loop[p] = "consuming"
    /\ loop' = [loop EXCEPT ![p] = "attached"]
    /\ Ask(p)
    /\ UNCHANGED <<now, durableVars, stalled, floor, floorSince, failing, budgetVars,
                   settleVars, faults, historyVars>>

-----------------------------------------------------------------------------
(* Failure clocks *)

ClockOf(records, s) == {r \in records : r.seq = s}

\* sweepFailuresLocked: expired clocks go, then the least recently touched ones
\* down to three quarters of the cap.  Ties are broken by map order.
SweptTo(records) ==
    LET fresh == {r \in records : now - r.last <= FailureTTL}
        target == (MaxTracked * 3) \div 4
    IN  IF Cardinality(fresh) <= target THEN {fresh}
        ELSE {kept \in SUBSET fresh :
                 /\ Cardinality(kept) = target
                 /\ \A k \in kept, d \in fresh \ kept : d.last <= k.last}

\* Mutant: the clocks are never swept.
NoteFailureUnswept(p, s) ==
    LET seen == ClockOf(failing[p], s)
        first == IF seen = {} THEN now ELSE (CHOOSE r \in seen : TRUE).first
    IN  /\ failing' = [failing EXCEPT ![p] =
                          (@ \ seen) \cup {[seq |-> s, first |-> first, last |-> now]}]
        /\ failingFor' = [failingFor EXCEPT ![p] = now - first]

\* noteFailure: start or touch the clock of s, and read it.
NoteFailure(p, s) ==
    LET seen == ClockOf(failing[p], s)
        first == IF seen = {} THEN now ELSE (CHOOSE r \in seen : TRUE).first
        noted == (failing[p] \ seen) \cup {[seq |-> s, first |-> first, last |-> now]}
    IN  /\ \E kept \in (IF Cardinality(noted) > MaxTracked THEN SweptTo(noted) ELSE {noted}) :
              failing' = [failing EXCEPT ![p] = kept]
        /\ failingFor' = [failingFor EXCEPT ![p] = now - first]

-----------------------------------------------------------------------------
(* Settle *)

LadderSpent(n) == n >= MaxDeliver - CaptureReserve

\* A delivery of s fails on p, and Settle (a transient failure) or DeadLetter (a
\* permanent one) notes the failure.
Fail(p, s) ==
    /\ Deliver(p, s)
    /\ NoteFailure(p, s)
    /\ seq' = [seq EXCEPT ![p] = s]
    /\ delivered' = [delivered EXCEPT ![p] = count[s] + 1]
    /\ \E next \in {"judge", "dead"} : pc' = [pc EXCEPT ![p] = next]
    /\ failedSince' = [failedSince EXCEPT ![s] = IF @ = NotFailing THEN now ELSE @]
    /\ UNCHANGED <<now, acked, monitorVars, budgetVars, judged, faults, claims, passedAt>>

\* A delivery of s is processed on p; nothing tells Retry about it.
Succeed(p, s) ==
    /\ Deliver(p, s)
    /\ failedSince' = [failedSince EXCEPT ![s] = NotFailing]
    /\ \/ Acknowledge(s)
       \/ AckMayBeLost /\ UNCHANGED <<acked, passedAt>>
    /\ UNCHANGED <<now, monitorVars, failing, budgetVars, settleVars, faults, claims>>

\* What FloorStall must report for shouldQuarantine to go on.
StalledPastAge(p) == p \in stalled /\ now - floorSince[p] >= FloorAge

\* Mutant: the stall alone condemns the message.
JudgeByStallAlone(p) ==
    /\ pc[p] = "judge"
    /\ judged' = [judged EXCEPT ![p] = floor[p]]
    /\ pc' = [pc EXCEPT ![p] =
                 IF StalledPastAge(p) /\ seq[p] > floor[p] /\ delivered[p] >= MinDeliveries
                 THEN "spend" ELSE "rest"]
    /\ UNCHANGED <<now, durableVars, monitorVars, failing, budgetVars, seq, delivered,
                   failingFor, faults, historyVars>>

\* shouldQuarantine up to the budget, on one reading of the monitor.
Judge(p) ==
    /\ pc[p] = "judge"
    /\ judged' = [judged EXCEPT ![p] = floor[p]]
    /\ pc' = [pc EXCEPT ![p] =
                 IF /\ StalledPastAge(p)
                    /\ seq[p] > floor[p]
                    /\ delivered[p] >= MinDeliveries
                    /\ failingFor[p] >= FloorAge
                 THEN "spend" ELSE "rest"]
    /\ UNCHANGED <<now, durableVars, monitorVars, failing, budgetVars, seq, delivered,
                   failingFor, faults, historyVars>>

\* What the rest of Settle does to the durable and to the clocks: a terminal
\* branch captures and acknowledges, or fails to; otherwise the ladder has it.
Dispose(p, terminal) ==
    \/ /\ terminal
       /\ Acknowledge(seq[p])
       /\ failing' = [failing EXCEPT ![p] = @ \ ClockOf(@, seq[p])]
    \/ UNCHANGED <<acked, passedAt, failing>>

\* Mutant: the budget is per message, not per window.
BudgetPerMessage(p) == ~\E c \in claims : c.proc = p /\ c.seq = seq[p]

\* Settle returns, and its locals are gone.
Return(p) ==
    /\ pc' = [pc EXCEPT ![p] = "idle"]
    /\ seq' = [seq EXCEPT ![p] = 1]
    /\ delivered' = [delivered EXCEPT ![p] = 0]
    /\ failingFor' = [failingFor EXCEPT ![p] = 0]
    /\ judged' = [judged EXCEPT ![p] = 0]

BudgetLeft(p) == \/ p \notin haveQuarantined
                 \/ judged[p] # quarantinedFloor[p]
                 \/ now - quarantined[p] >= FloorAge

\* How long ago the durable released floor f.
Lag(f) == IF AckFloor <= f THEN 0 ELSE now - passedAt[f]

\* The floor the durable is at now has stood for a window, and so has a delivery past it.
Stuck ==
    /\ AckFloor < lastDelivered
    /\ firstAt[AckFloor + 1] + FloorAge <= now
    /\ AckFloor > 0 => passedAt[AckFloor - 1] + FloorAge <= now

\* How long s has failed without a success in between.
Burned(s) == IF failedSince[s] = NotFailing THEN 0 ELSE now - failedSince[s]

\* spendQuarantineBudgetLocked grants the claim.
Claims(p) ==
    LET s == seq[p] IN
    /\ pc[p] = "spend"
    /\ BudgetLeft(p)
    /\ haveQuarantined' = haveQuarantined \cup {p}
    /\ quarantined' = [quarantined EXCEPT ![p] = now]
    /\ quarantinedFloor' = [quarantinedFloor EXCEPT ![p] = judged[p]]
    /\ claims' = claims \cup {[proc |-> p, seq |-> s, n |-> delivered[p], at |-> now,
                               lag |-> Lag(judged[p]), stuck |-> Stuck, burned |-> Burned(s)]}
    /\ Dispose(p, Enforce \/ LadderSpent(delivered[p]))
    /\ Return(p)
    /\ UNCHANGED <<now, lastDelivered, count, monitorVars, faults, firstAt, failedSince>>

\* No claim: the budget is spent, or the conditions did not hold.
NoClaim(p) ==
    /\ pc[p] \in {"rest", "dead"} \/ (pc[p] = "spend" /\ ~BudgetLeft(p))
    /\ Dispose(p, pc[p] = "dead" \/ LadderSpent(delivered[p]))
    /\ Return(p)
    /\ UNCHANGED <<now, lastDelivered, count, monitorVars, budgetVars, faults, claims,
                   firstAt, failedSince>>

-----------------------------------------------------------------------------
\* A new process knows nothing: no stall, no clocks, no claim.
Restart(p) ==
    /\ faults < MaxFaults
    /\ faults' = faults + 1
    /\ stalled' = stalled \ {p}
    /\ polling' = polling \ {p}
    /\ floor' = [floor EXCEPT ![p] = 0]
    /\ loop' = [loop EXCEPT ![p] = "attached"]
    /\ failing' = [failing EXCEPT ![p] = {}]
    /\ haveQuarantined' = haveQuarantined \ {p}
    /\ floorSince' = [floorSince EXCEPT ![p] = 0]
    /\ reading' = [reading EXCEPT ![p] = NoReading]
    /\ quarantined' = [quarantined EXCEPT ![p] = 0]
    /\ quarantinedFloor' = [quarantinedFloor EXCEPT ![p] = 0]
    /\ Return(p)
    /\ UNCHANGED <<now, durableVars, polledAt, historyVars>>

\* Time passes between Settles; the poll's ticker and timeout are kept.
Tick ==
    /\ now < MaxTime
    /\ \A p \in Processes :
          /\ pc[p] = "idle" /\ loop[p] # "consuming"
          /\ loop[p] = "attached" =>
                now - polledAt[p] < IF p \in polling THEN PollTimeout ELSE PollInterval
    /\ now' = now + 1
    /\ UNCHANGED <<durableVars, monitorVars, failing, budgetVars, settleVars, faults,
                   historyVars>>

Next ==
    \/ Tick
    \/ \E p \in Processes :
          \/ PollStart(p) \/ ObserveFloor(p) \/ PollFails(p)
          \/ \E s \in Seqs : Fail(p, s) \/ Succeed(p, s)
          \/ Judge(p) \/ Claims(p) \/ NoClaim(p)
          \/ Restart(p) \/ LoopLost(p) \/ Consume(p) \/ Attach(p)

Spec == Init /\ [][Next]_vars

-----------------------------------------------------------------------------
(* Properties *)

Apart(c, d) == c.at + FloorAge <= d.at \/ d.at + FloorAge <= c.at

\* The budget: two claims of one process are a whole window apart, whatever the
\* floor does, whatever a poll misses, and across a restart that forgets the
\* budget (spendQuarantineBudgetLocked).
OneClaimPerWindow ==
    \A c, d \in claims : c # d /\ c.proc = d.proc => Apart(c, d)

\* The stall clock is late, never early, as long as the floor it runs for is
\* still the durable's: it started no earlier than the durable reached that floor
\* and delivered past it, so idle time is never counted (observeFloor).
StallClockNeverEarly ==
    \A p \in stalled :
        /\ floor[p] < lastDelivered
        /\ floor[p] > 0 => passedAt[floor[p] - 1] <= floorSince[p]
        /\ firstAt[floor[p] + 1] <= floorSince[p]

\* While consumer info is readable, a claim is made against a stall that the
\* durable left at most an interval and two requests ago, if at all: the request
\* that read the floor and the one under way that will replace it (pollFloor).
ClaimsAreFresh == \A c \in claims : c.lag <= PollInterval + 2 * PollTimeout

\* The consumer is genuinely stuck when a claim is made (shouldQuarantine's comment):
\* its floor has really stood for a window, or was left no longer ago than a poll
\* takes to tell.
ClaimsOnStuckConsumer ==
    \A c \in claims : c.stuck \/ c.lag <= PollInterval + 2 * PollTimeout

\* A claimed message had been failing, without a success in between, for the
\* whole window (noteFailure).
ClaimsBurnedTheWindow == \A c \in claims : c.burned >= FloorAge

\* The failure clocks are capped, and there is one per sequence (noteFailure,
\* sweepFailuresLocked).
FailureClocksBounded ==
    \A p \in Processes :
        /\ Cardinality(failing[p]) <= MaxTracked
        /\ \A r, q \in failing[p] : r.seq = q.seq => r = q
=============================================================================

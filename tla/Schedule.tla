------------------------------ MODULE Schedule ------------------------------
(***************************************************************************)
(* jsconsumer.Schedule: the arithmetic that accepts or rejects a retry     *)
(* schedule at NewRetry and Start, checked against what a message on an    *)
(* accepted schedule lives through.  A behaviour picks one accepted        *)
(* schedule and rides its ladder: the server redelivers when the lease of  *)
(* the last delivery expires, the handler fails at any moment of its       *)
(* lease, which its heartbeat may extend, a delivery may be lost, Settle   *)
(* quarantines or dead-letters, and the stream discards what is too old.   *)
(*                                                                         *)
(* Two clocks are not the ladder's: the stream counts from the publish,    *)
(* which backlog puts before the first delivery, and the breaker's stall   *)
(* counts from the poll that noticed it.                                   *)
(*                                                                         *)
(* Durations are signed integers up to MaxDuration.  The client-side       *)
(* ladder (NakDelay, Factor, MaxDelay) is left out: no Config produces one.*)
(***************************************************************************)
EXTENDS Integers, Sequences, FiniteSetsExt

CONSTANTS Rungs,          \* durations a BackOff entry, AckWait may take
          MaxRungs,       \* bound on len(BackOff)
          MaxDelivers,    \* values of MaxDeliver
          Reserves,       \* values of CaptureReserve, resolved
          Deliveries,     \* values of MinDeliveries and RecoverBy, resolved
          Bounds,         \* values of MaxTimeToDeadLetter and StreamMaxAge
          FloorAges,      \* values of FloorAge; 0 is no monitor
          Lags,           \* times from the publish to the first delivery
          PollLag,        \* bound on when the monitor notices a stall
          Extensions,     \* ages of a handler's last extension; 0 is no heartbeat
          MaxDuration     \* the largest time.Duration, a power of two less one

ASSUME ScheduleAssumption ==
    /\ MaxDuration \in Nat /\ Rungs \subseteq 1..MaxDuration
    /\ MaxRungs \in Nat
    /\ MaxDelivers \subseteq Int /\ Reserves \subseteq Nat /\ Deliveries \subseteq Nat \ {0}
    /\ Bounds \subseteq Nat /\ FloorAges \subseteq Nat
    /\ Lags \subseteq Nat /\ PollLag \in Nat /\ Extensions \subseteq Nat

VARIABLES sched,    \* the accepted schedule
          lag,      \* how long before its first delivery the message was published
          noticed,  \* when the monitor noticed the message pinning the floor; -1 if the
                    \* breaker is not one process's that sees this message alone:
                    \* other messages' stalls or claims, other or restarted
                    \* processes, polls that fail, BreakerObserve
          n,        \* deliveries so far
          at,       \* when delivery n arrived; the first one is at 0
          first,    \* when the message first failed, -1 before
          failed,   \* the last delivery that failed, 0 before (history)
          onTop,    \* time that is not scheduled waits (history)
          outcome   \* "riding" until it is disposed of

fixed == <<sched, lag, noticed>>
vars == <<sched, lag, noticed, n, at, first, failed, onTop, outcome>>

BackOffs == UNION {[1..k -> Rungs] : k \in 0..MaxRungs}

Schedules == [backOff : BackOffs, ackWait : Rungs, maxDeliver : MaxDelivers,
              reserve : Reserves, minDeliveries : Deliveries, recoverBy : Deliveries,
              maxTime : Bounds, maxAge : Bounds, floorAge : FloorAges]

-----------------------------------------------------------------------------
(* The arithmetic *)

\* A total plus a rung, as int64 addition leaves it: a rung is positive, so the
\* sum can leave the range only upwards and by less than its size.
Wrapped(x) == IF x > MaxDuration THEN x - 2 * (MaxDuration + 1) ELSE x

DeadLetterDelivery(s) == s.maxDeliver - s.reserve

\* The wait before delivery i: the server's ladder with its last rung repeated, or
\* AckWait when there is none.
RungBefore(s, i) ==
    CASE i < 2 -> 0
      [] i >= 2 /\ s.backOff # <<>> -> s.backOff[Min({i - 1, Len(s.backOff)})]
      [] OTHER -> s.ackWait

CumulativeTo(s, k) ==
    LET total[i \in Nat] == IF i < 2 THEN 0 ELSE Wrapped(total[i - 1] + RungBefore(s, i))
    IN  total[k]

TimeToDeadLetter(s) == CumulativeTo(s, DeadLetterDelivery(s))

LongestRung(s) == Max({0} \cup {RungBefore(s, i) : i \in 2..DeadLetterDelivery(s)})

\* Validate's structural checks: caps, reserve, rungs and AckWait.
Incoherent(s) ==
    \/ s.maxDeliver < -1
    \/ s.maxDeliver > 0 /\ s.reserve >= s.maxDeliver
    \/ s.maxDeliver > 0 /\ Len(s.backOff) > s.maxDeliver
    \/ s.backOff # <<>> /\ s.ackWait # s.backOff[1]

PastBound(s) == s.maxTime > 0 /\ TimeToDeadLetter(s) > s.maxTime

\* Mutant: retention may end with the ladder.
DiscardedAfterCapture(s) == s.maxAge > 0 /\ TimeToDeadLetter(s) > s.maxAge

\* The stream discards the message before it can be captured.
OutlivesStream(s) == s.maxAge > 0 /\ TimeToDeadLetter(s) >= s.maxAge

\* Mutant: recovery may take as long as the breaker's threshold.
RecoversAfterFloorAge(s) ==
    \/ s.recoverBy > DeadLetterDelivery(s)
    \/ s.floorAge > 0 /\ CumulativeTo(s, s.recoverBy) > s.floorAge

\* Recovery is expected after the ladder, or after the breaker may have acted.
RecoversTooLate(s) ==
    \/ s.recoverBy > DeadLetterDelivery(s)
    \/ s.floorAge > 0 /\ CumulativeTo(s, s.recoverBy) >= s.floorAge

\* Mutant: the threshold is compared with the ladder's length only.
LadderShortOfFloorAge(s) ==
    s.floorAge > 0 /\ TimeToDeadLetter(s) > 0 /\ s.floorAge > TimeToDeadLetter(s)

\* The ladder never reaches the threshold, or one rung outlasts it.
InertBreaker(s) ==
    /\ s.floorAge > 0
    /\ \/ TimeToDeadLetter(s) > 0 /\ s.floorAge > TimeToDeadLetter(s)
       \/ LongestRung(s) > s.floorAge

\* Whether Validate reports nothing; durations need a terminal delivery.
Coherent(s) ==
    /\ ~Incoherent(s)
    /\ s.maxDeliver > 0 /\ DeadLetterDelivery(s) >= 1 =>
          ~(PastBound(s) \/ OutlivesStream(s) \/ RecoversTooLate(s) \/ InertBreaker(s))

\* NewRetry's own checks.
NewRetry(s) == s.maxDeliver > 0 /\ s.minDeliveries <= DeadLetterDelivery(s)

\* What passes NewRetry, then Config.validate and checkAgainstStream.
Accepted == {s \in Schedules : NewRetry(s) /\ Coherent(s)}

-----------------------------------------------------------------------------
(* A message on the ladder *)

LadderSpent == n >= sched.maxDeliver - sched.reserve

\* The server's lease on delivery n (external).
Lease == IF sched.backOff = <<>> THEN sched.ackWait
         ELSE sched.backOff[IF n <= Len(sched.backOff) THEN n ELSE Len(sched.backOff)]

\* The stream still holds the message (external); its age counts from the publish.
Retained(t) == sched.maxAge = 0 \/ lag + t < sched.maxAge

TypeOK ==
    /\ sched \in Schedules /\ lag \in Nat /\ noticed \in -1..PollLag
    /\ n \in 1..sched.maxDeliver
    /\ at \in Nat /\ first \in Nat \cup {-1}
    /\ failed \in 0..n /\ onTop \in Nat
    /\ outcome \in {"riding", "quarantined", "exhausted", "discarded"}

Init ==
    /\ sched \in Accepted
    /\ lag \in Lags
    /\ noticed \in -1..PollLag
    /\ noticed # -1 => sched.floorAge > 0
    /\ n = 1 /\ at = 0 /\ first = -1 /\ failed = 0 /\ onTop = 0
    /\ outcome = "riding"
    /\ Retained(at)

\* The lease expires and the server redelivers what it still has, up to the cap.
Redeliver(wait) ==
    /\ n < sched.maxDeliver
    /\ \/ Retained(at + wait) /\ n' = n + 1 /\ at' = at + wait /\ UNCHANGED outcome
       \/ ~Retained(at + wait) /\ outcome' = "discarded" /\ UNCHANGED <<n, at>>

\* Delivery n reaches nobody, or dies with its process.  The wait for the next one
\* is a rung of the ladder, or comes on top once the ladder is spent.
Lost ==
    /\ outcome = "riding"
    /\ Redeliver(Lease)
    /\ onTop' = onTop + (IF LadderSpent THEN Lease ELSE 0)
    /\ UNCHANGED <<fixed, first, failed>>

\* What shouldQuarantine asks of a message that fails at t, first failed at since.
MayTrip(t, since) ==
    /\ sched.floorAge > 0
    /\ noticed # -1 => t - noticed >= sched.floorAge
    /\ n >= sched.minDeliveries
    /\ t - since >= sched.floorAge

\* Delivery n fails within its lease, last extended x after it arrived: Settle.  A
\* breaker that saw this message stall has its budget left and acts; one that saw
\* anything else may act or not, its stall as old as one likes.
Fails ==
    /\ outcome = "riding"
    /\ \E x \in Extensions : \E t \in (at + x)..(at + x + Lease) :
          LET since == IF first = -1 THEN t ELSE first
              trips == MayTrip(t, since)
          IN  /\ first' = since /\ failed' = n /\ onTop' = onTop + x
              /\ \/ trips /\ outcome' = "quarantined" /\ UNCHANGED <<n, at>>
                 \/ /\ trips => noticed = -1
                    /\ \/ LadderSpent /\ outcome' = "exhausted" /\ UNCHANGED <<n, at>>
                       \/ ~LadderSpent /\ Redeliver(x + Lease)
    /\ UNCHANGED fixed

Next == Lost \/ Fails
Spec == Init /\ [][Next]_vars

-----------------------------------------------------------------------------
(* Properties *)

\* A transient that clears by RecoverBy is never quarantined first, however long the
\* handler takes within its lease and whichever deliveries are lost (the RecoverBy
\* check of Validate).  A heartbeat lengthens the wait beyond what is checked.
RecoveryWindowIsSafe == outcome = "quarantined" /\ onTop = 0 => n >= sched.recoverBy

\* A ladder that is spent was spent within MaxTimeToDeadLetter and what the code says
\* sits on top of it, extensions and lost terminal deliveries; and the stream discards
\* nothing before its capture, unless backlog or the same time on top used up the margin.
DeadLetterInTime ==
    /\ outcome = "exhausted" /\ sched.maxTime > 0 => at <= sched.maxTime + onTop
    /\ outcome = "discarded" => lag + onTop > 0

\* A failing message that alone pins the floor keeps it pinned for FloorAge and a rung
\* no longer than that: once eligible, no delivery of its ladder starts later, counted
\* from its first failure or the monitor's notice, unless the ones between are lost
\* (the LongestRung check of Validate).
PinIsBounded ==
    outcome = "riding" /\ noticed # -1
    /\ failed >= sched.minDeliveries /\ n <= DeadLetterDelivery(sched) =>
        \E clock \in {first, noticed} : at < clock + (n - failed + 1) * sched.floorAge
=============================================================================

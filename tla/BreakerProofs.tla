--------------------------- MODULE BreakerProofs ---------------------------
(***************************************************************************)
(* The floor-age breaker, proved for any number of processes and           *)
(* sequences, any thresholds, any polls, lost loops and restarts.          *)
(*                                                                         *)
(* The budget: two claims of one process are at least FloorAge apart.  The *)
(* budget itself lets a claim through as soon as the floor differs from    *)
(* the last claim's.  What keeps such claims apart is the monitor: a floor *)
(* other than the last claim's was first observed after that claim, so its *)
(* stall cannot be FloorAge old before a whole window has passed.          *)
(*                                                                         *)
(* Then the types, the stall clock (never older than the floor it is for), *)
(* the cap of the failure clocks, and, each under the assumption the code  *)
(* needs for it, the age of what a claim was decided on and that the       *)
(* message failed for a whole window.                                      *)
(***************************************************************************)
EXTENDS Breaker, FiniteSetTheorems, WellFoundedInduction, TLAPS

\* The types the clocks need.
ClockTypes ==
    /\ now \in Nat
    /\ floorSince \in [Processes -> Nat]
    /\ quarantined \in [Processes -> Nat]
    /\ DOMAIN floor = Processes
    /\ DOMAIN judged = Processes
    /\ DOMAIN quarantinedFloor = Processes
    /\ DOMAIN pc = Processes
    /\ \A c \in claims : c.at \in Nat

\* A stall at another floor than the last claim's began after that claim.
StallAfterClaim(p) ==
    /\ p \in stalled => floorSince[p] <= now
    /\ p \in haveQuarantined => quarantined[p] <= now
    /\ p \in haveQuarantined /\ p \in stalled /\ floor[p] # quarantinedFloor[p]
          => quarantined[p] <= floorSince[p]

\* A Settle that got past the stall did so in this tick: the floor it was judged
\* against is still the monitor's or was left just now, and if it is not the last
\* claim's then a window has passed.
VerdictIsFresh(p) ==
    pc[p] = "spend" =>
        /\ p \in stalled /\ floor[p] # judged[p] => floorSince[p] = now
        /\ p \in haveQuarantined /\ judged[p] # quarantinedFloor[p]
              => quarantined[p] + FloorAge <= now

\* The last claim is remembered; a restart forgets it, and the stall with it.
ClaimIsPast(p) ==
    \A c \in claims : c.proc = p =>
        /\ c.at <= now
        /\ p \in haveQuarantined => c.at <= quarantined[p]
        /\ p \notin haveQuarantined /\ p \in stalled => c.at <= floorSince[p]
        /\ p \notin haveQuarantined /\ pc[p] = "spend" => c.at + FloorAge <= now

WindowInv ==
    /\ ClockTypes
    /\ \A p \in Processes : StallAfterClaim(p) /\ VerdictIsFresh(p) /\ ClaimIsPast(p)
    /\ \A c \in claims : c.proc \in Processes
    /\ OneClaimPerWindow

\* A claim is made only a whole window after every earlier one.
LEMMA ClaimWaits ==
    ASSUME WindowInv, NEW p \in Processes, Claims(p), NEW c \in claims, c.proc = p
    PROVE  c.at + FloorAge <= now
<1>1. /\ c.at \in Nat /\ now \in Nat /\ quarantined[p] \in Nat /\ FloorAge \in Nat
      /\ pc[p] = "spend" /\ BudgetLeft(p)
      /\ VerdictIsFresh(p) /\ ClaimIsPast(p)
  BY BreakerAssumption DEF WindowInv, ClockTypes, Claims
<1>2. CASE p \notin haveQuarantined
  BY <1>1, <1>2 DEF ClaimIsPast
<1>3. CASE p \in haveQuarantined /\ judged[p] # quarantinedFloor[p]
  BY <1>1, <1>3 DEF ClaimIsPast, VerdictIsFresh
<1>4. CASE p \in haveQuarantined /\ now - quarantined[p] >= FloorAge
  BY <1>1, <1>4 DEF ClaimIsPast
<1> QED
  BY <1>1, <1>2, <1>3, <1>4 DEF BudgetLeft

LEMMA WindowStep == WindowInv /\ [Next]_vars => WindowInv'
<1> SUFFICES ASSUME WindowInv, [Next]_vars PROVE WindowInv'
  OBVIOUS
<1> USE BreakerAssumption DEF WindowInv, ClockTypes
<1>1. ASSUME now' = now, UNCHANGED <<stalled, floor, floorSince, budgetVars, claims>>,
             DOMAIN pc' = Processes, DOMAIN judged' = Processes,
             \A p \in Processes : pc'[p] # "spend" \/ (pc'[p] = pc[p] /\ judged'[p] = judged[p])
      PROVE  WindowInv'
  BY <1>1 DEF budgetVars, StallAfterClaim, VerdictIsFresh, ClaimIsPast, OneClaimPerWindow, Apart
<1>2. CASE UNCHANGED vars
  BY <1>1, <1>2 DEF vars, monitorVars, settleVars, historyVars
<1>3. CASE Tick
  <2>1. /\ now' = now + 1 /\ \A p \in Processes : pc[p] = "idle"
        /\ UNCHANGED <<monitorVars, budgetVars, settleVars, claims>>
    BY <1>3 DEF Tick, historyVars
  <2>2. OneClaimPerWindow'
    BY <2>1 DEF OneClaimPerWindow, Apart
  <2> QED
    BY <2>1, <2>2 DEF monitorVars, budgetVars, settleVars, StallAfterClaim, VerdictIsFresh,
                      ClaimIsPast
<1>4. ASSUME NEW p \in Processes, PollStart(p) \/ PollFails(p) PROVE WindowInv'
  BY <1>1, <1>4 DEF PollStart, PollFails, settleVars, historyVars
<1>5. ASSUME NEW p \in Processes, ObserveFloor(p) PROVE WindowInv'
  <2>1. /\ now' = now /\ UNCHANGED <<budgetVars, settleVars, claims>>
        /\ DOMAIN floor' = Processes /\ floorSince' \in [Processes -> Nat]
        /\ \A q \in Processes \ {p} :
              floor'[q] = floor[q] /\ floorSince'[q] = floorSince[q]
                 /\ (q \in stalled' <=> q \in stalled)
        /\ \/ p \notin stalled'
           \/ p \in stalled /\ floor'[p] = floor[p] /\ floorSince'[p] = floorSince[p]
           \/ floorSince'[p] = now
    BY <1>5 DEF ObserveFloor, historyVars
  <2>2. OneClaimPerWindow'
    BY <2>1 DEF OneClaimPerWindow, Apart
  <2>3. ASSUME NEW q \in Processes PROVE (StallAfterClaim(q) /\ VerdictIsFresh(q) /\ ClaimIsPast(q))'
    BY <2>1 DEF budgetVars, settleVars, StallAfterClaim, VerdictIsFresh, ClaimIsPast
  <2> QED
    BY <2>1, <2>2, <2>3 DEF budgetVars, settleVars
<1>6. ASSUME NEW p \in Processes, NEW s \in Seqs, Fail(p, s) \/ Succeed(p, s)
      PROVE  WindowInv'
  <2>1. CASE Fail(p, s)
    <3>1. PICK next \in {"judge", "dead"} : pc' = [pc EXCEPT ![p] = next]
      BY <2>1 DEF Fail
    <3> QED
      BY <1>1, <2>1, <3>1 DEF Fail, monitorVars
  <2>2. CASE Succeed(p, s)
    BY <1>1, <2>2 DEF Succeed, monitorVars, settleVars
  <2> QED
    BY <1>6, <2>1, <2>2
<1>7. ASSUME NEW p \in Processes, Judge(p) PROVE WindowInv'
  <2>1. /\ now' = now /\ UNCHANGED <<monitorVars, budgetVars, claims>>
        /\ judged' = [judged EXCEPT ![p] = floor[p]]
        /\ \A q \in Processes \ {p} : pc'[q] = pc[q]
        /\ DOMAIN pc' = Processes
        /\ pc'[p] = "spend" => StalledPastAge(p)
    BY <1>7 DEF Judge, historyVars
  <2>2. OneClaimPerWindow'
    BY <2>1 DEF OneClaimPerWindow, Apart
  <2>3. ASSUME NEW q \in Processes PROVE (StallAfterClaim(q) /\ VerdictIsFresh(q) /\ ClaimIsPast(q))'
    <3>1. CASE q # p
      BY <2>1, <3>1 DEF monitorVars, budgetVars, StallAfterClaim, VerdictIsFresh, ClaimIsPast
    <3>2. CASE q = p
      BY <2>1, <3>2 DEF monitorVars, budgetVars, StallAfterClaim, VerdictIsFresh, ClaimIsPast,
                        StalledPastAge
    <3> QED
      BY <3>1, <3>2
  <2> QED
    BY <2>1, <2>2, <2>3 DEF monitorVars, budgetVars
<1>8. ASSUME NEW p \in Processes, Claims(p) PROVE WindowInv'
  <2> DEFINE k == [proc |-> p, seq |-> seq[p], n |-> delivered[p], at |-> now,
                   lag |-> Lag(judged[p]), stuck |-> Stuck, burned |-> Burned(seq[p])]
  <2>1. claims' = claims \cup {k} /\ k.at = now /\ k.proc = p
    BY <1>8 DEF Claims
  <2> HIDE DEF k
  <2>2. /\ now' = now /\ UNCHANGED monitorVars
        /\ haveQuarantined' = haveQuarantined \cup {p}
        /\ quarantined' = [quarantined EXCEPT ![p] = now]
        /\ quarantinedFloor' = [quarantinedFloor EXCEPT ![p] = judged[p]]
        /\ pc[p] = "spend" /\ pc' = [pc EXCEPT ![p] = "idle"]
        /\ judged' = [judged EXCEPT ![p] = 0]
    BY <1>8 DEF Claims, Return
  <2>3. OneClaimPerWindow'
    <3>1. \A c \in claims : c.proc = p => c.at + FloorAge <= now
      BY <1>8, ClaimWaits
    <3> QED
      BY <2>1, <3>1 DEF OneClaimPerWindow, Apart
  <2>4. ASSUME NEW q \in Processes PROVE (StallAfterClaim(q) /\ VerdictIsFresh(q) /\ ClaimIsPast(q))'
    <3>1. CASE q # p
      BY <2>1, <2>2, <3>1 DEF monitorVars, StallAfterClaim, VerdictIsFresh, ClaimIsPast
    <3>2. CASE q = p
      BY <2>1, <2>2, <3>2 DEF monitorVars, StallAfterClaim, VerdictIsFresh, ClaimIsPast
    <3> QED
      BY <3>1, <3>2
  <2> QED
    BY <2>1, <2>2, <2>3, <2>4 DEF monitorVars
<1>9. ASSUME NEW p \in Processes, NoClaim(p) PROVE WindowInv'
  BY <1>1, <1>9 DEF NoClaim, Return, monitorVars
<1>10. ASSUME NEW p \in Processes, Restart(p) PROVE WindowInv'
  <2>1. /\ now' = now /\ claims' = claims
        /\ stalled' = stalled \ {p} /\ haveQuarantined' = haveQuarantined \ {p}
        /\ floor' = [floor EXCEPT ![p] = 0]
        /\ floorSince' = [floorSince EXCEPT ![p] = 0]
        /\ quarantined' = [quarantined EXCEPT ![p] = 0]
        /\ quarantinedFloor' = [quarantinedFloor EXCEPT ![p] = 0]
        /\ pc' = [pc EXCEPT ![p] = "idle"]
        /\ judged' = [judged EXCEPT ![p] = 0]
    BY <1>10 DEF Restart, Return, historyVars
  <2>2. OneClaimPerWindow'
    BY <2>1 DEF OneClaimPerWindow, Apart
  <2>3. ASSUME NEW q \in Processes PROVE (StallAfterClaim(q) /\ VerdictIsFresh(q) /\ ClaimIsPast(q))'
    BY <2>1 DEF StallAfterClaim, VerdictIsFresh, ClaimIsPast
  <2> QED
    BY <2>1, <2>2, <2>3
<1>11. ASSUME NEW p \in Processes, LoopLost(p) \/ Consume(p) \/ Attach(p) PROVE WindowInv'
  BY <1>1, <1>11 DEF LoopLost, Consume, Attach, settleVars, historyVars
<1> QED
  BY <1>2, <1>3, <1>4, <1>5, <1>6, <1>7, <1>8, <1>9, <1>10, <1>11 DEF Next

\* The breaker claims at most one message per process and window, whatever the
\* polls report and however often the loop is lost or the process restarts.
THEOREM BudgetHolds == Spec => []OneClaimPerWindow
<1>1. Init => WindowInv
  BY DEF Init, WindowInv, ClockTypes, StallAfterClaim, VerdictIsFresh, ClaimIsPast,
         OneClaimPerWindow
<1>2. WindowInv => OneClaimPerWindow
  BY DEF WindowInv
<1> QED
  BY <1>1, <1>2, WindowStep, PTL DEF Spec
-----------------------------------------------------------------------------
(* The ack floor as an operator. *)

\* A set of naturals with an element has a least one.
LEMMA Least ==
    ASSUME NEW T, T \subseteq Nat, T # {}
    PROVE  \E x \in T : \A y \in T : x <= y
<1>1. PICK R : IsWellFoundedOn(R, Nat) /\ \A x, y \in Nat : <<y, x>> \in R <=> y < x
  <2> DEFINE R == OpToRel(<, Nat)
  <2>1. IsWellFoundedOn(R, Nat)
    BY NatLessThanWellFounded
  <2>2. \A x, y \in Nat : <<y, x>> \in R <=> y < x
    BY DEF OpToRel
  <2> QED
    BY <2>1, <2>2, Zenon
<1>2. PICK x \in T : \A y \in T : ~(<<y, x>> \in R)
  BY <1>1, WFMin
<1>3. \A y \in T : ~(y < x)
  BY <1>1, <1>2, Zenon
<1> QED
  BY <1>3

\* The floor is the end of the settled prefix, and no floor beyond it is one.
LEMMA FloorFacts ==
    ASSUME NEW settled
    PROVE  /\ FloorOf(settled) \in 0..MaxSeq
           /\ 1..FloorOf(settled) \subseteq settled
           /\ \A f \in 0..MaxSeq : 1..f \subseteq settled => f <= FloorOf(settled)
<1> DEFINE T == {f \in 0..MaxSeq : 1..f \subseteq settled}
           U == {n \in Nat : n <= MaxSeq /\ MaxSeq - n \in T}
<1>1. MaxSeq \in Nat
  BY BreakerAssumption
<1>2. MaxSeq \in U
  <2>1. 0 \in T
    BY <1>1
  <2> QED
    BY <1>1, <2>1
<1>3. PICK n \in U : \A m \in U : n <= m
  BY <1>2, Least
<1>4. MaxSeq - n \in T
  OBVIOUS
<1>5. ASSUME NEW f \in T PROVE MaxSeq - n >= f
  <2>1. MaxSeq - (MaxSeq - f) = f /\ MaxSeq - f \in Nat /\ MaxSeq - f <= MaxSeq
    BY <1>1
  <2>2. MaxSeq - f \in U
    BY <2>1
  <2> QED
    BY <1>1, <1>3, <2>2
<1>6. Max(T) \in T /\ \A f \in T : Max(T) >= f
  BY <1>4, <1>5 DEF Max
<1> QED
  BY <1>1, <1>6 DEF FloorOf

\* Acknowledgements only move the floor up.
LEMMA FloorGrows ==
    ASSUME NEW settled, NEW more, settled \subseteq more
    PROVE  FloorOf(settled) <= FloorOf(more)
  BY FloorFacts

-----------------------------------------------------------------------------
(* Types.  TypeOK is not inductive alone: an age is a time only if the clock it *)
(* is read from started in the past, and a claim's delivery is counted.         *)

DurableTypes ==
    /\ now \in Time
    /\ acked \subseteq Seqs /\ lastDelivered \in 0..MaxSeq
    /\ count \in [Seqs -> 0..MaxDeliver]

MonitorTypes ==
    /\ stalled \subseteq Processes /\ polling \subseteq Processes
    /\ floor \in [Processes -> 0..MaxSeq]
    /\ floorSince \in [Processes -> Time] /\ polledAt \in [Processes -> Time]
    /\ reading \in [Processes -> Reading]
    /\ loop \in [Processes -> {"down", "consuming", "attached"}]
    /\ faults \in 0..MaxFaults

BudgetTypes ==
    /\ haveQuarantined \subseteq Processes
    /\ quarantined \in [Processes -> Time]
    /\ quarantinedFloor \in [Processes -> 0..MaxSeq]

SettleTypes ==
    /\ failing \in [Processes -> SUBSET FailureRecord]
    /\ pc \in [Processes -> {"idle", "judge", "spend", "rest", "dead"}]
    /\ seq \in [Processes -> Seqs] /\ delivered \in [Processes -> 0..MaxDeliver]
    /\ failingFor \in [Processes -> Time]
    /\ judged \in [Processes -> 0..MaxSeq]

HistoryTypes ==
    /\ claims \subseteq Claim
    /\ passedAt \in [0..MaxSeq -> Time] /\ firstAt \in [Seqs -> Time]
    /\ failedSince \in [Seqs -> Time \cup {NotFailing}]

\* No clock is ahead of time.
StreamClocksPast ==
    /\ \A f \in 0..MaxSeq : passedAt[f] <= now
    /\ \A s \in Seqs : firstAt[s] <= now /\ (failedSince[s] # NotFailing => failedSince[s] <= now)
FailureClocksPast == \A p \in Processes : \A r \in failing[p] : r.first <= now

\* A verdict that reached the budget was given on a counted delivery.
SpendIsCounted == \A p \in Processes : pc[p] = "spend" => delivered[p] # 0

Typed ==
    /\ DurableTypes /\ MonitorTypes /\ BudgetTypes /\ SettleTypes /\ HistoryTypes
    /\ StreamClocksPast /\ FailureClocksPast /\ SpendIsCounted

LEMMA MaxOfTwo ==
    ASSUME NEW a \in Int, NEW b \in Int
    PROVE  Max({a, b}) = IF a >= b THEN a ELSE b
  BY DEF Max

LEMMA DurableStep == Typed /\ [Next]_vars => DurableTypes'
<1> SUFFICES ASSUME Typed, [Next]_vars PROVE DurableTypes'
  OBVIOUS
<1> USE BreakerAssumption
<1>1. DurableTypes /\ SettleTypes
  BY DEF Typed
<1>2. CASE UNCHANGED <<now, durableVars>>
  BY <1>1, <1>2 DEF DurableTypes, durableVars
<1>3. CASE Tick
  BY <1>1, <1>3 DEF Tick, DurableTypes, durableVars, Time
<1>4. ASSUME NEW p \in Processes, NEW s \in Seqs, Fail(p, s) \/ Succeed(p, s)
      PROVE  DurableTypes'
  <2>1. /\ now' = now /\ Deliver(p, s)
        /\ acked' = acked \/ acked' = acked \cup {s}
    BY <1>4 DEF Fail, Succeed, Acknowledge
  <2>2. count' \in [Seqs -> 0..MaxDeliver]
    BY <1>1, <2>1 DEF DurableTypes, Deliver
  <2>3. lastDelivered' \in 0..MaxSeq
    <3>1. lastDelivered \in 0..MaxSeq /\ s \in 0..MaxSeq /\ lastDelivered' = Max({lastDelivered, s})
      BY <1>1, <2>1 DEF DurableTypes, Deliver, Seqs
    <3>2. lastDelivered' = IF lastDelivered >= s THEN lastDelivered ELSE s
      BY <3>1, MaxOfTwo
    <3> QED
      BY <3>1, <3>2
  <2> QED
    BY <1>1, <2>1, <2>2, <2>3 DEF DurableTypes
<1>5. ASSUME NEW p \in Processes, Claims(p) \/ NoClaim(p) PROVE DurableTypes'
  <2>1. /\ now' = now /\ UNCHANGED <<lastDelivered, count>>
        /\ acked' = acked \/ acked' = acked \cup {seq[p]}
    BY <1>5 DEF Claims, NoClaim, Dispose, Acknowledge
  <2> QED
    BY <1>1, <2>1 DEF DurableTypes, SettleTypes
<1> QED
  BY <1>2, <1>3, <1>4, <1>5
     DEF Next, vars, PollStart, ObserveFloor, PollFails, Judge, Restart, LoopLost, Consume, Attach

LEMMA MonitorStep == Typed /\ [Next]_vars => MonitorTypes'
<1> SUFFICES ASSUME Typed, [Next]_vars PROVE MonitorTypes'
  OBVIOUS
<1> USE BreakerAssumption
<1>1. MonitorTypes /\ now \in Time /\ lastDelivered \in 0..MaxSeq /\ AckFloor \in 0..MaxSeq
  BY FloorFacts DEF Typed, DurableTypes, AckFloor
<1>2. NoReading \in Reading /\ [floor |-> AckFloor, delivered |-> lastDelivered] \in Reading
  BY <1>1 DEF NoReading, Reading
<1>3. CASE UNCHANGED <<monitorVars, faults>>
  BY <1>1, <1>3 DEF MonitorTypes, monitorVars
<1>4. ASSUME NEW p \in Processes, PollStart(p) \/ Attach(p) PROVE MonitorTypes'
  BY <1>1, <1>2, <1>4 DEF PollStart, Attach, Ask, MonitorTypes
<1>5. ASSUME NEW p \in Processes, ObserveFloor(p) PROVE MonitorTypes'
  <2>1. floor' \in [Processes -> 0..MaxSeq]
    BY <1>1, <1>5 DEF ObserveFloor, MonitorTypes, Reading
  <2>2. floorSince' \in [Processes -> Time] /\ stalled' \subseteq Processes
    BY <1>1, <1>5 DEF ObserveFloor, MonitorTypes
  <2> QED
    BY <1>1, <1>2, <1>5, <2>1, <2>2 DEF ObserveFloor, Answered, MonitorTypes
<1>6. ASSUME NEW p \in Processes, PollFails(p) PROVE MonitorTypes'
  BY <1>1, <1>2, <1>6 DEF PollFails, Answered, MonitorTypes
<1>7. ASSUME NEW p \in Processes, LoopLost(p) \/ Consume(p) PROVE MonitorTypes'
  BY <1>1, <1>2, <1>7 DEF LoopLost, Consume, MonitorTypes
<1>8. ASSUME NEW p \in Processes, Restart(p) PROVE MonitorTypes'
  BY <1>1, <1>2, <1>8 DEF Restart, MonitorTypes, Time
<1> QED
  BY <1>3, <1>4, <1>5, <1>6, <1>7, <1>8
     DEF Next, vars, Tick, Fail, Succeed, Judge, Claims, NoClaim

LEMMA BudgetStep == Typed /\ [Next]_vars => BudgetTypes'
<1> SUFFICES ASSUME Typed, [Next]_vars PROVE BudgetTypes'
  OBVIOUS
<1>1. BudgetTypes /\ now \in Time /\ judged \in [Processes -> 0..MaxSeq]
  BY DEF Typed, DurableTypes, SettleTypes
<1>2. CASE UNCHANGED budgetVars
  BY <1>1, <1>2 DEF BudgetTypes, budgetVars
<1>3. ASSUME NEW p \in Processes, Claims(p) PROVE BudgetTypes'
  BY <1>1, <1>3 DEF Claims, BudgetTypes
<1>4. ASSUME NEW p \in Processes, Restart(p) PROVE BudgetTypes'
  BY <1>1, <1>4, BreakerAssumption DEF Restart, BudgetTypes, Time
<1> QED
  BY <1>2, <1>3, <1>4
     DEF Next, vars, Tick, Fail, Succeed, Judge, NoClaim, PollStart, ObserveFloor, PollFails,
         LoopLost, Consume, Attach

\* What noteFailure leaves: the clock of s, started now or by an earlier failure,
\* beside the other clocks, all of them or those the sweep keeps.
Noted(p, s, first) ==
    (failing[p] \ ClockOf(failing[p], s)) \cup {[seq |-> s, first |-> first, last |-> now]}

LEMMA NoteFacts ==
    ASSUME Typed, NEW p \in Processes, NEW s \in Seqs, NoteFailure(p, s)
    PROVE  \E first \in Time, kept \in SUBSET FailureRecord :
              /\ kept \subseteq Noted(p, s, first)
              /\ first <= now
              /\ \/ first = now
                 \/ \E r \in failing[p] : r.seq = s /\ r.first = first
              /\ failing' = [failing EXCEPT ![p] = kept]
              /\ failingFor' = [failingFor EXCEPT ![p] = now - first]
              /\ \/ kept = Noted(p, s, first) /\ ~(Cardinality(kept) > MaxTracked)
                 \/ Cardinality(kept) <= (MaxTracked * 3) \div 4
<1> USE BreakerAssumption
<1> DEFINE seen == ClockOf(failing[p], s)
           first == IF seen = {} THEN now ELSE (CHOOSE r \in seen : TRUE).first
           noted == (failing[p] \ seen) \cup {[seq |-> s, first |-> first, last |-> now]}
<1>1. now \in Time /\ failing[p] \subseteq FailureRecord /\ \A r \in failing[p] : r.first <= now
  BY DEF Typed, DurableTypes, SettleTypes, FailureClocksPast
<1>2. /\ first \in Time /\ first <= now
      /\ first = now \/ \E r \in failing[p] : r.seq = s /\ r.first = first
  <2>1. CASE seen = {}
    BY <1>1, <2>1 DEF Time
  <2>2. CASE seen # {}
    <3>1. PICK r \in seen : r = CHOOSE q \in seen : TRUE
      BY <2>2
    <3>2. first = r.first /\ r \in failing[p] /\ r.seq = s
      BY <2>2, <3>1 DEF ClockOf
    <3> QED
      BY <1>1, <3>2 DEF FailureRecord
  <2> QED
    BY <2>1, <2>2
<1>3. /\ \E kept \in (IF Cardinality(noted) > MaxTracked THEN SweptTo(noted) ELSE {noted}) :
            failing' = [failing EXCEPT ![p] = kept]
      /\ failingFor' = [failingFor EXCEPT ![p] = now - first]
  BY DEF NoteFailure
<1> HIDE DEF first
<1>4. noted = Noted(p, s, first)
  BY DEF Noted
<1>5. PICK kept \in (IF Cardinality(noted) > MaxTracked THEN SweptTo(noted) ELSE {noted}) :
            failing' = [failing EXCEPT ![p] = kept]
  BY <1>3
<1> HIDE DEF noted
<1>6. \/ kept = noted /\ ~(Cardinality(noted) > MaxTracked)
      \/ kept \subseteq noted /\ Cardinality(kept) <= (MaxTracked * 3) \div 4
  <2>1. CASE Cardinality(noted) > MaxTracked
    <3> DEFINE fresh == {r \in noted : now - r.last <= FailureTTL}
               target == (MaxTracked * 3) \div 4
    <3>1. fresh \subseteq noted /\ target \in Nat
      OBVIOUS
    <3>2. kept \in (IF Cardinality(fresh) <= target THEN {fresh}
                    ELSE {k \in SUBSET fresh :
                             /\ Cardinality(k) = target
                             /\ \A e \in k, d \in fresh \ k : d.last <= e.last})
      BY <1>5, <2>1 DEF SweptTo
    <3> HIDE DEF fresh, target
    <3>3. \/ kept = fresh /\ Cardinality(fresh) <= target
          \/ kept \subseteq fresh /\ Cardinality(kept) = target
      BY <3>2
    <3>4. kept \subseteq noted /\ Cardinality(kept) <= target
      BY <3>1, <3>3
    <3> QED
      BY <3>4 DEF target
  <2> QED
    BY <1>5, <2>1
<1>7. kept \subseteq noted /\ noted \subseteq FailureRecord
  BY <1>1, <1>2, <1>4, <1>6 DEF Noted, FailureRecord
<1> QED
  BY <1>2, <1>3, <1>4, <1>5, <1>6, <1>7

LEMMA SettleStep == Typed /\ [Next]_vars => SettleTypes' /\ FailureClocksPast' /\ SpendIsCounted'
<1> SUFFICES ASSUME Typed, [Next]_vars
             PROVE  SettleTypes' /\ FailureClocksPast' /\ SpendIsCounted'
  OBVIOUS
<1> USE BreakerAssumption
<1>1. /\ SettleTypes /\ FailureClocksPast /\ SpendIsCounted
      /\ now \in Time /\ 0 \in Time /\ count \in [Seqs -> 0..MaxDeliver]
      /\ floor \in [Processes -> 0..MaxSeq]
  BY DEF Typed, DurableTypes, MonitorTypes, Time
<1>2. CASE now' = now /\ UNCHANGED <<failing, settleVars>>
  BY <1>1, <1>2 DEF SettleTypes, settleVars, FailureClocksPast, SpendIsCounted
<1>3. CASE Tick
  <2>1. now' = now + 1 /\ UNCHANGED <<failing, settleVars>>
    BY <1>3 DEF Tick
  <2>2. \A p \in Processes : \A r \in failing[p] : r.first \in Time /\ r.first <= now
    BY <1>1 DEF SettleTypes, FailureClocksPast, FailureRecord
  <2>3. FailureClocksPast'
    BY <1>1, <2>1, <2>2 DEF FailureClocksPast, Time
  <2> QED
    BY <1>1, <2>1, <2>3 DEF SettleTypes, settleVars, SpendIsCounted
<1>4. ASSUME NEW p \in Processes, NEW s \in Seqs, Fail(p, s)
      PROVE  SettleTypes' /\ FailureClocksPast' /\ SpendIsCounted'
  <2>1. /\ now' = now /\ NoteFailure(p, s) /\ count[s] < MaxDeliver
        /\ seq' = [seq EXCEPT ![p] = s]
        /\ delivered' = [delivered EXCEPT ![p] = count[s] + 1]
        /\ \E next \in {"judge", "dead"} : pc' = [pc EXCEPT ![p] = next]
        /\ judged' = judged
    BY <1>4 DEF Fail, Deliver
  <2>2. PICK first \in Time, kept \in SUBSET FailureRecord :
              /\ kept \subseteq Noted(p, s, first) /\ first <= now
              /\ failing' = [failing EXCEPT ![p] = kept]
              /\ failingFor' = [failingFor EXCEPT ![p] = now - first]
    BY <2>1, NoteFacts
  <2>4. \A r \in Noted(p, s, first) : r.first <= now
    BY <1>1, <2>2 DEF Noted, FailureClocksPast
  <2>5. failing' \in [Processes -> SUBSET FailureRecord]
    BY <1>1, <2>2 DEF SettleTypes
  <2>6. FailureClocksPast'
    BY <1>1, <2>1, <2>2, <2>4 DEF SettleTypes, FailureClocksPast
  <2>7. failingFor' \in [Processes -> Time]
    BY <1>1, <2>2 DEF SettleTypes, Time
  <2>8. delivered' \in [Processes -> 0..MaxDeliver]
    BY <1>1, <2>1 DEF SettleTypes
  <2>9. pc' \in [Processes -> {"idle", "judge", "spend", "rest", "dead"}] /\ SpendIsCounted'
    BY <1>1, <2>1 DEF SettleTypes, SpendIsCounted
  <2> QED
    BY <1>1, <2>1, <2>5, <2>6, <2>7, <2>8, <2>9 DEF SettleTypes
<1>5. ASSUME NEW p \in Processes, Judge(p)
      PROVE  SettleTypes' /\ FailureClocksPast' /\ SpendIsCounted'
  <2>1. /\ UNCHANGED <<now, failing, seq, delivered, failingFor>>
        /\ judged' = [judged EXCEPT ![p] = floor[p]]
        /\ \E next \in {"spend", "rest"} :
              /\ pc' = [pc EXCEPT ![p] = next]
              /\ next = "spend" => delivered[p] >= MinDeliveries
    BY <1>5 DEF Judge
  <2>2. PICK next \in {"spend", "rest"} :
              /\ pc' = [pc EXCEPT ![p] = next]
              /\ next = "spend" => delivered[p] >= MinDeliveries
    BY <2>1
  <2>3. SpendIsCounted'
    BY <1>1, <2>1, <2>2 DEF SettleTypes, SpendIsCounted
  <2> QED
    BY <1>1, <2>1, <2>2, <2>3 DEF SettleTypes, FailureClocksPast
<1>6. ASSUME NEW p \in Processes, Claims(p) \/ NoClaim(p) \/ Restart(p)
      PROVE  SettleTypes' /\ FailureClocksPast' /\ SpendIsCounted'
  <2>1. now' = now /\ Return(p)
    BY <1>6 DEF Claims, NoClaim, Restart
  <2>2. PICK kept \in SUBSET failing[p] : failing' = [failing EXCEPT ![p] = kept]
    <3>1. CASE failing' = failing
      BY <1>1, <3>1 DEF SettleTypes
    <3>2. CASE failing' = [failing EXCEPT ![p] = @ \ ClockOf(@, seq[p])]
      BY <3>2
    <3>3. CASE failing' = [failing EXCEPT ![p] = {}]
      BY <3>3
    <3> QED
      BY <1>6, <3>1, <3>2, <3>3 DEF Claims, NoClaim, Dispose, Restart
  <2>3. 1 \in Seqs
    BY DEF Seqs
  <2>4. failing' \in [Processes -> SUBSET FailureRecord] /\ FailureClocksPast'
    BY <1>1, <2>1, <2>2 DEF SettleTypes, FailureClocksPast
  <2>5. SpendIsCounted'
    BY <1>1, <2>1 DEF Return, SettleTypes, SpendIsCounted
  <2>6. /\ pc' \in [Processes -> {"idle", "judge", "spend", "rest", "dead"}]
        /\ seq' \in [Processes -> Seqs] /\ failingFor' \in [Processes -> Time]
    BY <1>1, <2>1, <2>3 DEF Return, SettleTypes
  <2>7. delivered' \in [Processes -> 0..MaxDeliver] /\ judged' \in [Processes -> 0..MaxSeq]
    BY <1>1, <2>1 DEF Return, SettleTypes
  <2> QED
    BY <2>4, <2>5, <2>6, <2>7 DEF SettleTypes
<1> QED
  BY <1>2, <1>3, <1>4, <1>5, <1>6
     DEF Next, vars, Succeed, PollStart, ObserveFloor, PollFails, LoopLost, Consume, Attach

LEMMA HistoryStep == Typed /\ [Next]_vars => HistoryTypes' /\ StreamClocksPast'
<1> SUFFICES ASSUME Typed, [Next]_vars PROVE HistoryTypes' /\ StreamClocksPast'
  OBVIOUS
<1> USE BreakerAssumption
<1>1. /\ HistoryTypes /\ StreamClocksPast /\ now \in Time
      /\ seq \in [Processes -> Seqs] /\ delivered \in [Processes -> 0..MaxDeliver]
      /\ judged \in [Processes -> 0..MaxSeq] /\ SpendIsCounted
  BY DEF Typed, DurableTypes, SettleTypes
<1>2. CASE now' = now /\ UNCHANGED historyVars
  BY <1>1, <1>2 DEF HistoryTypes, StreamClocksPast, historyVars
<1>3. CASE Tick
  <2>1. now' = now + 1 /\ UNCHANGED historyVars
    BY <1>3 DEF Tick
  <2> QED
    BY <1>1, <2>1 DEF HistoryTypes, StreamClocksPast, historyVars, Time
<1>4. ASSUME NEW s \in Seqs, Acknowledge(s) \/ UNCHANGED passedAt, now' = now
      PROVE  passedAt' \in [0..MaxSeq -> Time] /\ \A f \in 0..MaxSeq : passedAt'[f] <= now
  <2>1. /\ passedAt \in [0..MaxSeq -> Time] /\ \A f \in 0..MaxSeq : passedAt[f] <= now
        /\ now <= now
    BY <1>1 DEF HistoryTypes, StreamClocksPast, Time
  <2>2. CASE UNCHANGED passedAt
    BY <2>1, <2>2
  <2>3. CASE Acknowledge(s)
    BY <1>1, <2>1, <2>3 DEF Acknowledge
  <2> QED
    BY <1>4, <2>2, <2>3
<1>5. ASSUME NEW p \in Processes, NEW s \in Seqs, Fail(p, s) \/ Succeed(p, s)
      PROVE  HistoryTypes' /\ StreamClocksPast'
  <2>1. /\ now' = now /\ claims' = claims
        /\ Acknowledge(s) \/ UNCHANGED passedAt
        /\ firstAt' = firstAt \/ firstAt' = [firstAt EXCEPT ![s] = now]
        /\ \E t \in {failedSince[s], now, NotFailing} :
              failedSince' = [failedSince EXCEPT ![s] = t]
    <3>1. now' = now /\ claims' = claims /\ Deliver(p, s) /\ (Acknowledge(s) \/ UNCHANGED passedAt)
      BY <1>5 DEF Fail, Succeed
    <3>2. \E t \in {failedSince[s], now, NotFailing} :
              failedSince' = [failedSince EXCEPT ![s] = t]
      <4>1. CASE Fail(p, s)
        BY <4>1 DEF Fail
      <4>2. CASE Succeed(p, s)
        BY <4>2 DEF Succeed
      <4> QED
        BY <1>5, <4>1, <4>2
    <3> QED
      BY <3>1, <3>2 DEF Deliver
  <2>2. firstAt' \in [Seqs -> Time] /\ \A q \in Seqs : firstAt'[q] <= now
    <3>1. firstAt \in [Seqs -> Time] /\ (\A q \in Seqs : firstAt[q] <= now) /\ now <= now
      BY <1>1 DEF HistoryTypes, StreamClocksPast, Time
    <3> QED
      BY <1>1, <2>1, <3>1
  <2>3. /\ failedSince' \in [Seqs -> Time \cup {NotFailing}]
        /\ \A q \in Seqs : failedSince'[q] # NotFailing => failedSince'[q] <= now
    BY <1>1, <2>1 DEF HistoryTypes, StreamClocksPast, Time
  <2> QED
    BY <1>1, <1>4, <2>1, <2>2, <2>3 DEF HistoryTypes, StreamClocksPast
<1>6. ASSUME NEW p \in Processes, Claims(p) PROVE HistoryTypes' /\ StreamClocksPast'
  <2>1. /\ pc[p] = "spend" /\ now' = now /\ UNCHANGED <<firstAt, failedSince>>
        /\ Acknowledge(seq[p]) \/ UNCHANGED passedAt
        /\ claims' = claims \cup {[proc |-> p, seq |-> seq[p], n |-> delivered[p], at |-> now,
                                   lag |-> Lag(judged[p]), stuck |-> Stuck,
                                   burned |-> Burned(seq[p])]}
    BY <1>6 DEF Claims, Dispose
  <2>2. Lag(judged[p]) \in Time
    BY <1>1 DEF Lag, HistoryTypes, StreamClocksPast, Time
  <2>3. Burned(seq[p]) \in Time
    BY <1>1 DEF Burned, HistoryTypes, StreamClocksPast, Time
  <2>4. delivered[p] \in 1..MaxDeliver
    BY <1>1, <2>1 DEF SpendIsCounted
  <2>5. Stuck \in BOOLEAN
    BY DEF Stuck
  <2>6. claims' \subseteq Claim
    BY <1>1, <2>1, <2>2, <2>3, <2>4, <2>5 DEF Claim, HistoryTypes
  <2> QED
    BY <1>1, <1>4, <2>1, <2>6 DEF HistoryTypes, StreamClocksPast
<1>7. ASSUME NEW p \in Processes, NoClaim(p) PROVE HistoryTypes' /\ StreamClocksPast'
  <2>1. /\ now' = now /\ UNCHANGED <<claims, firstAt, failedSince>>
        /\ Acknowledge(seq[p]) \/ UNCHANGED passedAt
    BY <1>7 DEF NoClaim, Dispose
  <2> QED
    BY <1>1, <1>4, <2>1 DEF HistoryTypes, StreamClocksPast
<1> QED
  BY <1>2, <1>3, <1>5, <1>6, <1>7
     DEF Next, vars, PollStart, ObserveFloor, PollFails, Judge, Restart, LoopLost, Consume, Attach

LEMMA TypedInit == Init => Typed
<1> SUFFICES ASSUME Init PROVE Typed
  OBVIOUS
<1> USE BreakerAssumption DEF Init
<1>1. 0 \in Time /\ 1 \in Seqs /\ NoReading \in Reading
  BY DEF Time, Seqs, NoReading, Reading
<1>2. DurableTypes /\ BudgetTypes
  BY <1>1 DEF DurableTypes, BudgetTypes
<1>3. MonitorTypes
  BY <1>1 DEF MonitorTypes
<1>4. SettleTypes /\ FailureClocksPast /\ SpendIsCounted
  BY <1>1 DEF SettleTypes, FailureClocksPast, SpendIsCounted
<1>5. HistoryTypes /\ StreamClocksPast
  BY <1>1 DEF HistoryTypes, StreamClocksPast, Time
<1> QED
  BY <1>2, <1>3, <1>4, <1>5 DEF Typed

LEMMA TypedStep == Typed /\ [Next]_vars => Typed'
  BY DurableStep, MonitorStep, BudgetStep, SettleStep, HistoryStep DEF Typed

\* Every variable keeps its type, the recorded ages included: no clock the
\* breaker reads an age from is ahead of time.
THEOREM TypeCorrect == Spec => []TypeOK
<1>1. Typed => TypeOK
  BY DEF Typed, TypeOK, DurableTypes, MonitorTypes, BudgetTypes, SettleTypes, HistoryTypes
<1> QED
  BY <1>1, TypedInit, TypedStep, PTL DEF Spec

-----------------------------------------------------------------------------
(* The stall clock is never early.  A stall stands at a floor the durable has   *)
(* reached, below its last delivery: passedAt of the floor before and firstAt of *)
(* the message after are then history that no later step rewrites.              *)

\* First deliveries are counted, in stream order, and only they are in a Settle
\* or settled.
DeliveredInOrder ==
    /\ \A s \in acked : s <= lastDelivered
    /\ \A p \in Processes : pc[p] # "idle" => seq[p] <= lastDelivered
    /\ \A s \in Seqs : s <= lastDelivered => count[s] # 0

\* A reading under way, and a stall observed, are behind the durable.
Behind(p) ==
    /\ p \in polling => reading[p].floor <= AckFloor /\ reading[p].delivered <= lastDelivered
    /\ p \in stalled => floor[p] <= AckFloor

StallInv ==
    /\ Typed /\ DeliveredInOrder
    /\ \A p \in Processes : Behind(p)
    /\ StallClockNeverEarly

\* What every step does to the durable: it grows, and the history of what was
\* passed and delivered stays.
DurableGrows ==
    /\ acked \subseteq acked' /\ lastDelivered <= lastDelivered' /\ AckFloor <= AckFloor'
    /\ \A f \in 0..MaxSeq : f < AckFloor => passedAt'[f] = passedAt[f]
    /\ \A s \in Seqs : s <= lastDelivered => firstAt'[s] = firstAt[s]

LEMMA Grows == Typed /\ DeliveredInOrder /\ [Next]_vars => DurableGrows /\ DeliveredInOrder'
<1> SUFFICES ASSUME Typed, DeliveredInOrder, [Next]_vars PROVE DurableGrows /\ DeliveredInOrder'
  OBVIOUS
<1> USE BreakerAssumption
<1>1. /\ acked \subseteq Seqs /\ lastDelivered \in 0..MaxSeq /\ count \in [Seqs -> 0..MaxDeliver]
      /\ passedAt \in [0..MaxSeq -> Time] /\ firstAt \in [Seqs -> Time]
      /\ seq \in [Processes -> Seqs] /\ DOMAIN pc = Processes
  BY DEF Typed, DurableTypes, HistoryTypes, SettleTypes
<1>2. AckFloor \in 0..MaxSeq /\ AckFloor' \in 0..MaxSeq
  BY FloorFacts DEF AckFloor
<1>3. ASSUME acked \subseteq acked' PROVE AckFloor <= AckFloor'
  BY <1>3, FloorGrows DEF AckFloor
<1>4. ASSUME NEW s \in Seqs, Acknowledge(s) \/ UNCHANGED <<acked, passedAt>>
      PROVE  \A f \in 0..MaxSeq : f < AckFloor => passedAt'[f] = passedAt[f]
  BY <1>1, <1>2, <1>4 DEF Acknowledge
<1>5. CASE /\ UNCHANGED <<durableVars, passedAt, firstAt>>
           /\ \A p \in Processes : pc'[p] = "idle" \/ (pc[p] # "idle" /\ seq'[p] = seq[p])
  <2>1. AckFloor' = AckFloor
    BY <1>5 DEF AckFloor, durableVars
  <2> QED
    BY <1>1, <1>2, <1>5, <2>1 DEF DurableGrows, DeliveredInOrder, durableVars
<1>6. ASSUME NEW p \in Processes, NEW s \in Seqs, Fail(p, s) \/ Succeed(p, s)
      PROVE  DurableGrows /\ DeliveredInOrder'
  <2>1. /\ Deliver(p, s)
        /\ Acknowledge(s) \/ UNCHANGED <<acked, passedAt>>
    BY <1>6 DEF Fail, Succeed
  <2>2. /\ lastDelivered' = IF lastDelivered >= s THEN lastDelivered ELSE s
        /\ s <= lastDelivered + 1
        /\ count' = [count EXCEPT ![s] = @ + 1]
    BY <1>1, <2>1, MaxOfTwo DEF Deliver, Seqs
  <2>3. acked \subseteq acked' /\ acked' \subseteq acked \cup {s}
    BY <2>1 DEF Acknowledge
  <2>4. \A q \in Seqs : q <= lastDelivered => firstAt'[q] = firstAt[q]
    BY <1>1, <2>1 DEF Deliver, DeliveredInOrder
  <2>5. DeliveredInOrder'
    <3>1. ASSUME NEW q \in acked' PROVE q <= lastDelivered'
      <4>1. /\ lastDelivered \in Nat /\ s \in Nat /\ q \in Nat
            /\ q = s \/ q <= lastDelivered
        BY <1>1, <2>3 DEF DeliveredInOrder, Seqs
      <4> QED
        BY <2>2, <4>1
    <3>2. ASSUME NEW q \in Seqs, q <= lastDelivered' PROVE count'[q] # 0
      BY <1>1, <2>2, <3>2 DEF DeliveredInOrder, Seqs
    <3>3. ASSUME NEW q \in Processes, pc'[q] # "idle" PROVE seq'[q] <= lastDelivered'
      <4>1. CASE Fail(p, s) /\ q = p
        BY <1>1, <2>2, <4>1 DEF Fail, Seqs
      <4>2. CASE ~(Fail(p, s) /\ q = p)
        <5>1. pc'[q] = pc[q] /\ seq'[q] = seq[q]
          BY <1>1, <1>6, <4>2 DEF Fail, Succeed, settleVars
        <5> QED
          BY <1>1, <2>2, <3>3, <5>1 DEF DeliveredInOrder, Seqs
      <4> QED
        BY <4>1, <4>2
    <3> QED
      BY <3>1, <3>2, <3>3 DEF DeliveredInOrder
  <2> QED
    BY <1>1, <1>3, <1>4, <2>1, <2>2, <2>3, <2>4, <2>5 DEF DurableGrows, Seqs
<1>7. ASSUME NEW p \in Processes, Claims(p) \/ NoClaim(p)
      PROVE  DurableGrows /\ DeliveredInOrder'
  <2>1. /\ UNCHANGED <<lastDelivered, count, firstAt>>
        /\ Acknowledge(seq[p]) \/ UNCHANGED <<acked, passedAt>>
        /\ seq[p] <= lastDelivered
        /\ pc' = [pc EXCEPT ![p] = "idle"] /\ seq' = [seq EXCEPT ![p] = 1]
    BY <1>7 DEF Claims, NoClaim, Dispose, Return, DeliveredInOrder
  <2>2. acked \subseteq acked' /\ acked' \subseteq acked \cup {seq[p]}
    BY <2>1 DEF Acknowledge
  <2> QED
    BY <1>1, <1>3, <1>4, <2>1, <2>2 DEF DurableGrows, DeliveredInOrder
<1>8. ASSUME NEW p \in Processes, Judge(p) \/ Restart(p) PROVE DurableGrows /\ DeliveredInOrder'
  <2>1. CASE Judge(p)
    BY <1>1, <1>5, <2>1 DEF Judge, historyVars
  <2>2. CASE Restart(p)
    BY <1>1, <1>5, <2>2 DEF Restart, Return, historyVars
  <2> QED
    BY <1>8, <2>1, <2>2
<1>9. CASE UNCHANGED <<durableVars, passedAt, firstAt, settleVars>>
  BY <1>5, <1>9 DEF settleVars
<1> QED
  BY <1>6, <1>7, <1>8, <1>9
     DEF Next, vars, Tick, PollStart, ObserveFloor, PollFails, LoopLost, Consume, Attach, historyVars

LEMMA StallStep == StallInv /\ [Next]_vars => StallInv'
<1> SUFFICES ASSUME StallInv, [Next]_vars PROVE StallInv'
  OBVIOUS
<1> USE BreakerAssumption
<1>1. Typed' /\ DurableGrows /\ DeliveredInOrder'
  BY TypedStep, Grows DEF StallInv
<1>2. /\ AckFloor \in 0..MaxSeq /\ AckFloor' \in 0..MaxSeq /\ now \in Nat
      /\ lastDelivered \in 0..MaxSeq /\ lastDelivered' \in 0..MaxSeq
      /\ floor \in [Processes -> 0..MaxSeq] /\ floorSince \in [Processes -> Nat]
      /\ reading \in [Processes -> Reading]
      /\ passedAt \in [0..MaxSeq -> Nat] /\ firstAt \in [Seqs -> Nat]
      /\ stalled \subseteq Processes /\ polling \subseteq Processes
  BY <1>1, FloorFacts DEF StallInv, Typed, DurableTypes, MonitorTypes, HistoryTypes, AckFloor, Time
<1>3. ASSUME NEW q \in Processes, q \in stalled
      PROVE  /\ floor[q] <= AckFloor' /\ floor[q] < lastDelivered'
             /\ floor[q] > 0 => passedAt'[floor[q] - 1] <= floorSince[q]
             /\ firstAt'[floor[q] + 1] <= floorSince[q]
  <2>1. /\ floor[q] \in 0..MaxSeq /\ floor[q] < lastDelivered /\ floor[q] <= AckFloor
        /\ floor[q] > 0 => passedAt[floor[q] - 1] <= floorSince[q]
        /\ firstAt[floor[q] + 1] <= floorSince[q]
    BY <1>2, <1>3 DEF StallInv, StallClockNeverEarly, Behind
  <2>2. /\ AckFloor \in Nat /\ AckFloor' \in Nat /\ lastDelivered \in 0..MaxSeq
        /\ lastDelivered' \in Nat /\ AckFloor <= AckFloor' /\ lastDelivered <= lastDelivered'
    BY <1>1, <1>2 DEF DurableGrows
  <2>3. floor[q] > 0 => floor[q] - 1 \in 0..MaxSeq /\ floor[q] - 1 < AckFloor
    BY <2>1, <2>2
  <2>4. floor[q] + 1 \in Seqs /\ floor[q] + 1 <= lastDelivered
    BY <2>1, <2>2 DEF Seqs
  <2>5. floor[q] <= AckFloor' /\ floor[q] < lastDelivered'
    BY <2>1, <2>2
  <2>6. floor[q] > 0 => passedAt'[floor[q] - 1] = passedAt[floor[q] - 1]
    BY <1>1, <2>3 DEF DurableGrows
  <2>7. firstAt'[floor[q] + 1] = firstAt[floor[q] + 1]
    BY <1>1, <2>4 DEF DurableGrows
  <2> QED
    BY <2>1, <2>5, <2>6, <2>7
<1>4. ASSUME NEW q \in Processes, q \in polling
      PROVE  reading[q].floor <= AckFloor' /\ reading[q].delivered <= lastDelivered'
  <2>1. reading[q].floor \in 0..MaxSeq /\ reading[q].delivered \in 0..MaxSeq
    BY <1>2 DEF Reading
  <2>2. /\ AckFloor \in Nat /\ AckFloor' \in Nat /\ lastDelivered \in Nat
        /\ lastDelivered' \in Nat /\ AckFloor <= AckFloor' /\ lastDelivered <= lastDelivered'
    BY <1>1, <1>2 DEF DurableGrows
  <2>3. reading[q].floor <= AckFloor /\ reading[q].delivered <= lastDelivered
    BY <1>4 DEF StallInv, Behind
  <2> QED
    BY <2>1, <2>2, <2>3
<1>5. ASSUME stalled' \subseteq stalled,
             \A q \in stalled' : floor'[q] = floor[q] /\ floorSince'[q] = floorSince[q]
      PROVE  StallClockNeverEarly' /\ \A q \in stalled' : floor'[q] <= AckFloor'
  BY <1>2, <1>3, <1>5 DEF StallClockNeverEarly
<1>6. ASSUME polling' \subseteq polling, \A q \in polling' : reading'[q] = reading[q]
      PROVE  \A q \in Processes : q \in polling' =>
                reading'[q].floor <= AckFloor' /\ reading'[q].delivered <= lastDelivered'
  BY <1>4, <1>6
<1>7. CASE UNCHANGED monitorVars
  BY <1>1, <1>5, <1>6, <1>7 DEF StallInv, Behind, monitorVars
<1>8. ASSUME NEW p \in Processes, PollStart(p) \/ Attach(p) PROVE StallInv'
  <2>1. /\ UNCHANGED <<stalled, floor, floorSince>> /\ polling' = polling \cup {p}
        /\ reading' = [reading EXCEPT ![p] = [floor |-> AckFloor, delivered |-> lastDelivered]]
    BY <1>8 DEF PollStart, Attach, Ask
  <2>2. ASSUME NEW q \in Processes, q \in polling'
        PROVE  reading'[q].floor <= AckFloor' /\ reading'[q].delivered <= lastDelivered'
    BY <1>1, <1>2, <1>4, <2>1, <2>2 DEF DurableGrows
  <2> QED
    BY <1>1, <1>2, <1>5, <2>1, <2>2 DEF StallInv, Behind
<1>9. ASSUME NEW p \in Processes, ObserveFloor(p) PROVE StallInv'
  <2>1. /\ p \in polling /\ polling' = polling \ {p}
        /\ reading' = [reading EXCEPT ![p] = NoReading]
        /\ floor' = [floor EXCEPT ![p] = reading[p].floor]
        /\ \A q \in Processes \ {p} :
              floorSince'[q] = floorSince[q] /\ (q \in stalled' => q \in stalled)
        /\ p \in stalled' =>
              /\ ~(reading[p].delivered <= reading[p].floor)
              /\ \/ floorSince'[p] = now
                 \/ p \in stalled /\ floor'[p] = floor[p] /\ floorSince'[p] = floorSince[p]
        /\ stalled' \subseteq Processes /\ UNCHANGED <<firstAt, passedAt>>
    BY <1>2, <1>9 DEF ObserveFloor, Answered, historyVars
  <2>2. ASSUME NEW q \in stalled'
        PROVE  /\ floor'[q] <= AckFloor' /\ floor'[q] < lastDelivered'
               /\ floor'[q] > 0 => passedAt'[floor'[q] - 1] <= floorSince'[q]
               /\ firstAt'[floor'[q] + 1] <= floorSince'[q]
    <3>1. CASE q # p \/ (p \in stalled /\ floor'[p] = floor[p] /\ floorSince'[p] = floorSince[p])
      BY <1>2, <1>3, <2>1, <2>2, <3>1
    <3>2. CASE q = p /\ floorSince'[p] = now
      <4>1. /\ floor'[p] = reading[p].floor /\ reading[p].floor \in 0..MaxSeq
            /\ reading[p].floor <= AckFloor' /\ reading[p].delivered <= lastDelivered'
            /\ reading[p].floor < reading[p].delivered /\ reading[p].delivered \in 0..MaxSeq
        BY <1>2, <1>4, <2>1, <2>2, <3>2 DEF Reading
      <4>2. reading[p].floor + 1 \in Seqs
        BY <4>1 DEF Seqs
      <4>3. /\ firstAt[reading[p].floor + 1] <= now
            /\ reading[p].floor > 0 => passedAt[reading[p].floor - 1] <= now
        BY <4>1, <4>2 DEF StallInv, Typed, StreamClocksPast
      <4> QED
        BY <1>2, <2>1, <3>2, <4>1, <4>3
    <3> QED
      BY <2>1, <2>2, <3>1, <3>2
  <2>3. StallClockNeverEarly' /\ \A q \in stalled' : floor'[q] <= AckFloor'
    BY <2>2 DEF StallClockNeverEarly
  <2> QED
    BY <1>1, <1>2, <1>6, <2>1, <2>3 DEF StallInv, Behind
<1>10. ASSUME NEW p \in Processes, PollFails(p) \/ LoopLost(p) \/ Consume(p) \/ Restart(p)
       PROVE  StallInv'
  <2>1. /\ stalled' \subseteq stalled
        /\ \A q \in stalled' : floor'[q] = floor[q] /\ floorSince'[q] = floorSince[q]
    BY <1>2, <1>10 DEF PollFails, Answered, LoopLost, Consume, Restart
  <2>2. polling' \subseteq polling /\ \A q \in polling' : reading'[q] = reading[q]
    BY <1>2, <1>10 DEF PollFails, Answered, LoopLost, Consume, Restart
  <2> QED
    BY <1>1, <1>5, <1>6, <2>1, <2>2 DEF StallInv, Behind
<1> QED
  BY <1>7, <1>8, <1>9, <1>10 DEF Next, vars, Tick, Fail, Succeed, Judge, Claims, NoClaim

\* A stall is never older than the stretch of time for which the durable has
\* really stood at its floor with something delivered beyond it, whatever polls
\* miss or answer late and however loops and processes come and go.
THEOREM StallClockHolds == Spec => []StallClockNeverEarly
<1>1. Init => StallInv
  <2> SUFFICES ASSUME Init PROVE StallInv
    OBVIOUS
  <2>1. DeliveredInOrder /\ StallClockNeverEarly /\ \A p \in Processes : Behind(p)
    BY DEF Init, DeliveredInOrder, StallClockNeverEarly, Behind, Seqs
  <2> QED
    BY <2>1, TypedInit DEF StallInv
<1>2. StallInv => StallClockNeverEarly
  BY DEF StallInv
<1> QED
  BY <1>1, <1>2, StallStep, PTL DEF Spec

-----------------------------------------------------------------------------
(* The failure clocks are capped. *)

OneClockEach == \A p \in Processes :
    IsFiniteSet(failing[p]) /\ \A r, q \in failing[p] : r.seq = q.seq => r = q

ClocksInv == Typed /\ OneClockEach /\ FailureClocksBounded

LEMMA ClocksStep == ClocksInv /\ [Next]_vars => ClocksInv'
<1> SUFFICES ASSUME ClocksInv, [Next]_vars PROVE ClocksInv'
  OBVIOUS
<1> USE BreakerAssumption
<1>1. Typed /\ Typed' /\ DOMAIN failing = Processes
  BY TypedStep DEF ClocksInv, Typed, SettleTypes
<1>2. ASSUME NEW p \in Processes, NEW kept, failing' = [failing EXCEPT ![p] = kept],
             IsFiniteSet(kept), Cardinality(kept) <= MaxTracked,
             \A r, q \in kept : r.seq = q.seq => r = q
      PROVE  ClocksInv'
  BY <1>1, <1>2 DEF ClocksInv, OneClockEach, FailureClocksBounded
<1>3. CASE UNCHANGED failing
  BY <1>1, <1>3 DEF ClocksInv, OneClockEach, FailureClocksBounded
<1>4. ASSUME NEW p \in Processes, NEW s \in Seqs, Fail(p, s) PROVE ClocksInv'
  <2>1. NoteFailure(p, s)
    BY <1>4 DEF Fail
  <2>2. PICK first \in Time, kept \in SUBSET FailureRecord :
              /\ kept \subseteq Noted(p, s, first)
              /\ failing' = [failing EXCEPT ![p] = kept]
              /\ \/ kept = Noted(p, s, first) /\ ~(Cardinality(kept) > MaxTracked)
                 \/ Cardinality(kept) <= (MaxTracked * 3) \div 4
    BY <1>1, <2>1, NoteFacts
  <2> DEFINE others == failing[p] \ ClockOf(failing[p], s)
             clock == [seq |-> s, first |-> first, last |-> now]
  <2>3. IsFiniteSet(failing[p]) /\ \A r, q \in failing[p] : r.seq = q.seq => r = q
    BY DEF ClocksInv, OneClockEach
  <2>4. IsFiniteSet(others)
    BY <2>3, FS_Subset
  <2>5. IsFiniteSet(others \cup {clock})
    BY <2>4, FS_AddElement
  <2>6. Noted(p, s, first) = others \cup {clock}
    BY DEF Noted
  <2>7. IsFiniteSet(kept)
    BY <2>2, <2>5, <2>6, FS_Subset
  <2>8. \A r, q \in others \cup {clock} : r.seq = q.seq => r = q
    BY <2>3 DEF ClockOf
  <2>9. Cardinality(kept) <= MaxTracked
    <3>1. Cardinality(kept) \in Nat
      BY <2>7, FS_CardinalityType
    <3>2. (MaxTracked * 3) \div 4 <= MaxTracked
      OBVIOUS
    <3>3. (MaxTracked * 3) \div 4 \in Nat
      OBVIOUS
    <3> QED
      BY <2>2, <3>1, <3>2, <3>3
  <2> QED
    BY <1>2, <2>2, <2>6, <2>7, <2>8, <2>9
<1>5. ASSUME NEW p \in Processes, Claims(p) \/ NoClaim(p) \/ Restart(p) PROVE ClocksInv'
  <2>1. \/ UNCHANGED failing
        \/ failing' = [failing EXCEPT ![p] = failing[p] \ ClockOf(failing[p], seq[p])]
        \/ failing' = [failing EXCEPT ![p] = {}]
    BY <1>1, <1>5 DEF Claims, NoClaim, Dispose, Restart
  <2>2. /\ IsFiniteSet(failing[p]) /\ Cardinality(failing[p]) <= MaxTracked
        /\ \A r, q \in failing[p] : r.seq = q.seq => r = q
    BY DEF ClocksInv, OneClockEach, FailureClocksBounded
  <2>3. ASSUME NEW kept \in SUBSET failing[p], failing' = [failing EXCEPT ![p] = kept]
        PROVE  ClocksInv'
    <3>1. /\ IsFiniteSet(kept) /\ Cardinality(kept) <= Cardinality(failing[p])
          /\ Cardinality(kept) \in Nat /\ Cardinality(failing[p]) \in Nat
      BY <2>2, FS_Subset, FS_CardinalityType
    <3>2. Cardinality(kept) <= MaxTracked
      BY <2>2, <3>1
    <3> QED
      BY <1>2, <2>2, <2>3, <3>1, <3>2
  <2> QED
    BY <1>3, <2>1, <2>3
<1> QED
  BY <1>3, <1>4, <1>5
     DEF Next, vars, Tick, Succeed, Judge, PollStart, ObserveFloor, PollFails, LoopLost, Consume,
         Attach

\* The failure clocks stay within their cap and there is one per sequence, for
\* every cap: what the sweep leaves is at most three quarters of it.
THEOREM ClocksAreBounded == Spec => []FailureClocksBounded
<1>1. Init => ClocksInv
  <2> SUFFICES ASSUME Init PROVE ClocksInv
    OBVIOUS
  <2>1. \A p \in Processes : failing[p] = {}
    BY DEF Init
  <2>2. OneClockEach /\ FailureClocksBounded
    BY <2>1, FS_EmptySet, BreakerAssumption DEF OneClockEach, FailureClocksBounded
  <2> QED
    BY <2>2, TypedInit DEF ClocksInv
<1>2. ClocksInv => FailureClocksBounded
  BY DEF ClocksInv
<1> QED
  BY <1>1, <1>2, ClocksStep, PTL DEF Spec

-----------------------------------------------------------------------------
(* Claims are fresh while consumer info is readable and the loop stays up.      *)

\* A floor that was released no earlier than some past time stays so.
LEMMA ReleaseStays ==
    ASSUME Typed, [Next]_vars
    PROVE  \A f \in 0..MaxSeq, t \in Int :
              t <= now /\ (f < AckFloor => t <= passedAt[f])
                 => (f < AckFloor' => t <= passedAt'[f])
<1> USE BreakerAssumption
<1>1. /\ seq \in [Processes -> Seqs] /\ passedAt \in [0..MaxSeq -> Time]
      /\ AckFloor \in Nat /\ AckFloor' \in Nat
  BY FloorFacts DEF Typed, SettleTypes, HistoryTypes, AckFloor
<1>2. CASE UNCHANGED <<acked, passedAt>>
  <2>1. AckFloor' = AckFloor
    BY <1>2 DEF AckFloor
  <2> QED
    BY <1>2, <2>1
<1>3. ASSUME NEW s \in Seqs, Acknowledge(s)
      PROVE  \A f \in 0..MaxSeq, t \in Int :
                t <= now /\ (f < AckFloor => t <= passedAt[f])
                   => (f < AckFloor' => t <= passedAt'[f])
  <2>1. AckFloor' = FloorOf(acked \cup {s})
    BY <1>3 DEF Acknowledge, AckFloor
  <2>2. passedAt' = [f \in 0..MaxSeq |->
                        IF AckFloor <= f /\ f < AckFloor' THEN now ELSE passedAt[f]]
    BY <1>3, <2>1 DEF Acknowledge
  <2> QED
    BY <1>1, <2>2
<1>4. ASSUME NEW p \in Processes, NEW s \in Seqs, Fail(p, s) \/ Succeed(p, s)
      PROVE  (\E q \in Seqs : Acknowledge(q)) \/ UNCHANGED <<acked, passedAt>>
  BY <1>4 DEF Fail, Succeed
<1>5. ASSUME NEW p \in Processes, Claims(p) \/ NoClaim(p)
      PROVE  (\E q \in Seqs : Acknowledge(q)) \/ UNCHANGED <<acked, passedAt>>
  BY <1>1, <1>5 DEF Claims, NoClaim, Dispose
<1>6. (\E q \in Seqs : Acknowledge(q)) \/ UNCHANGED <<acked, passedAt>>
  BY <1>4, <1>5
     DEF Next, vars, Tick, Judge, PollStart, ObserveFloor, PollFails, Restart, LoopLost, Consume,
         Attach, durableVars, historyVars
<1> QED
  BY <1>2, <1>3, <1>6

\* Polls are on time, and the monitor's floor, the reading under way and the floor
\* of a verdict were released only so long before.
PollFresh(p) ==
    /\ loop[p] = "attached"
    /\ polledAt[p] <= now
    /\ p \in polling => /\ now <= polledAt[p] + PollTimeout
                        /\ reading[p].floor < AckFloor => polledAt[p] <= passedAt[reading[p].floor]
    /\ p \in stalled \ polling =>
          /\ now <= polledAt[p] + PollInterval
          /\ floor[p] < AckFloor => polledAt[p] - PollTimeout <= passedAt[floor[p]]
    /\ p \in stalled \cap polling =>
          (floor[p] < AckFloor => polledAt[p] - (PollInterval + PollTimeout) <= passedAt[floor[p]])
    /\ pc[p] = "spend" =>
          (judged[p] < AckFloor => now - (PollInterval + 2 * PollTimeout) <= passedAt[judged[p]])

FreshInv == Typed /\ ClaimsAreFresh /\ \A p \in Processes : PollFresh(p)

LEMMA FreshStep ==
    ASSUME ~PollMayFail, ~LoopMayBeLost, FreshInv, [Next]_vars
    PROVE  FreshInv'
<1> USE BreakerAssumption
<1>1. Typed /\ Typed'
  BY TypedStep DEF FreshInv
<1>2. /\ now \in Nat /\ AckFloor \in Nat /\ AckFloor' \in Nat
      /\ PollInterval \in Nat /\ PollTimeout \in Nat
      /\ passedAt \in [0..MaxSeq -> Nat] /\ passedAt' \in [0..MaxSeq -> Nat]
      /\ \A f \in 0..MaxSeq : passedAt[f] <= now
  BY <1>1, FloorFacts DEF Typed, DurableTypes, HistoryTypes, StreamClocksPast, AckFloor, Time
<1>3. /\ polledAt \in [Processes -> Nat] /\ floor \in [Processes -> 0..MaxSeq]
      /\ judged \in [Processes -> 0..MaxSeq]
      /\ reading \in [Processes -> [floor : 0..MaxSeq, delivered : 0..MaxSeq]]
      /\ loop \in [Processes -> {"down", "consuming", "attached"}]
      /\ DOMAIN pc = Processes /\ polling \subseteq Processes /\ stalled \subseteq Processes
  BY <1>1 DEF Typed, MonitorTypes, SettleTypes, Time, Reading
<1>4. \A f \in 0..MaxSeq, t \in Int :
         t <= now /\ (f < AckFloor => t <= passedAt[f]) => (f < AckFloor' => t <= passedAt'[f])
  BY <1>1, ReleaseStays
<1>5. ASSUME NEW q \in Processes, UNCHANGED now,
             loop'[q] = loop[q], polledAt'[q] = polledAt[q], reading'[q] = reading[q],
             floor'[q] = floor[q], q \in polling' <=> q \in polling,
             q \in stalled' <=> q \in stalled,
             pc'[q] # "spend" \/ (pc'[q] = pc[q] /\ judged'[q] = judged[q])
      PROVE  PollFresh(q)'
  <2>1. PollFresh(q) /\ polledAt[q] \in Nat /\ reading[q].floor \in 0..MaxSeq
        /\ floor[q] \in 0..MaxSeq /\ judged[q] \in 0..MaxSeq
    BY <1>3 DEF FreshInv
  <2>2. \A t \in Int : t <= now =>
           /\ (reading[q].floor < AckFloor => t <= passedAt[reading[q].floor])
                 => (reading[q].floor < AckFloor' => t <= passedAt'[reading[q].floor])
           /\ (floor[q] < AckFloor => t <= passedAt[floor[q]])
                 => (floor[q] < AckFloor' => t <= passedAt'[floor[q]])
           /\ (judged[q] < AckFloor => t <= passedAt[judged[q]])
                 => (judged[q] < AckFloor' => t <= passedAt'[judged[q]])
    BY <1>4, <2>1
  <2>3. /\ polledAt[q] \in Int /\ polledAt[q] <= now
        /\ polledAt[q] - PollTimeout \in Int /\ polledAt[q] - PollTimeout <= now
        /\ polledAt[q] - (PollInterval + PollTimeout) \in Int
        /\ polledAt[q] - (PollInterval + PollTimeout) <= now
        /\ now - (PollInterval + 2 * PollTimeout) \in Int
        /\ now - (PollInterval + 2 * PollTimeout) <= now
    <3>1. /\ polledAt[q] \in Nat /\ polledAt[q] <= now /\ now \in Nat
          /\ PollInterval \in Nat /\ PollTimeout \in Nat
      BY <1>2, <2>1 DEF PollFresh
    <3> QED
      BY <3>1
  <2> QED
    BY <1>5, <2>1, <2>2, <2>3 DEF PollFresh
<1>6. CASE UNCHANGED vars
  BY <1>1, <1>5, <1>6
     DEF FreshInv, ClaimsAreFresh, vars, monitorVars, settleVars, historyVars
<1>7. CASE Tick
  <2>1. /\ now' = now + 1 /\ UNCHANGED <<acked, passedAt, claims, monitorVars>>
        /\ \A p \in Processes : pc'[p] = "idle"
        /\ \A p \in Processes : loop[p] = "attached" =>
              now - polledAt[p] < IF p \in polling THEN PollTimeout ELSE PollInterval
    BY <1>7 DEF Tick, durableVars, historyVars, settleVars
  <2>2. AckFloor' = AckFloor
    BY <2>1 DEF AckFloor
  <2>3. ASSUME NEW p \in Processes PROVE PollFresh(p)'
    <3>1. PollFresh(p) /\ polledAt[p] \in Nat
      BY <1>3 DEF FreshInv
    <3> QED
      BY <1>2, <2>1, <2>2, <3>1 DEF PollFresh, monitorVars
  <2> QED
    BY <1>1, <2>1, <2>3 DEF FreshInv, ClaimsAreFresh
<1>8. ASSUME NEW p \in Processes, PollStart(p) PROVE FreshInv'
  <2>1. /\ UNCHANGED <<now, acked, passedAt, claims, stalled, floor, loop, settleVars>>
        /\ p \notin polling /\ polling' = polling \cup {p}
        /\ polledAt' = [polledAt EXCEPT ![p] = now]
        /\ reading' = [reading EXCEPT ![p] = [floor |-> AckFloor, delivered |-> lastDelivered]]
    BY <1>8 DEF PollStart, Ask, durableVars, historyVars
  <2>2. AckFloor' = AckFloor
    BY <2>1 DEF AckFloor
  <2>3. PollFresh(p)'
    <3>1. PollFresh(p) /\ polledAt[p] \in Nat /\ floor[p] \in 0..MaxSeq
      BY <1>3 DEF FreshInv
    <3>2. reading'[p].floor = AckFloor /\ polledAt'[p] = now /\ p \in polling'
      BY <1>3, <2>1
    <3>3. p \in stalled =>
             (floor[p] < AckFloor => now - (PollInterval + PollTimeout) <= passedAt[floor[p]])
      <4>1. now \in Nat /\ PollInterval \in Nat /\ PollTimeout \in Nat /\ passedAt[floor[p]] \in Nat
        BY <1>2, <3>1
      <4>2. p \in stalled /\ floor[p] < AckFloor =>
               now <= polledAt[p] + PollInterval /\ polledAt[p] - PollTimeout <= passedAt[floor[p]]
        BY <2>1, <3>1 DEF PollFresh
      <4> QED
        BY <3>1, <4>1, <4>2
    <3> QED
      BY <1>2, <2>1, <2>2, <3>1, <3>2, <3>3 DEF PollFresh, settleVars
  <2>4. ASSUME NEW q \in Processes \ {p} PROVE PollFresh(q)'
    BY <1>3, <1>5, <2>1 DEF settleVars
  <2> QED
    BY <1>1, <2>1, <2>3, <2>4 DEF FreshInv, ClaimsAreFresh
<1>9. ASSUME NEW p \in Processes, ObserveFloor(p) PROVE FreshInv'
  <2>1. /\ UNCHANGED <<now, acked, passedAt, claims, loop, settleVars>>
        /\ p \in polling /\ polling' = polling \ {p}
        /\ polledAt' = [polledAt EXCEPT ![p] = now]
        /\ reading' = [reading EXCEPT ![p] = NoReading]
        /\ floor' = [floor EXCEPT ![p] = reading[p].floor]
        /\ \A q \in Processes \ {p} : q \in stalled' <=> q \in stalled
    BY <1>9 DEF ObserveFloor, Answered, durableVars, historyVars
  <2>2. AckFloor' = AckFloor
    BY <2>1 DEF AckFloor
  <2>3. PollFresh(p)'
    <3>1. PollFresh(p) /\ polledAt[p] \in Nat /\ reading[p].floor \in 0..MaxSeq
      BY <1>3 DEF FreshInv
    <3>2. floor'[p] = reading[p].floor /\ polledAt'[p] = now /\ p \notin polling'
      BY <1>3, <2>1
    <3>3. reading[p].floor < AckFloor => now - PollTimeout <= passedAt[reading[p].floor]
      BY <1>2, <2>1, <3>1 DEF PollFresh
    <3> QED
      BY <1>2, <2>1, <2>2, <3>1, <3>2, <3>3 DEF PollFresh, settleVars
  <2>4. ASSUME NEW q \in Processes \ {p} PROVE PollFresh(q)'
    BY <1>3, <1>5, <2>1 DEF settleVars
  <2> QED
    BY <1>1, <2>1, <2>3, <2>4 DEF FreshInv, ClaimsAreFresh
<1>10. ASSUME NEW p \in Processes, NEW s \in Seqs, Fail(p, s) \/ Succeed(p, s)
       PROVE  FreshInv'
  <2>1. /\ UNCHANGED <<now, monitorVars, claims, judged>>
        /\ \A q \in Processes : pc'[q] # "spend" \/ pc'[q] = pc[q]
    BY <1>3, <1>10 DEF Fail, Succeed, settleVars
  <2> QED
    BY <1>1, <1>5, <2>1 DEF FreshInv, ClaimsAreFresh, monitorVars
<1>11. ASSUME NEW p \in Processes, Judge(p) PROVE FreshInv'
  <2>1. /\ UNCHANGED <<now, acked, passedAt, monitorVars, claims>>
        /\ judged' = [judged EXCEPT ![p] = floor[p]]
        /\ \A q \in Processes \ {p} : pc'[q] = pc[q]
        /\ pc'[p] = "spend" => p \in stalled
    BY <1>3, <1>11 DEF Judge, StalledPastAge, durableVars, historyVars
  <2>2. AckFloor' = AckFloor
    BY <2>1 DEF AckFloor
  <2>3. PollFresh(p)'
    <3>1. PollFresh(p) /\ polledAt[p] \in Nat /\ floor[p] \in 0..MaxSeq
      BY <1>3 DEF FreshInv
    <3>2. p \in stalled =>
             (floor[p] < AckFloor => now - (PollInterval + 2 * PollTimeout) <= passedAt[floor[p]])
      <4>1. now \in Nat /\ PollInterval \in Nat /\ PollTimeout \in Nat /\ passedAt[floor[p]] \in Nat
        BY <1>2, <3>1
      <4>2. p \in stalled /\ floor[p] < AckFloor =>
               \/ /\ now <= polledAt[p] + PollTimeout
                  /\ polledAt[p] - (PollInterval + PollTimeout) <= passedAt[floor[p]]
               \/ /\ now <= polledAt[p] + PollInterval
                  /\ polledAt[p] - PollTimeout <= passedAt[floor[p]]
        BY <3>1 DEF PollFresh
      <4> QED
        BY <3>1, <4>1, <4>2
    <3> QED
      BY <1>3, <2>1, <2>2, <3>1, <3>2 DEF PollFresh, monitorVars
  <2>4. ASSUME NEW q \in Processes \ {p} PROVE PollFresh(q)'
    BY <1>3, <1>5, <2>1 DEF monitorVars
  <2> QED
    BY <1>1, <2>1, <2>3, <2>4 DEF FreshInv, ClaimsAreFresh
<1>12. ASSUME NEW p \in Processes, Claims(p) PROVE FreshInv'
  <2>1. /\ UNCHANGED <<now, monitorVars>> /\ pc[p] = "spend"
        /\ claims' = claims \cup {[proc |-> p, seq |-> seq[p], n |-> delivered[p], at |-> now,
                                   lag |-> Lag(judged[p]), stuck |-> Stuck,
                                   burned |-> Burned(seq[p])]}
        /\ pc' = [pc EXCEPT ![p] = "idle"] /\ judged' = [judged EXCEPT ![p] = 0]
    BY <1>12 DEF Claims, Return
  <2>2. Lag(judged[p]) <= PollInterval + 2 * PollTimeout
    <3>1. passedAt[judged[p]] \in Nat /\ judged[p] \in 0..MaxSeq
      BY <1>2, <1>3
    <3>2. judged[p] < AckFloor => now - (PollInterval + 2 * PollTimeout) <= passedAt[judged[p]]
      BY <2>1 DEF FreshInv, PollFresh
    <3>3. now \in Nat /\ AckFloor \in Nat /\ PollInterval \in Nat /\ PollTimeout \in Nat
      BY <1>2
    <3> QED
      BY <3>1, <3>2, <3>3 DEF Lag
  <2>3. ClaimsAreFresh'
    BY <2>1, <2>2 DEF FreshInv, ClaimsAreFresh
  <2> QED
    BY <1>1, <1>3, <1>5, <2>1, <2>3 DEF FreshInv, monitorVars
<1>13. ASSUME NEW p \in Processes, NoClaim(p) PROVE FreshInv'
  <2>1. /\ UNCHANGED <<now, monitorVars, claims>>
        /\ pc' = [pc EXCEPT ![p] = "idle"] /\ judged' = [judged EXCEPT ![p] = 0]
    BY <1>13 DEF NoClaim, Return
  <2> QED
    BY <1>1, <1>3, <1>5, <2>1 DEF FreshInv, ClaimsAreFresh, monitorVars
<1>14. ASSUME NEW p \in Processes, Restart(p) PROVE FreshInv'
  <2>1. /\ UNCHANGED <<now, claims, polledAt>>
        /\ stalled' = stalled \ {p} /\ polling' = polling \ {p}
        /\ floor' = [floor EXCEPT ![p] = 0]
        /\ loop' = [loop EXCEPT ![p] = "attached"]
        /\ reading' = [reading EXCEPT ![p] = NoReading]
        /\ pc' = [pc EXCEPT ![p] = "idle"] /\ judged' = [judged EXCEPT ![p] = 0]
    BY <1>14 DEF Restart, Return, historyVars
  <2>2. PollFresh(p)'
    BY <1>3, <2>1 DEF PollFresh, FreshInv
  <2>3. ASSUME NEW q \in Processes \ {p} PROVE PollFresh(q)'
    BY <1>3, <1>5, <2>1
  <2> QED
    BY <1>1, <2>1, <2>2, <2>3 DEF FreshInv, ClaimsAreFresh
<1>15. ASSUME NEW p \in Processes, PollFails(p) \/ LoopLost(p) \/ Consume(p) \/ Attach(p)
       PROVE  FALSE
  BY <1>15 DEF FreshInv, PollFresh, PollFails, LoopLost, Consume, Attach
<1> QED
  BY <1>6, <1>7, <1>8, <1>9, <1>10, <1>11, <1>12, <1>13, <1>14, <1>15 DEF Next

\* As long as consumer info is readable and the loop stays up, a claim is made
\* against a floor the durable left at most an interval and two requests ago,
\* whatever acknowledgements are lost and however often processes restart.
THEOREM FreshHolds ==
    ASSUME ~PollMayFail, ~LoopMayBeLost
    PROVE  Spec => []ClaimsAreFresh
<1>1. Init => FreshInv
  <2> SUFFICES ASSUME Init PROVE FreshInv
    OBVIOUS
  <2>1. ClaimsAreFresh /\ \A p \in Processes : PollFresh(p)
    BY DEF Init, ClaimsAreFresh, PollFresh
  <2> QED
    BY <2>1, TypedInit DEF FreshInv
<1>2. FreshInv => ClaimsAreFresh
  BY DEF FreshInv
<1>3. FreshInv /\ [Next]_vars => FreshInv'
  BY FreshStep
<1> QED
  BY <1>1, <1>2, <1>3, PTL DEF Spec

-----------------------------------------------------------------------------
(* A claimed message failed throughout the window, when acknowledgements land   *)
(* and the process is the durable's only one.                                   *)

\* A clock runs for a settled message or one that was already failing when the
\* clock started: swept clocks only restart later.
ClockIsHonest ==
    \A p \in Processes : \A r \in failing[p] : r.seq \in acked \/ failedSince[r.seq] <= r.first

\* What Settle read off the clock still holds when it is judged and claimed.
AgeIsHonest(p) ==
    pc[p] \in {"judge", "spend"} =>
        /\ failedSince[seq[p]] + failingFor[p] <= now
        /\ pc[p] = "spend" => failingFor[p] >= FloorAge

BurnInv == Typed /\ ClockIsHonest /\ (\A p \in Processes : AgeIsHonest(p)) /\ ClaimsBurnedTheWindow

LEMMA BurnStep ==
    ASSUME ~AckMayBeLost, \A p, q \in Processes : p = q, BurnInv, [Next]_vars
    PROVE  BurnInv'
<1> USE BreakerAssumption
<1>1. Typed /\ Typed'
  BY TypedStep DEF BurnInv
<1>2. /\ now \in Time /\ FloorAge \in Nat
      /\ failedSince \in [Seqs -> Time \cup {NotFailing}]
      /\ \A s \in Seqs : failedSince[s] # NotFailing => failedSince[s] <= now
      /\ failing \in [Processes -> SUBSET FailureRecord]
      /\ seq \in [Processes -> Seqs] /\ failingFor \in [Processes -> Time]
      /\ DOMAIN pc = Processes
  BY <1>1 DEF Typed, DurableTypes, SettleTypes, HistoryTypes, StreamClocksPast
<1>3. ASSUME UNCHANGED <<failing, failedSince>>, acked \subseteq acked' PROVE ClockIsHonest'
  BY <1>3 DEF BurnInv, ClockIsHonest
<1>4. ASSUME UNCHANGED <<now, settleVars, failing, failedSince, acked, claims>> PROVE BurnInv'
  BY <1>1, <1>3, <1>4 DEF BurnInv, AgeIsHonest, ClaimsBurnedTheWindow, settleVars
<1>5. CASE Tick
  <2>1. /\ UNCHANGED <<failing, failedSince, acked, claims>>
        /\ \A p \in Processes : pc'[p] = "idle"
    BY <1>5 DEF Tick, durableVars, historyVars, settleVars
  <2> QED
    BY <1>1, <1>3, <2>1 DEF BurnInv, AgeIsHonest, ClaimsBurnedTheWindow
<1>6. ASSUME NEW p \in Processes, NEW s \in Seqs, Fail(p, s) PROVE BurnInv'
  <2>1. /\ NoteFailure(p, s) /\ s \notin acked
        /\ UNCHANGED <<now, acked, claims>>
        /\ seq' = [seq EXCEPT ![p] = s]
        /\ failedSince' = [failedSince EXCEPT ![s] = IF @ = NotFailing THEN now ELSE @]
        /\ pc'[p] # "spend"
    BY <1>2, <1>6 DEF Fail, Deliver
  <2>2. PICK first \in Time, kept \in SUBSET FailureRecord :
              /\ kept \subseteq Noted(p, s, first) /\ first <= now
              /\ \/ first = now
                 \/ \E r \in failing[p] : r.seq = s /\ r.first = first
              /\ failing' = [failing EXCEPT ![p] = kept]
              /\ failingFor' = [failingFor EXCEPT ![p] = now - first]
    BY <1>1, <2>1, NoteFacts
  <2>3. failedSince'[s] <= first /\ failedSince'[s] \in Time
    <3>1. failedSince'[s] = IF failedSince[s] = NotFailing THEN now ELSE failedSince[s]
      BY <1>2, <2>1
    <3>2. CASE first = now
      BY <1>2, <3>1, <3>2 DEF Time
    <3>3. CASE \E r \in failing[p] : r.seq = s /\ r.first = first
      <4>1. failedSince[s] <= first
        BY <2>1, <3>3 DEF BurnInv, ClockIsHonest
      <4>2. failedSince[s] # NotFailing
        BY <1>2, <2>2, <4>1 DEF Time, NotFailing
      <4> QED
        BY <1>2, <3>1, <4>1, <4>2
    <3> QED
      BY <2>2, <3>2, <3>3
  <2>4. ClockIsHonest'
    <3>1. ASSUME NEW r \in kept PROVE r.seq \in acked \/ failedSince'[r.seq] <= r.first
      <4>1. CASE r = [seq |-> s, first |-> first, last |-> now]
        BY <2>3, <4>1
      <4>2. CASE r \in failing[p] \ ClockOf(failing[p], s)
        <5>1. r \in failing[p] /\ r.seq # s /\ r.seq \in Seqs
          BY <1>2, <4>2 DEF ClockOf, FailureRecord
        <5>2. failedSince'[r.seq] = failedSince[r.seq]
          BY <1>2, <2>1, <5>1
        <5> QED
          BY <5>1, <5>2 DEF BurnInv, ClockIsHonest
      <4> QED
        BY <2>2, <4>1, <4>2 DEF Noted
    <3>2. ASSUME NEW q \in Processes PROVE failing'[q] = kept
      BY <1>2, <2>2
    <3> QED
      BY <2>1, <3>1, <3>2 DEF ClockIsHonest
  <2>5. ASSUME NEW q \in Processes PROVE AgeIsHonest(q)'
    <3>1. q = p /\ seq'[p] = s /\ failingFor'[p] = now - first
      BY <1>2, <2>1, <2>2
    <3> QED
      BY <1>2, <2>1, <2>2, <2>3, <3>1 DEF AgeIsHonest, Time
  <2> QED
    BY <1>1, <2>1, <2>4, <2>5 DEF BurnInv, ClaimsBurnedTheWindow
<1>7. ASSUME NEW p \in Processes, NEW s \in Seqs, Succeed(p, s) PROVE BurnInv'
  <2>1. /\ acked' = acked \cup {s} /\ pc[p] = "idle"
        /\ failedSince' = [failedSince EXCEPT ![s] = NotFailing]
        /\ UNCHANGED <<now, settleVars, failing, claims>>
    BY <1>7 DEF Succeed, Deliver, Acknowledge
  <2>2. ClockIsHonest'
    <3> SUFFICES ASSUME NEW q \in Processes, NEW r \in failing[q]
                 PROVE  r.seq \in acked' \/ failedSince'[r.seq] <= r.first
      BY <2>1 DEF ClockIsHonest
    <3>1. r.seq \in Seqs /\ (r.seq \in acked \/ failedSince[r.seq] <= r.first)
      BY <1>2 DEF BurnInv, ClockIsHonest, FailureRecord
    <3> QED
      BY <1>2, <2>1, <3>1
  <2>3. ASSUME NEW q \in Processes PROVE AgeIsHonest(q)'
    BY <2>1 DEF AgeIsHonest, settleVars
  <2> QED
    BY <1>1, <2>1, <2>2, <2>3 DEF BurnInv, ClaimsBurnedTheWindow
<1>8. ASSUME NEW p \in Processes, Judge(p) PROVE BurnInv'
  <2>1. /\ UNCHANGED <<now, failing, failedSince, acked, claims, seq, failingFor>>
        /\ pc[p] = "judge"
        /\ pc'[p] = "spend" => failingFor[p] >= FloorAge
    BY <1>2, <1>8 DEF Judge, durableVars, historyVars
  <2>2. ASSUME NEW q \in Processes PROVE AgeIsHonest(q)'
    <3>1. q = p
      OBVIOUS
    <3> QED
      BY <2>1, <3>1 DEF BurnInv, AgeIsHonest
  <2> QED
    BY <1>1, <1>3, <2>1, <2>2 DEF BurnInv, ClaimsBurnedTheWindow
<1>9. ASSUME NEW p \in Processes, Claims(p) \/ NoClaim(p) \/ Restart(p)
      PROVE  ClockIsHonest' /\ \A q \in Processes : AgeIsHonest(q)'
  <2>1. /\ UNCHANGED <<now, failedSince>> /\ acked \subseteq acked'
        /\ pc' = [pc EXCEPT ![p] = "idle"]
        /\ \A q \in Processes : failing'[q] \subseteq failing[q]
    <3>1. /\ UNCHANGED <<now, failedSince>> /\ acked \subseteq acked'
          /\ pc' = [pc EXCEPT ![p] = "idle"]
      BY <1>9 DEF Claims, NoClaim, Dispose, Acknowledge, Restart, Return, durableVars, historyVars
    <3>2. \/ UNCHANGED failing
          \/ failing' = [failing EXCEPT ![p] = failing[p] \ ClockOf(failing[p], seq[p])]
          \/ failing' = [failing EXCEPT ![p] = {}]
      BY <1>2, <1>9 DEF Claims, NoClaim, Dispose, Restart
    <3> QED
      BY <1>2, <3>1, <3>2
  <2>2. ClockIsHonest'
    BY <2>1 DEF BurnInv, ClockIsHonest
  <2> QED
    BY <1>2, <2>1, <2>2 DEF AgeIsHonest
<1>10. ASSUME NEW p \in Processes, Claims(p) PROVE BurnInv'
  <2>1. /\ pc[p] = "spend"
        /\ claims' = claims \cup {[proc |-> p, seq |-> seq[p], n |-> delivered[p], at |-> now,
                                   lag |-> Lag(judged[p]), stuck |-> Stuck,
                                   burned |-> Burned(seq[p])]}
    BY <1>10 DEF Claims
  <2>2. Burned(seq[p]) >= FloorAge
    <3>1. /\ failedSince[seq[p]] + failingFor[p] <= now /\ failingFor[p] >= FloorAge
          /\ failedSince[seq[p]] \in Time \cup {NotFailing} /\ failingFor[p] \in Time
      BY <1>2, <2>1 DEF BurnInv, AgeIsHonest
    <3>2. failedSince[seq[p]] # NotFailing
      BY <1>2, <3>1 DEF Time, NotFailing
    <3> QED
      BY <1>2, <3>1, <3>2 DEF Burned, Time
  <2>3. ClaimsBurnedTheWindow'
    BY <2>1, <2>2 DEF BurnInv, ClaimsBurnedTheWindow
  <2> QED
    BY <1>1, <1>9, <1>10, <2>3 DEF BurnInv
<1>11. ASSUME NEW p \in Processes, NoClaim(p) \/ Restart(p) PROVE BurnInv'
  <2>1. claims' = claims
    BY <1>11 DEF NoClaim, Restart, historyVars
  <2> QED
    BY <1>1, <1>9, <1>11, <2>1 DEF BurnInv, ClaimsBurnedTheWindow
<1> QED
  BY <1>4, <1>5, <1>6, <1>7, <1>8, <1>10, <1>11
     DEF Next, vars, PollStart, ObserveFloor, PollFails, LoopLost, Consume, Attach, durableVars,
         historyVars

\* A message is claimed only after failing, with no success in between, for the
\* whole window, whatever the sweep drops and however often the process restarts.
\* One process: with two, another may process the message between the failure and
\* the claim.  Acks that land: a lost one leaves a message processed and failing.
THEOREM BurnedHolds ==
    ASSUME ~AckMayBeLost, \A p, q \in Processes : p = q
    PROVE  Spec => []ClaimsBurnedTheWindow
<1>1. Init => BurnInv
  <2> SUFFICES ASSUME Init PROVE BurnInv
    OBVIOUS
  <2>1. ClockIsHonest /\ ClaimsBurnedTheWindow /\ \A p \in Processes : AgeIsHonest(p)
    BY DEF Init, ClockIsHonest, AgeIsHonest, ClaimsBurnedTheWindow
  <2> QED
    BY <2>1, TypedInit DEF BurnInv
<1>2. BurnInv => ClaimsBurnedTheWindow
  BY DEF BurnInv
<1>3. BurnInv /\ [Next]_vars => BurnInv'
  BY BurnStep
<1> QED
  BY <1>1, <1>2, <1>3, PTL DEF Spec

=============================================================================

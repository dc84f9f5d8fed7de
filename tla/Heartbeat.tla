----------------------------- MODULE Heartbeat -----------------------------
(***************************************************************************)
(* natsmsg.KeepInProgress: a goroutine that calls InProgress at a third of *)
(* AckWait until stop is called, the tick cap is passed or the delivery    *)
(* cannot be extended any more.  One heartbeat per worker; the module that *)
(* composes it says what a call of InProgress does.                        *)
(***************************************************************************)
EXTENDS Naturals

CONSTANTS Workers,   \* consume loops, one handler each
          AckWait,   \* Config.EffectiveAckWait(), in clock ticks
          MaxTicks   \* keepInProgressMaxTicks

ASSUME HeartbeatAssumption == AckWait \in Nat \ {0} /\ MaxTicks \in Nat

VARIABLES hb,         \* per worker: where its heartbeat's goroutine is
          ticks,      \* per worker: ticks taken
          tickIn,     \* per worker: time until the ticker fires
          tickReady,  \* per worker: a tick waits in ticker.C
          done        \* workers whose done channel is closed

heartbeatVars == <<hb, ticks, tickIn, tickReady, done>>

HeartbeatState == {"off", "select", "calling", "finished"}

Interval == AckWait \div 3

HeartbeatTypeOK ==
    /\ hb \in [Workers -> HeartbeatState]
    /\ ticks \in [Workers -> 0..(MaxTicks + 1)]
    /\ tickIn \in [Workers -> 0..Interval]
    /\ tickReady \subseteq Workers /\ done \subseteq Workers

HeartbeatInit ==
    /\ hb = [w \in Workers |-> "off"]
    /\ ticks = [w \in Workers |-> 0]
    /\ tickIn = [w \in Workers |-> 0]
    /\ tickReady = {} /\ done = {}

\* KeepInProgress is called; an interval of zero starts nothing.
HeartbeatStarts(w) ==
    /\ hb' = [hb EXCEPT ![w] = IF Interval > 0 THEN "select" ELSE "off"]
    /\ ticks' = [ticks EXCEPT ![w] = 0]
    /\ tickIn' = [tickIn EXCEPT ![w] = Interval]
    /\ tickReady' = tickReady \ {w}
    /\ done' = done \ {w}

\* Mutant: the extension has no cap.
TakeTickUncapped(w, disposed) ==
    /\ hb[w] = "select" /\ w \in tickReady
    /\ tickReady' = tickReady \ {w}
    /\ hb' = [hb EXCEPT ![w] = IF disposed THEN "finished" ELSE "calling"]
    /\ UNCHANGED <<ticks, tickIn, done>>

\* Mutant: only the cap closes finished, not the return on a permanent failure.
TakeTickUnclosed(w, disposed) ==
    /\ hb[w] = "select" /\ w \in tickReady
    /\ tickReady' = tickReady \ {w}
    /\ ticks' = [ticks EXCEPT ![w] = @ + 1]
    /\ hb' = [hb EXCEPT ![w] = CASE ticks[w] + 1 > MaxTicks -> "finished"
                                 [] ticks[w] + 1 <= MaxTicks /\ disposed -> "exited"
                                 [] OTHER -> "calling"]
    /\ UNCHANGED <<tickIn, done>>

\* select takes a tick, even with done closed: past the cap the goroutine ends,
\* and so it does when InProgress finds the delivery already disposed of.
TakeTick(w, disposed) ==
    /\ hb[w] = "select" /\ w \in tickReady
    /\ tickReady' = tickReady \ {w}
    /\ ticks' = [ticks EXCEPT ![w] = @ + 1]
    /\ hb' = [hb EXCEPT ![w] = IF ticks[w] + 1 > MaxTicks \/ disposed
                               THEN "finished" ELSE "calling"]
    /\ UNCHANGED <<tickIn, done>>

\* InProgress returns nil or a transient error: back to select.
CallReturns(w) ==
    /\ hb[w] = "calling"
    /\ hb' = [hb EXCEPT ![w] = "select"]
    /\ UNCHANGED <<ticks, tickIn, tickReady, done>>

\* select sees done.
SeeDone(w) ==
    /\ hb[w] = "select" /\ w \in done
    /\ hb' = [hb EXCEPT ![w] = "finished"]
    /\ UNCHANGED <<ticks, tickIn, tickReady, done>>

\* stop: close(done), then wait for finished.
StopHeartbeat(w) ==
    /\ done' = done \cup {w}
    /\ UNCHANGED <<hb, ticks, tickIn, tickReady>>

\* stop returns, and what the closure held is gone.
HeartbeatStopped(w) ==
    /\ w \in done /\ hb[w] \in {"off", "finished"}
    /\ hb' = [hb EXCEPT ![w] = "off"]
    /\ ticks' = [ticks EXCEPT ![w] = 0]
    /\ tickIn' = [tickIn EXCEPT ![w] = 0]
    /\ tickReady' = tickReady \ {w}
    /\ done' = done \ {w}

Beating == {w \in Workers : hb[w] \in {"select", "calling"}}

\* Time passes for the tickers; a tick nobody took is dropped.
TickersAdvance ==
    /\ tickIn' = [w \in Workers |-> CASE w \notin Beating -> tickIn[w]
                                      [] w \in Beating /\ tickIn[w] = 1 -> Interval
                                      [] OTHER -> tickIn[w] - 1]
    /\ tickReady' = tickReady \cup {w \in Beating : tickIn[w] = 1}
    /\ UNCHANGED <<hb, ticks, done>>

\* The goroutine has nothing to do before the ticker fires again.
HeartbeatAtRest == \A w \in Beating : hb[w] = "select" /\ w \notin tickReady \cup done
=============================================================================

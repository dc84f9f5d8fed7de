------------------------------- MODULE Runner -------------------------------
(***************************************************************************)
(* jsconsumer.Run and the Runner that Start builds for each of its         *)
(* attempts.  Every attempt has a consume loop (external, nats.go), its    *)
(* handler, the ack-floor poll and the watcher that turns the attempt's    *)
(* cancellation into a Stop; Run itself may Stop the same Runner at the    *)
(* same moment.  All attempts share one FloorMonitor, which polls whatever *)
(* consumer was attached last.                                             *)
(***************************************************************************)
EXTENDS Naturals

CONSTANTS HasMonitor,    \* whether a FloorMonitor is configured
          RetryInitial,  \* runRetryInitial
          RetryMax,      \* runRetryMax
          MaxAttempts    \* bound on the calls of Start

ASSUME RunnerAssumption ==
    /\ HasMonitor \in BOOLEAN
    /\ RetryInitial \in Nat \ {0} /\ RetryMax \in Nat /\ RetryInitial <= RetryMax
    /\ MaxAttempts \in Nat \ {0}

VARIABLES ctx,         \* whether Run's context is cancelled
          run,         \* where Run is
          attempt,     \* Run's current attempt
          delay,       \* Run's retry delay
          attemptCtx,  \* attempts whose context was cancelled by Run
          consume,     \* per attempt: the consume loop
          handler,     \* attempts with onMsg running
          handlerCtx,  \* per attempt: the handlers' context
          stop,        \* per attempt: where the body of Runner.stop is
          watcher,     \* per attempt: the cancellation watcher
          poll,        \* per attempt: the pollFloor goroutine
          asked,       \* per attempt: the consumer its poll is asking
          attached,    \* the attempt whose consumer the monitor reads
          elapsed      \* history: attempts whose drain window elapsed

runVars == <<run, attempt, delay, attemptCtx>>
loopVars == <<consume, handler, handlerCtx>>
pollVars == <<poll, asked, attached>>
vars == <<ctx, runVars, loopVars, stop, watcher, pollVars, elapsed>>

Attempts == 1..MaxAttempts
Returned == {"nil", "error"}

TypeOK ==
    /\ ctx \in BOOLEAN
    /\ run \in {"starting", "consuming", "live", "stopping", "delaying"} \cup Returned
    /\ attempt \in Attempts
    /\ delay \in RetryInitial..RetryMax
    /\ attemptCtx \subseteq Attempts
    /\ consume \in [Attempts -> {"none", "open", "closing", "closed"}]
    /\ handler \subseteq Attempts
    /\ handlerCtx \in [Attempts -> {"none", "live", "cancelled"}]
    /\ stop \in [Attempts -> {"none", "window", "joining", "over"}]
    /\ watcher \in [Attempts -> {"none", "armed", "stopping", "done"}]
    /\ poll \in [Attempts -> {"none", "idle", "asking", "done"}]
    /\ asked \in [Attempts -> 0..MaxAttempts]
    /\ attached \in 0..MaxAttempts
    /\ elapsed \subseteq Attempts

Init ==
    /\ ctx = FALSE
    /\ run = "starting" /\ attempt = 1 /\ delay = RetryInitial
    /\ attemptCtx = {}
    /\ consume = [a \in Attempts |-> "none"]
    /\ handler = {}
    /\ handlerCtx = [a \in Attempts |-> "none"]
    /\ stop = [a \in Attempts |-> "none"]
    /\ watcher = [a \in Attempts |-> "none"]
    /\ poll = [a \in Attempts |-> "none"]
    /\ asked = [a \in Attempts |-> 0]
    /\ attached = 0
    /\ elapsed = {}

-----------------------------------------------------------------------------
(* The consume loop and the handler *)

\* Mutant: the handlers' context is a child of Run's.
CancelReachesHandlers ==
    /\ ~ctx
    /\ ctx' = TRUE
    /\ handlerCtx' = [a \in Attempts |->
                         IF handlerCtx[a] = "live" THEN "cancelled" ELSE handlerCtx[a]]
    /\ UNCHANGED <<runVars, consume, handler, stop, watcher, pollVars, elapsed>>

\* The parent context ends: WithoutCancel keeps it from the handlers.
Cancel ==
    /\ ~ctx
    /\ ctx' = TRUE
    /\ UNCHANGED <<runVars, loopVars, stop, watcher, pollVars, elapsed>>

Dispatch(a) ==
    /\ consume[a] = "open"
    /\ a \notin handler
    /\ handler' = handler \cup {a}
    /\ UNCHANGED <<ctx, runVars, consume, handlerCtx, stop, watcher, pollVars, elapsed>>

HandlerReturns(a) ==
    /\ a \in handler
    /\ handler' = handler \ {a}
    /\ UNCHANGED <<ctx, runVars, consume, handlerCtx, stop, watcher, pollVars, elapsed>>

\* The consumer is deleted on the server, or its subscription is gone.
LoopLost(a) ==
    /\ consume[a] = "open"
    /\ consume' = [consume EXCEPT ![a] = "closing"]
    /\ UNCHANGED <<ctx, runVars, handler, handlerCtx, stop, watcher, pollVars, elapsed>>

\* cc.Closed() closes: nothing is dispatched any more and no handler runs.
LoopCloses(a) ==
    /\ consume[a] = "closing"
    /\ a \notin handler
    /\ consume' = [consume EXCEPT ![a] = "closed"]
    /\ UNCHANGED <<ctx, runVars, handler, handlerCtx, stop, watcher, pollVars, elapsed>>

-----------------------------------------------------------------------------
(* Runner.Stop, called by Run and by the watcher; one of them runs the body *)

StopWanted(a) == (run = "stopping" /\ a = attempt) \/ watcher[a] = "stopping"

\* cc.Stop: nothing more is dispatched.
StopBegins(a) ==
    /\ StopWanted(a)
    /\ stop[a] = "none"
    /\ stop' = [stop EXCEPT ![a] = "window"]
    /\ consume' = [consume EXCEPT ![a] = IF @ = "open" THEN "closing" ELSE @]
    /\ UNCHANGED <<ctx, runVars, handler, handlerCtx, watcher, pollVars, elapsed>>

\* Mutant: the drain window has no end.
WindowWithoutEnd(a) ==
    /\ stop[a] = "window"
    /\ consume[a] = "closed"
    /\ stop' = [stop EXCEPT ![a] = "joining"]
    /\ UNCHANGED <<ctx, runVars, loopVars, watcher, pollVars, elapsed>>

\* windowElapsed: the loop closed in time, or the handler's context is cancelled.
WindowEnds(a) ==
    /\ stop[a] = "window"
    /\ stop' = [stop EXCEPT ![a] = "joining"]
    /\ \/ consume[a] = "closed" /\ UNCHANGED <<handlerCtx, elapsed>>
       \/ /\ consume[a] # "closed"
          /\ handlerCtx' = [handlerCtx EXCEPT ![a] = "cancelled"]
          /\ elapsed' = elapsed \cup {a}
    /\ UNCHANGED <<ctx, runVars, consume, handler, watcher, pollVars>>

\* The loop is down; the context is cancelled whatever happened.
StopJoins(a) ==
    /\ stop[a] = "joining"
    /\ consume[a] = "closed"
    /\ stop' = [stop EXCEPT ![a] = "over"]
    /\ handlerCtx' = [handlerCtx EXCEPT ![a] = "cancelled"]
    /\ UNCHANGED <<ctx, runVars, consume, handler, watcher, pollVars, elapsed>>

\* Mutant: Stop does not join the poll.
StopIgnoresPoll(a) == stop[a] = "over" /\ consume[a] = "closed"

\* What every caller of Stop waits for.
StopReturns(a) ==
    /\ stop[a] = "over"
    /\ consume[a] = "closed"
    /\ poll[a] \in {"none", "done"}

\* Mutant: the watcher waits for Run's context and nothing else.
WatcherOnParentOnly(a) ==
    /\ watcher[a] = "armed"
    /\ ctx
    /\ watcher' = [watcher EXCEPT ![a] = "stopping"]
    /\ UNCHANGED <<ctx, runVars, loopVars, stop, pollVars, elapsed>>

\* The watcher wakes on the attempt's context (Run's, or cancelled by Run) or on
\* the loop closing, and stops the Runner.
WatcherWakes(a) ==
    /\ watcher[a] = "armed"
    /\ ctx \/ a \in attemptCtx \/ consume[a] = "closed"
    /\ watcher' = [watcher EXCEPT ![a] = "stopping"]
    /\ UNCHANGED <<ctx, runVars, loopVars, stop, pollVars, elapsed>>

WatcherDone(a) ==
    /\ watcher[a] = "stopping"
    /\ StopReturns(a)
    /\ watcher' = [watcher EXCEPT ![a] = "done"]
    /\ UNCHANGED <<ctx, runVars, loopVars, stop, pollVars, elapsed>>

StopStep(a) ==
    \/ StopBegins(a) \/ WindowEnds(a) \/ StopJoins(a)
    \/ WatcherWakes(a) \/ WatcherDone(a) \/ LoopCloses(a)

-----------------------------------------------------------------------------
(* The ack-floor poll *)

\* The poll's context: the handlers', also cancelled when the loop closes.
PollCancelled(a) == handlerCtx[a] = "cancelled" \/ consume[a] = "closed"

\* pollOnce sends a consumer-info request to the attached consumer.
PollAsks(a) ==
    /\ poll[a] = "idle"
    /\ poll' = [poll EXCEPT ![a] = "asking"]
    /\ asked' = [asked EXCEPT ![a] = attached]
    /\ UNCHANGED <<ctx, runVars, loopVars, stop, watcher, attached, elapsed>>

\* The reply is applied, or the request failed.
PollAnswered(a) ==
    /\ poll[a] = "asking"
    /\ poll' = [poll EXCEPT ![a] = "idle"]
    /\ UNCHANGED <<ctx, runVars, loopVars, stop, watcher, asked, attached, elapsed>>

PollEnds(a) ==
    /\ poll[a] = "idle"
    /\ PollCancelled(a)
    /\ poll' = [poll EXCEPT ![a] = "done"]
    /\ UNCHANGED <<ctx, runVars, loopVars, stop, watcher, asked, attached, elapsed>>

-----------------------------------------------------------------------------
(* Run *)

\* Start fails: cancelled meanwhile is a clean exit, a permanent error goes to the
\* owner, the rest is retried (isRetryableStartError).
StartFails ==
    /\ run = "starting"
    /\ attemptCtx' = attemptCtx \cup {attempt}
    /\ \/ ctx /\ run' = "nil"
       \/ ~ctx /\ run' \in {"error", "delaying"}
    /\ UNCHANGED <<ctx, attempt, delay, loopVars, stop, watcher, pollVars, elapsed>>

\* Start has its consumer and calls Consume: handlers may run from here on.
StartConsumes ==
    /\ run = "starting"
    /\ run' = "consuming"
    /\ consume' = [consume EXCEPT ![attempt] = "open"]
    /\ handlerCtx' = [handlerCtx EXCEPT ![attempt] = "live"]
    /\ UNCHANGED <<ctx, attempt, delay, attemptCtx, handler, stop, watcher, pollVars, elapsed>>

\* The rest of Start: attach the monitor, start its poll and the watcher.
StartReturns ==
    /\ run = "consuming"
    /\ run' = "live"
    /\ attached' = IF HasMonitor THEN attempt ELSE attached
    /\ poll' = [poll EXCEPT ![attempt] = IF HasMonitor THEN "idle" ELSE "none"]
    /\ watcher' = [watcher EXCEPT ![attempt] = "armed"]
    /\ UNCHANGED <<ctx, attempt, delay, attemptCtx, loopVars, stop, asked, elapsed>>

\* Mutant: a lost loop is recreated without joining the old attempt.
RecreateWithoutJoin ==
    /\ run = "live"
    /\ ctx \/ consume[attempt] = "closed"
    /\ run' = IF ctx THEN "stopping" ELSE "delaying"
    /\ attemptCtx' = IF ctx THEN attemptCtx ELSE attemptCtx \cup {attempt}
    /\ UNCHANGED <<ctx, attempt, delay, loopVars, stop, watcher, pollVars, elapsed>>

\* Run's select wakes, on cancellation or on the loop closing: Stop either way.
RunWakes ==
    /\ run = "live"
    /\ ctx \/ consume[attempt] = "closed"
    /\ run' = "stopping"
    /\ UNCHANGED <<ctx, attempt, delay, attemptCtx, loopVars, stop, watcher, pollVars, elapsed>>

\* Stop has returned: a clean exit, or another attempt after a delay that a loop
\* of RetryMax or longer has reset.
AttemptOver ==
    /\ run = "stopping"
    /\ StopReturns(attempt)
    /\ attemptCtx' = attemptCtx \cup {attempt}
    /\ \/ ctx /\ run' = "nil" /\ UNCHANGED delay
       \/ /\ ~ctx
          /\ run' = "delaying"
          /\ delay' \in {delay, RetryInitial}
    /\ UNCHANGED <<ctx, attempt, loopVars, stop, watcher, pollVars, elapsed>>

\* The delay is over.
NextAttempt ==
    /\ run = "delaying"
    /\ attempt < MaxAttempts
    /\ run' = "starting"
    /\ attempt' = attempt + 1
    /\ delay' = IF delay * 2 < RetryMax THEN delay * 2 ELSE RetryMax
    /\ UNCHANGED <<ctx, attemptCtx, loopVars, stop, watcher, pollVars, elapsed>>

CancelledWhileDelaying ==
    /\ run = "delaying"
    /\ ctx
    /\ run' = "nil"
    /\ UNCHANGED <<ctx, attempt, delay, attemptCtx, loopVars, stop, watcher, pollVars, elapsed>>

RunStep ==
    \/ StartFails \/ StartConsumes \/ StartReturns \/ RunWakes \/ AttemptOver
    \/ NextAttempt \/ CancelledWhileDelaying

-----------------------------------------------------------------------------
Next ==
    \/ Cancel
    \/ RunStep
    \/ \E a \in Attempts :
          \/ Dispatch(a) \/ HandlerReturns(a) \/ LoopLost(a)
          \/ StopStep(a)
          \/ PollAsks(a) \/ PollAnswered(a) \/ PollEnds(a)

Spec == Init /\ [][Next]_vars

\* Goroutines run, timers fire, requests are answered or time out, and a handler
\* returns once its context is cancelled (the obligation Start puts on it).  A poll
\* whose context is done may pick its ticker instead, but not for ever: Go's select
\* is random among ready cases.
Fairness ==
    /\ WF_vars(RunStep)
    /\ \A a \in Attempts :
          /\ WF_vars(StopStep(a))
          /\ WF_vars(handlerCtx[a] = "cancelled" /\ HandlerReturns(a))
          /\ WF_vars(PollAnswered(a))
          /\ SF_vars(PollEnds(a))

FairSpec == Spec /\ Fairness

-----------------------------------------------------------------------------
(* Properties *)

\* Nothing of attempt a is left: no loop, no handler, no poll, no live context.
WoundDown(a) ==
    /\ consume[a] \in {"none", "closed"}
    /\ a \notin handler
    /\ poll[a] \in {"none", "done"}
    /\ handlerCtx[a] # "live"

\* Attempts do not overlap: when Start is called again nothing of the earlier ones
\* is left, whichever of Run and the watcher stopped them.
AttemptsDoNotOverlap == \A a \in Attempts : a < attempt => WoundDown(a)

\* A consumer-info request in flight was sent to the attached consumer, so no reply
\* of an old consumer overwrites what a new one said (the join in Run).
NoStaleReply == \A a \in Attempts : poll[a] = "asking" => asked[a] = attached

\* When Run returns the caller may tear down what handlers and polls use.
ReturnsDrained == run \in Returned => \A a \in Attempts : WoundDown(a)

\* A running handler's context is cancelled only by an elapsed drain window, never
\* by the shutdown itself or by the loop being lost (COR-2224).
HandlersGetTheirWindow ==
    \A a \in handler : handlerCtx[a] = "cancelled" => a \in elapsed

\* Cancelling Run ends it, when handlers honour their context.
CancelEndsRun == ctx ~> run \in Returned

\* A loop that closed releases its watcher and its context, whether Run or the
\* watcher notices first.
ClosedLoopIsReleased ==
    \A a \in Attempts :
        consume[a] = "closed" ~> (watcher[a] = "done" /\ handlerCtx[a] = "cancelled")
=============================================================================

---------------------------- MODULE RunnerProofs ----------------------------
(***************************************************************************)
(* Run's attempts do not overlap and leave nothing behind, proved for any  *)
(* number of attempts.  The invariant follows one attempt through its      *)
(* life: untouched, started, stopped, wound down.                          *)
(***************************************************************************)
EXTENDS Runner, TLAPS

\* Start has not reached attempt a.
Fresh(a) ==
    /\ consume[a] = "none" /\ handlerCtx[a] = "none" /\ poll[a] = "none"
    /\ stop[a] = "none" /\ watcher[a] = "none" /\ a \notin handler

\* What holds of one Runner: a handler keeps its loop open, the context of a
\* running handler is cancelled by its window only, and Stop's body ends with the
\* loop closed and the context cancelled.
RunnerInv(a) ==
    /\ a \in handler => consume[a] \in {"open", "closing"}
    /\ handlerCtx[a] = "cancelled" /\ consume[a] # "closed" => a \in elapsed
    /\ stop[a] = "over" => consume[a] = "closed" /\ handlerCtx[a] = "cancelled"

\* Where the current attempt is, by where Run is.
CurrentInv ==
    /\ run = "starting" => Fresh(attempt)
    /\ run = "consuming" => poll[attempt] = "none"
    /\ run \in {"delaying"} \cup Returned => WoundDown(attempt)
    /\ poll[attempt] \in {"idle", "asking"} => attached = attempt
    /\ poll[attempt] = "asking" => asked[attempt] = attempt

Inv ==
    /\ TypeOK
    /\ \A a \in Attempts : a > attempt => Fresh(a)
    /\ \A a \in Attempts : a < attempt => WoundDown(a)
    /\ \A a \in Attempts : RunnerInv(a)
    /\ CurrentInv

\* The invariant contains the properties.
LEMMA InvSuffices ==
    Inv => AttemptsDoNotOverlap /\ NoStaleReply /\ ReturnsDrained /\ HandlersGetTheirWindow
<1> SUFFICES ASSUME Inv
             PROVE  AttemptsDoNotOverlap /\ NoStaleReply /\ ReturnsDrained /\ HandlersGetTheirWindow
  OBVIOUS
<1>0. attempt \in Nat /\ handler \subseteq Attempts
  BY RunnerAssumption DEF Inv, TypeOK, Attempts
<1>1. \A a \in Attempts : a \in Nat /\ (a < attempt \/ a = attempt \/ a > attempt)
  BY <1>0, RunnerAssumption DEF Attempts
<1>2. AttemptsDoNotOverlap
  BY DEF Inv, AttemptsDoNotOverlap
<1>3. NoStaleReply
  BY <1>1 DEF Inv, CurrentInv, NoStaleReply, Fresh, WoundDown
<1>4. ReturnsDrained
  BY <1>1 DEF Inv, CurrentInv, ReturnsDrained, Fresh, WoundDown
<1>5. HandlersGetTheirWindow
  BY <1>0 DEF Inv, RunnerInv, HandlersGetTheirWindow
<1> QED
  BY <1>2, <1>3, <1>4, <1>5

\* A step of attempt a: its handler, its loop, Stop, its watcher or its poll.
AttemptStep(a) ==
    \/ Dispatch(a) \/ HandlerReturns(a) \/ LoopLost(a) \/ StopStep(a)
    \/ PollAsks(a) \/ PollAnswered(a) \/ PollEnds(a)

\* What a step of attempt a leaves alone, and what it may do to its own attempt.
LEMMA AttemptStepEffect ==
    ASSUME TypeOK, NEW a \in Attempts, AttemptStep(a)
    PROVE  /\ UNCHANGED <<ctx, run, attempt, delay, attemptCtx, attached>>
           /\ TypeOK'
           /\ \A b \in Attempts \ {a} :
                 /\ UNCHANGED <<consume[b], handlerCtx[b], poll[b], stop[b], watcher[b], asked[b]>>
                 /\ (b \in handler' <=> b \in handler) /\ (b \in elapsed' <=> b \in elapsed)
           /\ WoundDown(a) => WoundDown(a)'
           /\ Fresh(a) => a = attempt /\ run = "stopping"
           /\ RunnerInv(a) => RunnerInv(a)'
<1> USE DEF TypeOK
<1>1. CASE Dispatch(a)
  BY <1>1 DEF Dispatch, runVars, pollVars, WoundDown, Fresh, RunnerInv
<1>2. CASE HandlerReturns(a)
  BY <1>2 DEF HandlerReturns, runVars, pollVars, WoundDown, Fresh, RunnerInv
<1>3. CASE LoopLost(a)
  BY <1>3 DEF LoopLost, runVars, pollVars, WoundDown, Fresh, RunnerInv
<1>4. CASE StopBegins(a)
  BY <1>4 DEF StopBegins, StopWanted, runVars, pollVars, WoundDown, Fresh, RunnerInv
<1>5. CASE WindowEnds(a)
  BY <1>5 DEF WindowEnds, runVars, pollVars, WoundDown, Fresh, RunnerInv
<1>6. CASE StopJoins(a)
  BY <1>6 DEF StopJoins, runVars, pollVars, WoundDown, Fresh, RunnerInv
<1>7. CASE WatcherWakes(a) \/ WatcherDone(a)
  BY <1>7 DEF WatcherWakes, WatcherDone, runVars, loopVars, pollVars, WoundDown, Fresh, RunnerInv
<1>8. CASE LoopCloses(a)
  BY <1>8 DEF LoopCloses, runVars, pollVars, WoundDown, Fresh, RunnerInv
<1>9. CASE PollAsks(a) \/ PollAnswered(a) \/ PollEnds(a)
  BY <1>9 DEF PollAsks, PollAnswered, PollEnds, runVars, loopVars, WoundDown, Fresh, RunnerInv
<1> QED
  BY <1>1, <1>2, <1>3, <1>4, <1>5, <1>6, <1>7, <1>8, <1>9 DEF AttemptStep, StopStep

\* A step of an attempt preserves the invariant.
LEMMA AttemptPreserves ==
    ASSUME Inv, NEW a \in Attempts, AttemptStep(a) PROVE Inv'
<1>0. TypeOK /\ attempt \in Attempts /\ attempt \in Nat /\ a \in Nat
  BY RunnerAssumption DEF Inv, TypeOK, Attempts
<1>1. TypeOK' /\ UNCHANGED <<run, attempt, attached>>
  BY <1>0, AttemptStepEffect
<1>2. \A b \in Attempts \ {a} :
         /\ UNCHANGED <<consume[b], handlerCtx[b], poll[b], stop[b], watcher[b], asked[b]>>
         /\ (b \in handler' <=> b \in handler) /\ (b \in elapsed' <=> b \in elapsed)
  BY <1>0, AttemptStepEffect
<1>3. \A b \in Attempts : WoundDown(b) => WoundDown(b)'
  BY <1>0, <1>2, AttemptStepEffect DEF WoundDown
<1>4. \A b \in Attempts : RunnerInv(b)'
  BY <1>0, <1>2, AttemptStepEffect DEF Inv, RunnerInv
<1>5. \A b \in Attempts : b # a /\ Fresh(b) => Fresh(b)'
  BY <1>2 DEF Fresh
<1>6. Fresh(a) => a = attempt /\ run = "stopping"
  BY <1>0, AttemptStepEffect
<1>7. CurrentInv'
  <2>1. CASE a # attempt
    BY <1>0, <1>1, <1>2, <1>3, <1>5, <2>1 DEF Inv, CurrentInv
  <2>2. CASE a = attempt
    <3>1. run # "starting"
      BY <1>6, <2>2 DEF Inv, CurrentInv
    <3>2. poll[a] = "none" => poll'[a] = "none"
      BY <1>0 DEF AttemptStep, StopStep, Dispatch, HandlerReturns, LoopLost, StopBegins,
         WindowEnds, StopJoins, WatcherWakes, WatcherDone, LoopCloses, PollAsks,
         PollAnswered, PollEnds, pollVars, TypeOK
    <3>3. poll'[a] \in {"idle", "asking"} => poll[a] \in {"idle", "asking"}
      BY <1>0 DEF AttemptStep, StopStep, Dispatch, HandlerReturns, LoopLost, StopBegins,
         WindowEnds, StopJoins, WatcherWakes, WatcherDone, LoopCloses, PollAsks,
         PollAnswered, PollEnds, pollVars, TypeOK
    <3>4. poll'[a] = "asking" => asked'[a] = attempt
      BY <1>0, <2>2 DEF Inv, CurrentInv, AttemptStep, StopStep, Dispatch, HandlerReturns,
         LoopLost, StopBegins, WindowEnds, StopJoins, WatcherWakes, WatcherDone, LoopCloses,
         PollAsks, PollAnswered, PollEnds, pollVars, TypeOK
    <3> QED
      BY <1>0, <1>1, <1>3, <2>2, <3>1, <3>2, <3>3, <3>4 DEF Inv, CurrentInv
  <2> QED
    BY <2>1, <2>2
<1>8. (\A b \in Attempts : b > attempt => Fresh(b))'
  <2> SUFFICES ASSUME NEW b \in Attempts, b > attempt PROVE Fresh(b)'
    BY <1>1
  <2>1. Fresh(b)
    BY DEF Inv
  <2>2. b # a
    BY <2>1, <1>6, <1>0
  <2> QED
    BY <1>5, <2>1, <2>2
<1>9. (\A b \in Attempts : b < attempt => WoundDown(b))'
  BY <1>1, <1>3 DEF Inv
<1> QED
  BY <1>1, <1>4, <1>7, <1>8, <1>9 DEF Inv

\* A step of Run preserves the invariant.
LEMMA RunPreserves == ASSUME Inv, RunStep PROVE Inv'
<1>0. TypeOK /\ attempt \in Attempts /\ \A a \in Attempts : a \in Nat
  BY RunnerAssumption DEF Inv, TypeOK, Attempts
<1>1. ASSUME TypeOK', UNCHANGED <<attempt, loopVars, stop, watcher, pollVars, elapsed>>,
             run' = "starting" => run = "starting", run' = "consuming" => run = "consuming",
             run' \in {"delaying"} \cup Returned => WoundDown(attempt)
      PROVE  Inv'
  BY <1>1 DEF Inv, CurrentInv, RunnerInv, Fresh, WoundDown, loopVars, pollVars
<1>2. CASE StartFails
  <2>1. TypeOK'
    BY <1>0, <1>2 DEF StartFails, TypeOK, Returned, loopVars, pollVars
  <2>2. WoundDown(attempt)
    BY <1>2 DEF StartFails, Inv, CurrentInv, Fresh, WoundDown
  <2> QED
    BY <1>1, <1>2, <2>1, <2>2 DEF StartFails, Returned
<1>3. CASE StartConsumes
  <2>1. TypeOK'
    BY <1>0, <1>3 DEF StartConsumes, TypeOK, pollVars
  <2>2. Fresh(attempt)
    BY <1>3 DEF StartConsumes, Inv, CurrentInv
  <2>3. /\ UNCHANGED <<attempt, handler, stop, watcher, poll, asked, attached, elapsed>>
        /\ run' = "consuming" /\ consume'[attempt] = "open" /\ handlerCtx'[attempt] = "live"
        /\ \A a \in Attempts \ {attempt} : UNCHANGED <<consume[a], handlerCtx[a]>>
    BY <1>0, <1>3 DEF StartConsumes, pollVars, TypeOK
  <2>4. \A a \in Attempts : a # attempt => /\ Fresh(a) => Fresh(a)'
                                           /\ WoundDown(a) => WoundDown(a)'
    BY <2>3 DEF Fresh, WoundDown
  <2>5. \A a \in Attempts : RunnerInv(a)'
    BY <2>2, <2>3 DEF Inv, RunnerInv, Fresh
  <2>6. CurrentInv'
    BY <2>2, <2>3 DEF CurrentInv, Fresh, Returned
  <2> QED
    BY <1>0, <2>1, <2>3, <2>4, <2>5, <2>6 DEF Inv
<1>4. CASE StartReturns
  <2>1. TypeOK'
    BY <1>0, <1>4 DEF StartReturns, TypeOK, loopVars, Attempts
  <2>2. /\ UNCHANGED <<attempt, consume, handler, handlerCtx, stop, elapsed>>
        /\ run' = "live" /\ attached' = (IF HasMonitor THEN attempt ELSE attached)
        /\ poll'[attempt] = (IF HasMonitor THEN "idle" ELSE "none")
        /\ \A a \in Attempts \ {attempt} : UNCHANGED <<poll[a], watcher[a]>>
    BY <1>0, <1>4 DEF StartReturns, loopVars, TypeOK
  <2>3. \A a \in Attempts : a # attempt => /\ Fresh(a) => Fresh(a)'
                                           /\ WoundDown(a) => WoundDown(a)'
    BY <2>2 DEF Fresh, WoundDown
  <2>4. \A a \in Attempts : RunnerInv(a)'
    BY <2>2 DEF Inv, RunnerInv
  <2>5. CurrentInv'
    BY <2>2 DEF CurrentInv, Returned
  <2> QED
    BY <1>0, <2>1, <2>2, <2>3, <2>4, <2>5 DEF Inv
<1>5. CASE RunWakes
  <2>1. TypeOK'
    BY <1>0, <1>5 DEF RunWakes, TypeOK, loopVars, pollVars
  <2> QED
    BY <1>1, <1>5, <2>1 DEF RunWakes, Returned
<1>6. CASE AttemptOver
  <2>1. TypeOK'
    BY <1>0, <1>6, RunnerAssumption DEF AttemptOver, TypeOK, Returned, loopVars, pollVars
  <2>2. WoundDown(attempt)
    BY <1>0, <1>6 DEF AttemptOver, StopReturns, Inv, RunnerInv, WoundDown
  <2> QED
    BY <1>1, <1>6, <2>1, <2>2 DEF AttemptOver
<1>7. CASE NextAttempt
  <2>1. TypeOK'
    <3>1. attempt' \in Attempts
      BY <1>0, <1>7, RunnerAssumption DEF NextAttempt, Attempts
    <3>2. delay' \in RetryInitial..RetryMax
      BY <1>0, <1>7, RunnerAssumption DEF NextAttempt, TypeOK
    <3> QED
      BY <1>0, <1>7, <3>1, <3>2 DEF NextAttempt, TypeOK, loopVars, pollVars
  <2>2. WoundDown(attempt) /\ attempt' = attempt + 1 /\ run' = "starting"
    BY <1>7 DEF NextAttempt, Inv, CurrentInv
  <2>3. \A a \in Attempts : /\ Fresh(a) => Fresh(a)'
                            /\ WoundDown(a) => WoundDown(a)'
                            /\ RunnerInv(a) => RunnerInv(a)'
    BY <1>7 DEF NextAttempt, loopVars, pollVars, Fresh, WoundDown, RunnerInv
  <2>4. \A a \in Attempts : a > attempt => Fresh(a)
    BY DEF Inv
  <2>5. attempt' \in Attempts /\ attempt' > attempt
    BY <1>0, <2>1, <2>2 DEF TypeOK
  <2>6. Fresh(attempt)'
    <3>1. \A a \in Attempts : a = attempt' => Fresh(a)'
      BY <2>3, <2>4, <2>5
    <3> QED
      BY <2>5, <3>1 DEF Fresh
  <2>7. CurrentInv'
    BY <2>2, <2>6 DEF CurrentInv, Fresh, Returned
  <2>8. \A a \in Attempts : a < attempt' => WoundDown(a)'
    BY <1>0, <2>2, <2>3 DEF Inv
  <2>9. \A a \in Attempts : a > attempt' => Fresh(a)'
    BY <1>0, <2>2, <2>3, <2>4
  <2> QED
    BY <2>1, <2>3, <2>7, <2>8, <2>9 DEF Inv
<1>8. CASE CancelledWhileDelaying
  <2>1. TypeOK'
    BY <1>0, <1>8 DEF CancelledWhileDelaying, TypeOK, Returned, loopVars, pollVars
  <2>2. WoundDown(attempt)
    BY <1>8 DEF CancelledWhileDelaying, Inv, CurrentInv
  <2> QED
    BY <1>1, <1>8, <2>1, <2>2 DEF CancelledWhileDelaying
<1> QED
  BY <1>2, <1>3, <1>4, <1>5, <1>6, <1>7, <1>8 DEF RunStep

\* The invariant holds of every behaviour.
LEMMA Invariance == Spec => []Inv
<1>1. Init => Inv
  <2> SUFFICES ASSUME Init PROVE Inv
    OBVIOUS
  <2>1. 1 \in Attempts /\ RetryInitial \in RetryInitial..RetryMax /\ 0 \in 0..MaxAttempts
    BY RunnerAssumption DEF Attempts
  <2>2. TypeOK
    BY <2>1 DEF Init, TypeOK
  <2>3. \A a \in Attempts : Fresh(a) /\ RunnerInv(a) /\ ~(a < attempt)
    BY RunnerAssumption DEF Init, Fresh, RunnerInv, Attempts
  <2>4. CurrentInv
    BY <2>1, <2>3 DEF Init, CurrentInv, Fresh, Returned
  <2> QED
    BY <2>2, <2>3, <2>4 DEF Inv
<1>2. Inv /\ [Next]_vars => Inv'
  <2> SUFFICES ASSUME Inv, [Next]_vars PROVE Inv'
    OBVIOUS
  <2>1. CASE UNCHANGED vars
    BY <2>1 DEF vars, runVars, loopVars, pollVars, Inv, TypeOK, CurrentInv, RunnerInv, Fresh,
                WoundDown
  <2>2. CASE Cancel
    BY <2>2 DEF Cancel, runVars, loopVars, pollVars, Inv, TypeOK, CurrentInv, RunnerInv, Fresh,
                WoundDown
  <2>3. CASE RunStep
    BY <2>3, RunPreserves
  <2>4. ASSUME NEW a \in Attempts, AttemptStep(a) PROVE Inv'
    BY <2>4, AttemptPreserves
  <2> QED
    BY <2>1, <2>2, <2>3, <2>4 DEF Next, AttemptStep
<1> QED
  BY <1>1, <1>2, PTL DEF Spec

\* Run's state stays well-formed over any number of attempts, its delay within bounds.
THEOREM TypeCorrect == Spec => []TypeOK
<1>1. Inv => TypeOK
  BY DEF Inv
<1> QED
  BY <1>1, Invariance, PTL

\* However Run and the watchers race, an attempt begins with nothing of the earlier
\* ones left: no loop, handler, poll or live context.
THEOREM NoOverlap == Spec => []AttemptsDoNotOverlap
<1>1. Inv => AttemptsDoNotOverlap
  BY InvSuffices
<1> QED
  BY <1>1, Invariance, PTL

\* The monitor is never given an old consumer's answer.
THEOREM RepliesAreCurrent == Spec => []NoStaleReply
<1>1. Inv => NoStaleReply
  BY InvSuffices
<1> QED
  BY <1>1, Invariance, PTL

\* When Run returns, what its handlers and polls use may be torn down.
THEOREM DrainedOnReturn == Spec => []ReturnsDrained
<1>1. Inv => ReturnsDrained
  BY InvSuffices
<1> QED
  BY <1>1, Invariance, PTL

\* A handler's context is cancelled under it by its own drain window only.
THEOREM WindowKept == Spec => []HandlersGetTheirWindow
<1>1. Inv => HandlersGetTheirWindow
  BY InvSuffices
<1> QED
  BY <1>1, Invariance, PTL
=============================================================================

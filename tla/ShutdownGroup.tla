--------------------------- MODULE ShutdownGroup ---------------------------
(***************************************************************************)
(* nuts.ShutdownGroup: background loops started with Go, connections       *)
(* registered with AddConn, and Shutdown: close the group, cancel its      *)
(* context, join the loops (bounded), then drain the connections with      *)
(* Drain, concurrently.                                                    *)
(*                                                                         *)
(* Every critical section of g.mu is one step, and so is every call made   *)
(* outside it: a loop's failure is stored, its cancel and its wg.Done      *)
(* follow as steps of their own, and Shutdown may run in between.          *)
(***************************************************************************)
EXTENDS Drain

CONSTANTS Loops,    \* functions handed to Go
          Callers   \* goroutines calling Shutdown

VARIABLES loop,       \* per loop: where its goroutine is
          closed,     \* g.closed
          cancelled,  \* whether g.ctx is done
          err,        \* g.err
          shutdown,   \* where the one run of g.shutdown is
          caller,     \* per caller of Shutdown: "none", "waiting" or "returned"
          answer,     \* per caller: what Shutdown returned
          timedOut,   \* history: whether the join timed out
          panics      \* history: loops whose function panicked

historyVars == <<timedOut, panics>>
groupVars == <<loop, closed, cancelled, err, shutdown, caller, answer, historyVars>>
vars == <<groupVars, drainVars>>

\* panicked, returned: fn is over, its deferred record is not.  cancelling: the
\* failure is stored and g.cancel is due.  recorded: only wg.Done is left.
LoopState == {"none", "refused", "running", "panicked", "returned", "cancelling",
              "recorded", "done"}
Error == {"none", "panic", "premature", "join_timeout"} \cup DrainResult
Stage == {"none", "closed", "joining", "draining", "done"}

TypeOK ==
    /\ DrainTypeOK
    /\ loop \in [Loops -> LoopState]
    /\ closed \in BOOLEAN /\ cancelled \in BOOLEAN /\ timedOut \in BOOLEAN
    /\ err \in Error
    /\ shutdown \in Stage
    /\ caller \in [Callers -> {"none", "waiting", "returned"}]
    /\ answer \in [Callers -> Error]
    /\ panics \in SUBSET Loops

Init ==
    /\ DrainInit
    /\ loop = [l \in Loops |-> "none"]
    /\ closed = FALSE /\ cancelled = FALSE /\ timedOut = FALSE
    /\ err = "none"
    /\ shutdown = "none"
    /\ caller = [s \in Callers |-> "none"]
    /\ answer = [s \in Callers |-> "none"]
    /\ panics = {}

\* The loops wg.Wait waits for.
Live == {l \in Loops : loop[l] \notin {"none", "refused", "done"}}

\* Mutant: the last failure wins.
LastErrorWins(e) == err' = e

\* g.err keeps the first failure.
FirstError(e) == err' = IF err = "none" THEN e ELSE err

LoopGoes(l, to) == loop' = [loop EXCEPT ![l] = to]

-----------------------------------------------------------------------------
(* Registration *)

\* Mutant: a loop is started whatever Shutdown has done.
GoUngated(l) ==
    /\ loop[l] = "none"
    /\ LoopGoes(l, "running")
    /\ UNCHANGED <<closed, cancelled, err, shutdown, caller, answer, historyVars, drainVars>>

\* Go: wg.Add under the lock, or refused.
Go(l) ==
    /\ loop[l] = "none"
    /\ LoopGoes(l, IF closed THEN "refused" ELSE "running")
    /\ UNCHANGED <<closed, cancelled, err, shutdown, caller, answer, historyVars, drainVars>>

\* AddConn, before Shutdown closes the group; later it is refused and changes
\* nothing.  One connection may be registered twice.
AddConn(d, c) ==
    /\ ~closed
    /\ target[d] = NoConn
    /\ target' = [target EXCEPT ![d] = c]
    /\ UNCHANGED <<groupVars, status, call, result>>

-----------------------------------------------------------------------------
(* A loop's goroutine *)

FnPanics(l) ==
    /\ loop[l] = "running"
    /\ LoopGoes(l, "panicked")
    /\ panics' = panics \cup {l}
    /\ UNCHANGED <<closed, cancelled, err, shutdown, caller, answer, timedOut, drainVars>>

FnReturns(l) ==
    /\ loop[l] = "running"
    /\ LoopGoes(l, "returned")
    /\ UNCHANGED <<closed, cancelled, err, shutdown, caller, answer, historyVars, drainVars>>

\* recordError(err, true), up to the unlock.
RecordPanic(l) ==
    /\ loop[l] = "panicked"
    /\ FirstError("panic")
    /\ LoopGoes(l, IF err = "none" THEN "cancelling" ELSE "recorded")
    /\ UNCHANGED <<closed, cancelled, shutdown, caller, answer, historyVars, drainVars>>

\* Mutant: a return is judged by the context alone.
JudgeReturnByContext(l) ==
    LET premature == ~cancelled /\ err = "none" IN
    /\ loop[l] = "returned"
    /\ err' = IF premature THEN "premature" ELSE err
    /\ LoopGoes(l, IF premature THEN "cancelling" ELSE "recorded")
    /\ UNCHANGED <<closed, cancelled, shutdown, caller, answer, historyVars, drainVars>>

\* recordPrematureReturn, up to the unlock.
RecordReturn(l) ==
    LET premature == ~closed /\ ~cancelled /\ err = "none" IN
    /\ loop[l] = "returned"
    /\ err' = IF premature THEN "premature" ELSE err
    /\ LoopGoes(l, IF premature THEN "cancelling" ELSE "recorded")
    /\ UNCHANGED <<closed, cancelled, shutdown, caller, answer, historyVars, drainVars>>

\* Mutant: the failure is recorded and the group keeps running.
NoCancel(l) ==
    /\ loop[l] = "cancelling"
    /\ LoopGoes(l, "recorded")
    /\ UNCHANGED <<closed, cancelled, err, shutdown, caller, answer, historyVars, drainVars>>

\* g.cancel(err), outside the lock.
CancelGroup(l) ==
    /\ loop[l] = "cancelling"
    /\ cancelled' = TRUE
    /\ LoopGoes(l, "recorded")
    /\ UNCHANGED <<closed, err, shutdown, caller, answer, historyVars, drainVars>>

\* The deferred wg.Done, last of all.
LoopDone(l) ==
    /\ loop[l] = "recorded"
    /\ LoopGoes(l, "done")
    /\ UNCHANGED <<closed, cancelled, err, shutdown, caller, answer, historyVars, drainVars>>

Unwind(l) == RecordPanic(l) \/ RecordReturn(l) \/ CancelGroup(l) \/ LoopDone(l)

\* The parent context ends (a signal).
ParentCancelled ==
    /\ ~cancelled
    /\ cancelled' = TRUE
    /\ UNCHANGED <<loop, closed, err, shutdown, caller, answer, historyVars, drainVars>>

-----------------------------------------------------------------------------
(* Shutdown *)

\* A call: the first one runs g.shutdown, which closes the group under the lock;
\* the others wait for it in once.Do.
CallShutdown(s) ==
    /\ caller[s] = "none"
    /\ caller' = [caller EXCEPT ![s] = "waiting"]
    /\ closed' = TRUE
    /\ shutdown' = IF shutdown = "none" THEN "closed" ELSE shutdown
    /\ UNCHANGED <<loop, cancelled, err, answer, historyVars, drainVars>>

CancelAll ==
    /\ shutdown = "closed"
    /\ cancelled' = TRUE
    /\ shutdown' = "joining"
    /\ UNCHANGED <<loop, closed, err, caller, answer, historyVars, drainVars>>

\* A goroutine per registered connection enters Drain.
StartDrains ==
    /\ shutdown' = "draining"
    /\ call' = [d \in Drainers |-> IF target[d] \in Conns THEN "entered" ELSE "none"]
    /\ UNCHANGED <<loop, closed, cancelled, caller, answer, panics, status, target, result>>

Joined ==
    /\ shutdown = "joining"
    /\ Live = {}
    /\ StartDrains
    /\ UNCHANGED <<err, timedOut>>

\* Mutant: the join has no bound.
NoJoinTimeout == FALSE

\* The timer wins: draining anyway.
JoinTimeout ==
    /\ shutdown = "joining"
    /\ Live # {}
    /\ timedOut' = TRUE
    /\ FirstError("join_timeout")
    /\ StartDrains

\* Mutant: a drain's error is logged and not recorded.
DrainErrorDropped(d) ==
    /\ DrainStep(d)
    /\ UNCHANGED groupVars

\* Drain returns; its error, if any, is recorded.
DrainConn(d) ==
    /\ DrainStep(d)
    /\ IF result'[d] \in {"none", "ok"} THEN UNCHANGED err ELSE FirstError(result'[d])
    /\ UNCHANGED <<loop, closed, cancelled, shutdown, caller, answer, historyVars>>

\* dwg.Wait returns.
Finish ==
    /\ shutdown = "draining"
    /\ \A d \in Drainers : call[d] \in {"none", "returned"}
    /\ shutdown' = "done"
    /\ UNCHANGED <<loop, closed, cancelled, err, caller, answer, historyVars, drainVars>>

\* once.Do is over: g.Err().
ShutdownReturns(s) ==
    /\ caller[s] = "waiting"
    /\ shutdown = "done"
    /\ caller' = [caller EXCEPT ![s] = "returned"]
    /\ answer' = [answer EXCEPT ![s] = err]
    /\ UNCHANGED <<loop, closed, cancelled, err, shutdown, historyVars, drainVars>>

-----------------------------------------------------------------------------
Next ==
    \/ \E l \in Loops : Go(l) \/ FnPanics(l) \/ FnReturns(l) \/ Unwind(l)
    \/ \E d \in Drainers : (\E c \in Conns : AddConn(d, c)) \/ DrainConn(d)
    \/ \E c \in Conns : ConnCloses(c) /\ UNCHANGED groupVars
    \/ \E s \in Callers : CallShutdown(s) \/ ShutdownReturns(s)
    \/ ParentCancelled \/ CancelAll \/ Joined \/ JoinTimeout \/ Finish

Spec == Init /\ [][Next]_vars

\* Goroutines run, timers fire, deferred functions complete.  Nothing is assumed
\* of the loops' own functions, of the connections or of who calls what.
Fairness ==
    /\ \A l \in Loops : WF_vars(Unwind(l))
    /\ \A d \in Drainers : WF_vars(DrainConn(d))
    /\ \A s \in Callers : WF_vars(ShutdownReturns(s))
    /\ WF_vars(CancelAll) /\ WF_vars(Joined \/ JoinTimeout) /\ WF_vars(Finish)

FairSpec == Spec /\ Fairness

-----------------------------------------------------------------------------
(* Properties *)

\* A connection is not drained under a loop that is still running, unless the
\* join timed out and Shutdown's answer says something failed (COR-923).
DrainsAfterJoin ==
    shutdown \in {"draining", "done"} => (Live = {} \/ (timedOut /\ err # "none"))

\* When Shutdown says nil, nothing failed: no loop panicked, all have ended, and
\* every registered connection was drained without an error.
NilMeansClean ==
    \A s \in Callers : caller[s] = "returned" /\ answer[s] = "none" =>
        /\ Live = {} /\ panics = {}
        /\ \A d \in Drainers : target[d] \in Conns => result[d] = "ok"

\* Every call of Shutdown returns the same result, at whatever time ("later
\* calls return the same result"), and every connection is closed by then.
AnswersAgree ==
    \A s \in Callers : caller[s] = "returned" =>
        /\ answer[s] = err
        /\ \A d \in Drainers : target[d] \in Conns => status[target[d]] = "closed"

\* A return that happens while Shutdown is under way is no failure, even before
\* the context is cancelled (recordPrematureReturn).
TeardownIsNoFailure == [][closed => err' # "premature" \/ err = "premature"]_vars

\* A failed loop takes the group down: a panic or a premature return is followed
\* by the cancellation of the context its siblings and the owner watch.
FailureCancels == err \in {"panic", "premature"} ~> cancelled

\* Shutdown returns, whether or not the loops ever stop.
ShutdownEnds == \A s \in Callers : caller[s] = "waiting" ~> caller[s] = "returned"
=============================================================================

------------------------ MODULE ShutdownGroupProofs ------------------------
(***************************************************************************)
(* Shutdown's answer, proved for any number of loops, callers, connections *)
(* and registrations.                                                      *)
(***************************************************************************)
EXTENDS ShutdownGroup, TLAPS

\* Shutdown's stages: the group is closed first, connections are drained in the
\* draining stage only, and all of them before it is left.
StagesInOrder ==
    /\ closed <=> shutdown # "none"
    /\ shutdown \in {"none", "closed", "joining"} => \A d \in Drainers : call[d] = "none"
    /\ shutdown = "done" => \A d \in Drainers : call[d] \in {"none", "returned"}
    /\ shutdown \in {"draining", "done"} =>
          \A d \in Drainers : target[d] \in Conns => call[d] # "none"
    /\ \A s \in Callers : caller[s] = "returned" => shutdown = "done"

\* Whatever failed is stored before its goroutine says it is done.
FailuresStored ==
    /\ \A l \in panics : loop[l] = "panicked" \/ err # "none"
    /\ \A d \in Drainers :
          call[d] = "returned" => result[d] = "ok" \/ (result[d] # "none" /\ err # "none")

Inv == /\ TypeOK
       /\ StagesInOrder
       /\ FailuresStored
       /\ ReturnedMeansClosed
       /\ DrainsAfterJoin
       /\ \A s \in Callers : caller[s] = "returned" => answer[s] = err

\* The whole invariant implies what callers of Shutdown rely on.
LEMMA InvSuffices == Inv => NilMeansClean /\ AnswersAgree
<1> SUFFICES ASSUME Inv, NEW s \in Callers, caller[s] = "returned"
             PROVE  /\ answer[s] = err
                    /\ \A d \in Drainers : target[d] \in Conns => status[target[d]] = "closed"
                    /\ answer[s] = "none" =>
                          /\ Live = {} /\ panics = {}
                          /\ \A d \in Drainers : target[d] \in Conns => result[d] = "ok"
  BY DEF NilMeansClean, AnswersAgree
<1>1. shutdown = "done" /\ answer[s] = err
  BY DEF Inv, StagesInOrder
<1>2. \A d \in Drainers : target[d] \in Conns => call[d] = "returned"
  BY <1>1 DEF Inv, StagesInOrder
<1>3. \A d \in Drainers : target[d] \in Conns => status[target[d]] = "closed"
  BY <1>2 DEF Inv, ReturnedMeansClosed
<1>4. CASE answer[s] = "none"
  <2>1. Live = {}
    BY <1>1, <1>4 DEF Inv, DrainsAfterJoin
  <2>2. panics = {}
    <3>1. \A l \in panics : l \in Loops /\ loop[l] = "panicked"
      BY <1>1, <1>4 DEF Inv, FailuresStored, TypeOK
    <3> QED
      BY <2>1, <3>1 DEF Live
  <2>3. \A d \in Drainers : target[d] \in Conns => result[d] = "ok"
    BY <1>1, <1>2, <1>4 DEF Inv, FailuresStored
  <2> QED
    BY <1>1, <1>3, <2>1, <2>2, <2>3
<1> QED
  BY <1>1, <1>3, <1>4

\* A step that leaves the connections alone.
GroupStep ==
    \/ \E l \in Loops : Go(l) \/ FnPanics(l) \/ FnReturns(l) \/ Unwind(l)
    \/ \E s \in Callers : CallShutdown(s) \/ ShutdownReturns(s)
    \/ ParentCancelled \/ CancelAll \/ Finish

LEMMA TypeStep == Inv /\ [Next]_vars => TypeOK'
<1> SUFFICES ASSUME TypeOK, [Next]_vars PROVE TypeOK'
  BY DEF Inv
<1> USE DEF TypeOK, DrainTypeOK
<1>1. CASE UNCHANGED vars
  BY <1>1 DEF vars, groupVars, historyVars, drainVars
<1>2. CASE GroupStep
  <2>1. ASSUME NEW l \in Loops, Go(l) \/ FnPanics(l) \/ FnReturns(l) PROVE TypeOK'
    BY <2>1 DEF Go, FnPanics, FnReturns, LoopGoes, historyVars, drainVars, LoopState
  <2>2. ASSUME NEW l \in Loops, RecordPanic(l) \/ RecordReturn(l) PROVE TypeOK'
    BY <2>2 DEF RecordPanic, RecordReturn, LoopGoes, FirstError, historyVars, drainVars,
                LoopState, Error
  <2>3. ASSUME NEW l \in Loops, CancelGroup(l) \/ LoopDone(l) PROVE TypeOK'
    BY <2>3 DEF CancelGroup, LoopDone, LoopGoes, historyVars, drainVars, LoopState
  <2>4. ASSUME NEW s \in Callers, CallShutdown(s) \/ ShutdownReturns(s) PROVE TypeOK'
    BY <2>4 DEF CallShutdown, ShutdownReturns, historyVars, drainVars, Stage
  <2>5. CASE ParentCancelled \/ CancelAll \/ Finish
    BY <2>5 DEF ParentCancelled, CancelAll, Finish, historyVars, drainVars, Stage
  <2> QED
    BY <1>2, <2>1, <2>2, <2>3, <2>4, <2>5 DEF GroupStep, Unwind
<1>3. ASSUME NEW d \in Drainers, NEW c \in Conns, AddConn(d, c) PROVE TypeOK'
  BY <1>3 DEF AddConn, groupVars, historyVars
<1>4. ASSUME NEW d \in Drainers, DrainConn(d) PROVE TypeOK'
  <2>1. call[d] # "none" /\ target[d] \in Conns
    BY <1>4 DEF DrainConn, DrainStep, DrainCheck, DrainStart, DrainClosed, DrainTimeout
  <2>2. DrainTypeOK'
    BY <1>4, <2>1 DEF DrainConn, DrainStep, DrainCheck, DrainStart, DrainClosed, DrainTimeout,
                      ReturnFrom, ConnStatus, CallState, DrainResult
  <2>3. err' \in Error
    BY <1>4, <2>2 DEF DrainConn, FirstError, Error
  <2> QED
    BY <1>4, <2>2, <2>3 DEF DrainConn, historyVars
<1>5. ASSUME NEW c \in Conns, ConnCloses(c), UNCHANGED groupVars PROVE TypeOK'
  BY <1>5 DEF ConnCloses, groupVars, historyVars, ConnStatus
<1>6. CASE Joined \/ JoinTimeout
  BY <1>6, DrainAssumption DEF Joined, JoinTimeout, StartDrains, FirstError, Stage, CallState, Error
<1> QED
  BY <1>1, <1>2, <1>3, <1>4, <1>5, <1>6 DEF Next, GroupStep

\* A drain step is a step of a call that has begun and has not returned.
LEMMA DrainRuns ==
    ASSUME NEW d \in Drainers, DrainConn(d)
    PROVE  call[d] \in {"entered", "listening", "waiting"}
BY DEF DrainConn, DrainStep, DrainCheck, DrainStart, DrainClosed, DrainTimeout

LEMMA StagesStep == Inv /\ [Next]_vars => StagesInOrder'
<1> SUFFICES ASSUME TypeOK, StagesInOrder, [Next]_vars PROVE StagesInOrder'
  BY DEF Inv
<1> USE DEF TypeOK, DrainTypeOK, StagesInOrder
<1>1. CASE UNCHANGED vars
  BY <1>1 DEF vars, groupVars, historyVars, drainVars
<1>2. CASE GroupStep
  BY <1>2 DEF GroupStep, Go, FnPanics, FnReturns, Unwind, RecordPanic, RecordReturn,
     CancelGroup, LoopDone, LoopGoes, FirstError, CallShutdown, ShutdownReturns,
     ParentCancelled, CancelAll, Finish, historyVars, drainVars, Stage
<1>3. ASSUME NEW d \in Drainers, NEW c \in Conns, AddConn(d, c) PROVE StagesInOrder'
  BY <1>3 DEF AddConn, groupVars, historyVars, Stage
<1>4. ASSUME NEW d \in Drainers, DrainConn(d) PROVE StagesInOrder'
  <2>1. shutdown = "draining"
    BY <1>4, DrainRuns DEF Stage
  <2>2. /\ UNCHANGED <<target, shutdown, closed, caller>>
        /\ call' = [call EXCEPT ![d] = call'[d]] /\ call'[d] # "none"
    BY <1>4 DEF DrainConn, DrainStep, DrainCheck, DrainStart, DrainClosed, DrainTimeout,
                ReturnFrom
  <2> QED
    BY <2>1, <2>2
<1>5. ASSUME NEW c \in Conns, ConnCloses(c), UNCHANGED groupVars PROVE StagesInOrder'
  BY <1>5 DEF ConnCloses, groupVars, historyVars
<1>6. CASE Joined \/ JoinTimeout
  BY <1>6 DEF Joined, JoinTimeout, StartDrains
<1> QED
  BY <1>1, <1>2, <1>3, <1>4, <1>5, <1>6 DEF Next, GroupStep

\* g.err is set once: a failure that is stored is never replaced or cleared.
LEMMA ErrorKept == TypeOK /\ [Next]_vars /\ err # "none" => err' = err
<1> SUFFICES ASSUME [Next]_vars, err # "none" PROVE err' = err
  OBVIOUS
<1>1. CASE UNCHANGED vars
  BY <1>1 DEF vars, groupVars
<1>2. CASE GroupStep
  BY <1>2 DEF GroupStep, Go, FnPanics, FnReturns, Unwind, RecordPanic, RecordReturn,
     CancelGroup, LoopDone, FirstError, CallShutdown, ShutdownReturns, ParentCancelled,
     CancelAll, Finish
<1>3. ASSUME NEW d \in Drainers, NEW c \in Conns, AddConn(d, c) PROVE err' = err
  BY <1>3 DEF AddConn, groupVars
<1>4. ASSUME NEW d \in Drainers, DrainConn(d) PROVE err' = err
  BY <1>4 DEF DrainConn, FirstError
<1>5. CASE UNCHANGED groupVars
  BY <1>5 DEF groupVars
<1>6. CASE Joined \/ JoinTimeout
  BY <1>6 DEF Joined, JoinTimeout, FirstError
<1> QED
  BY <1>1, <1>2, <1>3, <1>4, <1>5, <1>6 DEF Next, GroupStep

LEMMA FailuresStep == Inv /\ [Next]_vars => FailuresStored'
<1> SUFFICES ASSUME Inv, [Next]_vars PROVE FailuresStored'
  OBVIOUS
<1> USE DEF TypeOK, DrainTypeOK, FailuresStored
<1>0. TypeOK /\ FailuresStored /\ StagesInOrder
  BY DEF Inv
<1>1. CASE UNCHANGED vars
  BY <1>0, <1>1 DEF vars, groupVars, historyVars, drainVars
<1>2. CASE GroupStep
  BY <1>0, <1>2 DEF GroupStep, Go, FnPanics, FnReturns, Unwind, RecordPanic, RecordReturn,
     CancelGroup, LoopDone, LoopGoes, FirstError, CallShutdown, ShutdownReturns,
     ParentCancelled, CancelAll, Finish, historyVars, drainVars
<1>3. ASSUME NEW d \in Drainers, NEW c \in Conns, AddConn(d, c) PROVE FailuresStored'
  BY <1>0, <1>3 DEF AddConn, groupVars, historyVars
<1>4. ASSUME NEW d \in Drainers, DrainConn(d) PROVE FailuresStored'
  <2>1. err # "none" => err' = err
    BY <1>0, ErrorKept
  <2>2. UNCHANGED <<panics, loop>>
    BY <1>4 DEF DrainConn, historyVars
  <2>3. \A e \in Drainers \ {d} : call'[e] = call[e] /\ result'[e] = result[e]
    BY <1>0, <1>4 DEF DrainConn, DrainStep, DrainCheck, DrainStart, DrainClosed,
                      DrainTimeout, ReturnFrom
  <2>4. call'[d] = "returned" =>
            result'[d] = "ok" \/ (result'[d] # "none" /\ err' # "none")
    <3>1. call'[d] = "returned" => result'[d] \in {"ok", "drain_failed", "drain_timeout"}
      BY <1>0, <1>4 DEF DrainConn, DrainStep, DrainCheck, DrainStart, DrainClosed,
                        DrainTimeout, ReturnFrom
    <3> QED
      BY <1>4, <3>1 DEF DrainConn, FirstError
  <2> QED
    BY <1>0, <2>1, <2>2, <2>3, <2>4
<1>5. ASSUME NEW c \in Conns, ConnCloses(c), UNCHANGED groupVars PROVE FailuresStored'
  BY <1>0, <1>5 DEF ConnCloses, groupVars, historyVars
<1>6. CASE Joined \/ JoinTimeout
  <2>1. err # "none" => err' = err
    BY <1>0, ErrorKept
  <2>2. \A d \in Drainers : call'[d] # "returned"
    BY <1>6 DEF Joined, JoinTimeout, StartDrains
  <2> QED
    BY <1>0, <1>6, <2>1, <2>2 DEF Joined, JoinTimeout, StartDrains
<1> QED
  BY <1>1, <1>2, <1>3, <1>4, <1>5, <1>6 DEF Next, GroupStep

LEMMA ClosedStep == Inv /\ [Next]_vars => ReturnedMeansClosed'
<1> SUFFICES ASSUME Inv, [Next]_vars PROVE ReturnedMeansClosed'
  OBVIOUS
<1> USE DEF TypeOK, DrainTypeOK, ReturnedMeansClosed
<1>0. TypeOK /\ ReturnedMeansClosed /\ StagesInOrder
  BY DEF Inv
<1>1. CASE UNCHANGED drainVars
  BY <1>0, <1>1 DEF drainVars
<1>2. CASE GroupStep
  BY <1>1, <1>2 DEF GroupStep, Go, FnPanics, FnReturns, Unwind, RecordPanic, RecordReturn,
     CancelGroup, LoopDone, CallShutdown, ShutdownReturns, ParentCancelled, CancelAll, Finish
<1>3. ASSUME NEW d \in Drainers, NEW c \in Conns, AddConn(d, c) PROVE ReturnedMeansClosed'
  <2>1. call[d] = "none"
    BY <1>0, <1>3, DrainAssumption DEF AddConn
  <2> QED
    BY <1>0, <1>3, <2>1 DEF AddConn
<1>4. ASSUME NEW d \in Drainers, DrainConn(d) PROVE ReturnedMeansClosed'
  <2>1. target[d] \in Conns
    BY <1>0, <1>4, DrainRuns
  <2>2. \A c \in Conns : status[c] = "closed" => status'[c] = "closed"
    BY <1>0, <1>4, <2>1 DEF DrainConn, DrainStep, DrainCheck, DrainStart, DrainClosed,
                            DrainTimeout, ReturnFrom
  <2>3. call'[d] = "returned" => status'[target[d]] = "closed"
    BY <1>0, <1>4, <2>1 DEF DrainConn, DrainStep, DrainCheck, DrainStart, DrainClosed,
                            DrainTimeout, ReturnFrom
  <2>4. target' = target /\ \A e \in Drainers \ {d} : call'[e] = call[e]
    BY <1>0, <1>4 DEF DrainConn, DrainStep, DrainCheck, DrainStart, DrainClosed,
                      DrainTimeout, ReturnFrom
  <2> QED
    BY <1>0, <2>2, <2>3, <2>4
<1>5. ASSUME NEW c \in Conns, ConnCloses(c), UNCHANGED groupVars PROVE ReturnedMeansClosed'
  BY <1>0, <1>5 DEF ConnCloses
<1>6. CASE Joined \/ JoinTimeout
  BY <1>6 DEF Joined, JoinTimeout, StartDrains
<1> QED
  BY <1>1, <1>2, <1>3, <1>4, <1>5, <1>6 DEF Next, GroupStep, vars

\* Once Shutdown is past its join no loop starts, so none is left or an error is stored.
LEMMA JoinStep == Inv /\ [Next]_vars => DrainsAfterJoin'
<1> SUFFICES ASSUME Inv, [Next]_vars PROVE DrainsAfterJoin'
  OBVIOUS
<1> USE DEF TypeOK, DrainsAfterJoin
<1>0. TypeOK /\ DrainsAfterJoin /\ StagesInOrder
  BY DEF Inv
<1>e. err # "none" => err' = err
  BY <1>0, ErrorKept
<1>1. CASE shutdown \in {"draining", "done"}
  <2>1. closed
    BY <1>0, <1>1 DEF StagesInOrder
  <2>2. timedOut' = timedOut
    BY <1>1 DEF Next, vars, groupVars, historyVars, Unwind, Go, FnPanics, FnReturns,
       RecordPanic, RecordReturn, CancelGroup, LoopDone, AddConn, DrainConn, CallShutdown,
       ShutdownReturns, ParentCancelled, CancelAll, Joined, JoinTimeout, Finish
  <2>3. Live' \subseteq Live
    BY <1>0, <1>1, <2>1 DEF Next, vars, groupVars, Unwind, Go, FnPanics, FnReturns, LoopGoes,
       RecordPanic, RecordReturn, CancelGroup, LoopDone, AddConn, DrainConn, CallShutdown,
       ShutdownReturns, ParentCancelled, CancelAll, Joined, JoinTimeout, Finish, StartDrains,
       Live, LoopState
  <2> QED
    BY <1>0, <1>1, <1>e, <2>2, <2>3
<1>2. CASE Joined
  BY <1>2 DEF Joined, StartDrains, Live
<1>3. CASE JoinTimeout
  BY <1>3 DEF JoinTimeout, FirstError
<1>4. CASE shutdown \notin {"draining", "done"} /\ ~Joined /\ ~JoinTimeout
  BY <1>4 DEF Next, vars, groupVars, Unwind, Go, FnPanics, FnReturns, RecordPanic,
     RecordReturn, CancelGroup, LoopDone, AddConn, DrainConn, CallShutdown, ShutdownReturns,
     ParentCancelled, CancelAll, Finish
<1> QED
  BY <1>1, <1>2, <1>3, <1>4

\* After Shutdown's drains are over nothing stores an error any more: a loop that
\* is still running was timed out on, and that error is already there.
LEMMA AnswerStep ==
    Inv /\ [Next]_vars => \A s \in Callers : caller'[s] = "returned" => answer'[s] = err'
<1> SUFFICES ASSUME Inv, [Next]_vars, NEW s \in Callers, caller'[s] = "returned"
             PROVE  answer'[s] = err'
  OBVIOUS
<1>0. TypeOK /\ DrainsAfterJoin /\ StagesInOrder /\ (caller[s] = "returned" => answer[s] = err)
  BY DEF Inv
<1>1. CASE caller[s] = "returned"
  <2>1. shutdown = "done" /\ closed /\ (Live = {} \/ err # "none")
    BY <1>0, <1>1 DEF StagesInOrder, DrainsAfterJoin
  <2>2. answer'[s] = answer[s]
    BY <1>0, <1>1 DEF TypeOK, Next, vars, groupVars, Unwind, Go, FnPanics, FnReturns,
       RecordPanic, RecordReturn, CancelGroup, LoopDone, AddConn, DrainConn, CallShutdown,
       ShutdownReturns, ParentCancelled, CancelAll, Joined, JoinTimeout, StartDrains, Finish
  <2>3. ASSUME err = "none" PROVE err' = err
    <3>1. \A l \in Loops : loop[l] # "panicked"
      BY <2>1, <2>3 DEF Live
    <3>2. \A d \in Drainers : ~DrainConn(d)
      BY <1>0, <2>1, DrainRuns DEF StagesInOrder
    <3> QED
      BY <2>1, <3>1, <3>2 DEF Next, vars, groupVars, Unwind, Go, FnPanics, FnReturns,
         RecordPanic, RecordReturn, CancelGroup, LoopDone, AddConn, CallShutdown,
         ShutdownReturns, ParentCancelled, CancelAll, Joined, JoinTimeout, Finish
  <2> QED
    BY <1>0, <1>1, <2>2, <2>3, ErrorKept
<1>2. CASE caller[s] # "returned"
  <2>1. ShutdownReturns(s)
    <3>1. PICK t \in Callers : CallShutdown(t) \/ ShutdownReturns(t)
      BY <1>2 DEF Next, vars, groupVars, Unwind, Go, FnPanics, FnReturns, RecordPanic,
         RecordReturn, CancelGroup, LoopDone, AddConn, DrainConn, ParentCancelled, CancelAll,
         Joined, JoinTimeout, StartDrains, Finish
    <3> QED
      BY <1>0, <1>2, <3>1 DEF TypeOK, CallShutdown, ShutdownReturns
  <2> QED
    BY <1>0, <2>1 DEF TypeOK, ShutdownReturns
<1> QED
  BY <1>1, <1>2

\* The whole invariant holds of every behaviour.
LEMMA Invariance == Spec => []Inv
<1>1. Init => Inv
  <2> SUFFICES ASSUME Init PROVE Inv
    OBVIOUS
  <2>1. TypeOK
    BY DrainAssumption DEF Init, TypeOK, DrainTypeOK, DrainInit, ConnStatus, CallState,
       DrainResult, LoopState, Error, Stage
  <2>2. StagesInOrder
    BY DrainAssumption DEF Init, DrainInit, StagesInOrder
  <2>3. FailuresStored /\ ReturnedMeansClosed /\ DrainsAfterJoin
    BY DEF Init, DrainInit, FailuresStored, ReturnedMeansClosed, DrainsAfterJoin
  <2> QED
    BY <2>1, <2>2, <2>3 DEF Inv, Init
<1>2. Inv /\ [Next]_vars => Inv'
  BY TypeStep, StagesStep, FailuresStep, ClosedStep, JoinStep, AnswerStep DEF Inv
<1> QED
  BY <1>1, <1>2, PTL DEF Spec

\* The group's state stays well-formed for any loops, callers and connections.
THEOREM TypeCorrect == Spec => []TypeOK
<1>1. Inv => TypeOK
  BY DEF Inv
<1> QED
  BY <1>1, Invariance, PTL

\* No call of Drain returns while its connection is open, however many calls
\* drain the connection and whenever it closes by itself.
THEOREM DrainsClose == Spec => []ReturnedMeansClosed
<1>1. Inv => ReturnedMeansClosed
  BY DEF Inv
<1> QED
  BY <1>1, Invariance, PTL

\* Connections are drained after the loops have ended, or with an error stored.
THEOREM JoinFirst == Spec => []DrainsAfterJoin
<1>1. Inv => DrainsAfterJoin
  BY DEF Inv
<1> QED
  BY <1>1, Invariance, PTL

\* A nil answer of Shutdown means that no loop is left, none panicked and every
\* registered connection was drained cleanly.
THEOREM NilIsClean == Spec => []NilMeansClean
<1>1. Inv => NilMeansClean
  BY InvSuffices
<1> QED
  BY <1>1, Invariance, PTL

\* All calls of Shutdown answer alike, for ever: no failure is stored after the first answer.
THEOREM SameAnswer == Spec => []AnswersAgree
<1>1. Inv => AnswersAgree
  BY InvSuffices
<1> QED
  BY <1>1, Invariance, PTL

\* Only a loop's own record stores a premature return, and not once the group is
\* closed; every other failure is of another kind.
LEMMA TeardownStep ==
    Inv /\ [Next]_vars => (closed => err' # "premature" \/ err = "premature")
<1> SUFFICES ASSUME Inv, [Next]_vars, closed, err # "premature" PROVE err' # "premature"
  OBVIOUS
<1>0. TypeOK
  BY DEF Inv
<1>1. CASE UNCHANGED vars
  BY <1>1 DEF vars, groupVars
<1>2. CASE GroupStep
  BY <1>2 DEF GroupStep, Go, FnPanics, FnReturns, Unwind, RecordPanic, RecordReturn,
     CancelGroup, LoopDone, FirstError, CallShutdown, ShutdownReturns, ParentCancelled,
     CancelAll, Finish
<1>3. ASSUME NEW d \in Drainers, NEW c \in Conns, AddConn(d, c) PROVE err' # "premature"
  BY <1>3 DEF AddConn
<1>4. ASSUME NEW d \in Drainers, DrainConn(d) PROVE err' # "premature"
  <2>1. result'[d] # "premature"
    <3>1. DrainTypeOK'
      BY <1>0, TypeStep DEF Inv, TypeOK
    <3> QED
      BY <3>1 DEF DrainTypeOK, DrainResult
  <2> QED
    BY <1>4, <2>1 DEF DrainConn, FirstError
<1>5. CASE UNCHANGED groupVars
  BY <1>5 DEF groupVars
<1>6. CASE Joined \/ JoinTimeout
  BY <1>6 DEF Joined, JoinTimeout, FirstError
<1> QED
  BY <1>1, <1>2, <1>3, <1>4, <1>5, <1>6 DEF Next, GroupStep

\* A loop that returns because Shutdown is under way is never reported as a
\* failure, in whatever order the return, the closing and the cancel happen.
THEOREM TeardownHolds == Spec => TeardownIsNoFailure
<1>1. Inv /\ [Next]_vars => [closed => err' # "premature" \/ err = "premature"]_vars
  BY TeardownStep
<1> QED
  BY <1>1, Invariance, PTL DEF Spec, TeardownIsNoFailure
=============================================================================

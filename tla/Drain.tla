------------------------------- MODULE Drain -------------------------------
(***************************************************************************)
(* nuts.Drain: drain a NATS connection and wait for it to reach CLOSED.    *)
(* The connection (external, nats.go) may close by itself at any moment,   *)
(* drains asynchronously once told to, and refuses to drain while it is    *)
(* reconnecting.  Several calls may drain one connection at once.          *)
(***************************************************************************)
EXTENDS Naturals

CONSTANTS Conns,     \* NATS connections
          Drainers,  \* calls of Drain: one per registration in a ShutdownGroup
          NoConn     \* the target of a call that was never made

ASSUME DrainAssumption == NoConn \notin Conns

VARIABLES status,   \* per connection: nats.go's status, as Drain sees it
          target,   \* per call: the connection it drains
          call,     \* per call: where it is
          result    \* per call: what it returned

drainVars == <<status, target, call, result>>

ConnStatus == {"open", "draining", "closed"}
CallState == {"none", "entered", "listening", "waiting", "returned"}
DrainResult == {"none", "ok", "drain_failed", "drain_timeout"}

DrainTypeOK ==
    /\ status \in [Conns -> ConnStatus]
    /\ target \in [Drainers -> Conns \cup {NoConn}]
    /\ call \in [Drainers -> CallState]
    /\ result \in [Drainers -> DrainResult]
    /\ \A d \in Drainers : call[d] # "none" => target[d] \in Conns

DrainInit ==
    /\ status = [c \in Conns |-> "open"]
    /\ target = [d \in Drainers |-> NoConn]
    /\ call = [d \in Drainers |-> "none"]
    /\ result = [d \in Drainers |-> "none"]

\* The call returns r, leaving its connection in the given status.
ReturnFrom(d, r, st) ==
    /\ status' = [status EXCEPT ![target[d]] = st]
    /\ call' = [call EXCEPT ![d] = "returned"]
    /\ result' = [result EXCEPT ![d] = r]
    /\ UNCHANGED target

\* The IsClosed check, then the status listener: two steps, and the connection
\* may close between them and after them.
DrainCheck(d) ==
    /\ call[d] = "entered"
    /\ \/ status[target[d]] = "closed" /\ ReturnFrom(d, "ok", "closed")
       \/ /\ status[target[d]] # "closed"
          /\ call' = [call EXCEPT ![d] = "listening"]
          /\ UNCHANGED <<status, target, result>>

\* nc.Drain: closed meanwhile is a clean no-op, a refusal closes the connection,
\* otherwise the connection drains on its own.
DrainStart(d) ==
    /\ call[d] = "listening"
    /\ \/ status[target[d]] = "closed" /\ ReturnFrom(d, "ok", "closed")
       \/ status[target[d]] = "open" /\ ReturnFrom(d, "drain_failed", "closed")
       \/ /\ status[target[d]] # "closed"
          /\ status' = [status EXCEPT ![target[d]] = "draining"]
          /\ call' = [call EXCEPT ![d] = "waiting"]
          /\ UNCHANGED <<target, result>>

\* The CLOSED event is delivered.
DrainClosed(d) ==
    /\ call[d] = "waiting"
    /\ status[target[d]] = "closed"
    /\ ReturnFrom(d, "ok", "closed")

\* Mutant: the timeout is reported and the connection left to itself.
TimeoutWithoutClose(d) ==
    /\ call[d] = "waiting"
    /\ status[target[d]] # "closed"
    /\ ReturnFrom(d, "drain_timeout", status[target[d]])

\* The backstop fires first: force-close.  (When both are ready CLOSED wins.)
DrainTimeout(d) ==
    /\ call[d] = "waiting"
    /\ status[target[d]] # "closed"
    /\ ReturnFrom(d, "drain_timeout", "closed")

\* The connection reaches CLOSED: its drain is done, or it is gone for good.
ConnCloses(c) ==
    /\ status[c] # "closed"
    /\ status' = [status EXCEPT ![c] = "closed"]
    /\ UNCHANGED <<target, call, result>>

DrainStep(d) == DrainCheck(d) \/ DrainStart(d) \/ DrainClosed(d) \/ DrainTimeout(d)

\* A call returns only once its connection is closed, whatever the connection
\* and the other calls draining it did meanwhile (Drain's "never inherit an
\* ambiguous asynchronous drain").
ReturnedMeansClosed ==
    \A d \in Drainers : call[d] = "returned" => status[target[d]] = "closed"
=============================================================================

----------------------------- MODULE JetStream -----------------------------
(***************************************************************************)
(* The durable consumer on the NATS server, as far as go-nuts relies on it *)
(* (external: modelled from jsconsumer's use of it and from the semantics   *)
(* internal/brokersemantics measures).  A message carries a delivery count *)
(* that every delivery increments, whether or not a handler ever sees it;  *)
(* an unacknowledged delivery comes back when its rung of the BackOff       *)
(* ladder (or AckWait) expires, until MaxDeliver deliveries were served;   *)
(* an acknowledgement of any delivery settles the message for good.        *)
(***************************************************************************)
EXTENDS Naturals

CONSTANTS Messages,    \* the messages of the stream this durable covers
          MaxDeliver   \* delivery cap: Config.EffectiveMaxDeliver()

ASSUME MaxDeliverPositive == MaxDeliver \in Nat \ {0}

VARIABLES numDelivered,  \* per message: deliveries served so far
          ackPending,    \* messages whose last delivery still has its timer running
          settled        \* messages acknowledged, so past the ack floor's reach

brokerVars == <<numDelivered, ackPending, settled>>

DeliveryCount == 1..MaxDeliver

\* One delivery of one message, as a client holds it.
Delivery == [msg : Messages, n : DeliveryCount]

BrokerTypeOK ==
    /\ numDelivered \in [Messages -> 0..MaxDeliver]
    /\ ackPending \in SUBSET Messages
    /\ settled \in SUBSET Messages

BrokerInit ==
    /\ numDelivered = [m \in Messages |-> 0]
    /\ ackPending = {}
    /\ settled = {}

\* The server serves message m: its first delivery, or the redelivery that
\* follows an expired one.  At the cap nothing is served any more.
Serve(m) ==
    /\ m \notin settled \cup ackPending
    /\ numDelivered[m] < MaxDeliver
    /\ numDelivered' = [numDelivered EXCEPT ![m] = @ + 1]
    /\ ackPending' = ackPending \cup {m}
    /\ UNCHANGED settled

\* The delivery's rung expires.  The client may still be working on it: what
\* it holds is then a stale delivery, and a later one may run beside it.
Expire(m) ==
    /\ m \in ackPending
    /\ ackPending' = ackPending \ {m}
    /\ UNCHANGED <<numDelivered, settled>>

\* An acknowledgement reaches the server.
AckLands(m) ==
    /\ settled' = settled \cup {m}
    /\ ackPending' = ackPending \ {m}
    /\ UNCHANGED numDelivered

=============================================================================

---------------------------- MODULE MessageFate ----------------------------
(***************************************************************************)
(* What the retry mechanism promises about a message, with deliveries,     *)
(* replicas, crashes and acknowledgements hidden: "never a drop".  A        *)
(* message leaves the consumer only after it was processed or after a copy *)
(* of it was stored in the dead-letter stream.                             *)
(***************************************************************************)
CONSTANT Messages

VARIABLES processed,  \* messages some handler finished successfully
          copied,     \* messages with a copy in the DLQ
          removed     \* messages the consumer gave up for good

vars == <<processed, copied, removed>>

Init == /\ processed = {}
        /\ copied = {}
        /\ removed = {}

Process(m) == /\ processed' = processed \cup {m}
              /\ UNCHANGED <<copied, removed>>

Copy(m) == /\ copied' = copied \cup {m}
           /\ UNCHANGED <<processed, removed>>

Remove(m) == /\ m \in processed \cup copied
             /\ removed' = removed \cup {m}
             /\ UNCHANGED <<processed, copied>>

Next == \E m \in Messages : Process(m) \/ Copy(m) \/ Remove(m)

Spec == Init /\ [][Next]_vars

=============================================================================

------------------------------ MODULE Capture ------------------------------
(***************************************************************************)
(* natsmsg.DeadLetter: what the captured copy of a message carries.  A     *)
(* message is published to a source stream, captured into the DLQ by its   *)
(* consumer, once or (when the acknowledgement is lost) again, captured a  *)
(* second time from the DLQ by a replay tool that gives up, or replayed    *)
(* upstream and captured once more.                                        *)
(*                                                                         *)
(* Headers are abstracted to one value per kind.  "stored" stands for the  *)
(* stream, sequence and timestamp headers, which have one source (the      *)
(* metadata) and one fate; a subject is the name of its stream, and the    *)
(* application's headers are the number of the publication.                *)
(***************************************************************************)
EXTENDS Naturals, Sequences

CONSTANTS Sources,       \* streams producers publish to
          Bare,          \* the sources outside a JetStream domain
          Dlq, Parking,  \* where consumers, and the replay tool, capture to
          Ids,           \* values of Nats-Msg-Id
          None,          \* an absent header
          Forged,        \* a value a producer made up
          MaxDelivered,  \* bound on a delivery count
          MaxPublished,  \* bound on publications and replays
          MaxCaptures    \* bound on captures into one DLQ

ASSUME CaptureAssumption ==
    /\ Bare \subseteq Sources /\ {Dlq, Parking} \cap Sources = {} /\ Dlq # Parking
    /\ None \notin Ids \cup Sources \cup {Dlq, Parking, Forged} \cup Nat
    /\ MaxDelivered \in Nat \ {0} /\ MaxPublished \in Nat /\ MaxCaptures \in Nat

VARIABLES log,        \* per stream: what it stores, in order
          published,  \* publications and replays so far
          landed      \* per DLQ: captures that reached the broker

vars == <<log, published, landed>>

Streams == Sources \cup {Dlq, Parking}
Target(s) == IF s \in Sources THEN Dlq ELSE Parking
DomainOf(s) == IF s \in Bare THEN None ELSE s

\* dlqCarriedProvenance.
OriginKeys == {"recorded", "subject", "originId", "stored", "domain"}
PerHopKeys == {"hops", "delivered"}

\* The Nats- namespace: what the broker reads, provenance nobody here wrote
\* ("invented") and this package's own headers.
ReservedKeys == {"msgId", "directive", "invented"} \cup OriginKeys \cup PerHopKeys
Keys == {"app"} \cup ReservedKeys

Value == {None, Forged} \cup Ids \cup Streams \cup (Streams \X Nat) \cup Nat
Origin == [OriginKeys -> Value]
NoOrigin == [k \in OriginKeys |-> None]

\* A stored message, with its history: which publication it descends from and what
\* the first capture of its chain knew, captures so far, the deliveries the last one
\* saw, and whether its producer left this package's headers alone.
Stored == [hdr : [Keys -> Value], of : Nat, first : Origin, captures : Nat,
           seen : Nat \cup {None}, genuine : BOOLEAN]

TypeOK ==
    /\ published \in 0..MaxPublished
    /\ landed \in [{Dlq, Parking} -> 0..MaxCaptures]
    /\ \A s \in Streams : \A i \in 1..Len(log[s]) :
          /\ DOMAIN log[s][i].hdr = Keys
          /\ log[s][i].of \in 1..MaxPublished
          /\ log[s][i].captures \in 0..(2 * MaxCaptures)

Init ==
    /\ log = [s \in Streams |-> <<>>]
    /\ published = 0
    /\ landed = [d \in {Dlq, Parking} |-> 0]

-----------------------------------------------------------------------------
(* The broker and its clients *)

\* The stream stores m, or answers Duplicate when it holds m's Nats-Msg-Id already.
Store(s, m) ==
    LET id == m.hdr["msgId"]
        duplicate == id # None /\ \E i \in 1..Len(log[s]) : log[s][i].hdr["msgId"] = id
    IN  log' = IF duplicate THEN log ELSE [log EXCEPT ![s] = Append(@, m)]

\* What a producer may set: its own headers, a Msg-Id, a directive to the broker, and
\* provenance it has no business setting.
Published(id, directive, forges) ==
    [k \in Keys |->
        CASE k = "app" -> published + 1
          [] k = "msgId" -> id
          [] k = "directive" -> directive
          [] OTHER -> IF k \in forges THEN Forged ELSE None]

\* Provenance left alone, an invented origin, and one with the marker too.
Forgeries == {{}, {"invented", "hops", "stored"}, {"invented", "hops", "stored", "recorded"}}

Publish(s, id, directive, forges) ==
    /\ published < MaxPublished
    /\ published' = published + 1
    /\ Store(s, [hdr |-> Published(id, directive, forges), of |-> published + 1,
                 first |-> NoOrigin, captures |-> 0, seen |-> None, genuine |-> forges = {}])
    /\ UNCHANGED landed

\* A replay tool puts a DLQ record back upstream, its Msg-Id restored.
Replay(s, i) ==
    LET m == log[Dlq][i] IN
    /\ published < MaxPublished
    /\ published' = published + 1
    /\ Store(s, [m EXCEPT !.hdr["msgId"] = m.hdr["originId"]])
    /\ UNCHANGED landed

-----------------------------------------------------------------------------
(* DeadLetter *)

\* Mutant: a list of directives to drop rather than a namespace.
DropsKnownDirectives(k) == k \notin {"msgId", "directive"}

\* Mutant: the publisher's dedupe key stays on the copy.
KeepsMsgId(k) == k \notin ReservedKeys \ {"msgId"}

keepsHeaderOnCapture(k) == k \notin ReservedKeys

\* Mutant: the count is carried, not incremented.
HopsCarried(src) == IF src["hops"] \in Nat THEN src["hops"] - 1 ELSE 0

dlqHops(src) == IF src["hops"] \in Nat THEN src["hops"] ELSE 0

\* The origin as this hop knows it: without metadata only the subject and the
\* publisher's key.
OriginHere(src, s, i, known) ==
    [recorded |-> 1, subject |-> s, originId |-> src["msgId"],
     stored |-> IF known THEN <<s, i>> ELSE None,
     domain |-> IF known THEN DomainOf(s) ELSE None]

\* Mutant: each field is filled in by the first hop that has a value for it.
OriginFieldByField(src, s, i, known) ==
    [k \in OriginKeys |-> IF src[k] # None THEN src[k] ELSE OriginHere(src, s, i, known)[k]]

\* Written once, as a block; afterwards carried, absences included.
OriginBlock(src, s, i, known) ==
    IF src["recorded"] # None THEN [k \in OriginKeys |-> src[k]]
    ELSE OriginHere(src, s, i, known)

\* The headers of the copy.
Copy(src, s, i, known, n) ==
    [k \in Keys |->
        CASE k \in OriginKeys -> OriginBlock(src, s, i, known)[k]
          [] k = "hops" -> dlqHops(src) + 1
          [] k = "delivered" /\ known -> n
          [] OTHER -> IF keepsHeaderOnCapture(k) THEN src[k] ELSE None]

\* DeadLetter of message i of stream s, seen on its nth delivery, with or without
\* metadata.  It errs when the publish never reached the broker, which changes
\* nothing, and when only the PubAck was lost: the copy is stored all the same, and
\* the caller, who cannot tell, captures the message again.
DeadLetter(s, i, known, n) ==
    LET m == log[s][i]
        src == m.hdr
    IN  /\ landed[Target(s)] < MaxCaptures
        /\ landed' = [landed EXCEPT ![Target(s)] = @ + 1]
        /\ Store(Target(s),
                 [hdr |-> Copy(src, s, i, known, n), of |-> m.of,
                  first |-> IF m.captures > 0 THEN m.first ELSE OriginHere(src, s, i, known),
                  captures |-> m.captures + 1, seen |-> IF known THEN n ELSE None,
                  genuine |-> m.genuine])
        /\ UNCHANGED published

Next ==
    \/ \E s \in Sources, id \in Ids \cup {None}, directive \in {None, 1},
          forges \in Forgeries : Publish(s, id, directive, forges)
    \/ \E s \in Sources, i \in 1..Len(log[Dlq]) : Replay(s, i)
    \/ \E s \in Streams \ {Parking} : \E i \in 1..Len(log[s]) :
          \E known \in BOOLEAN, n \in 1..MaxDelivered : DeadLetter(s, i, known, n)

Spec == Init /\ [][Next]_vars

-----------------------------------------------------------------------------
(* Properties *)

Records == UNION {{log[d][i] : i \in 1..Len(log[d])} : d \in {Dlq, Parking}}
OriginOf(m) == [k \in OriginKeys |-> m.hdr[k]]

\* A record reports the origin its chain's first capture knew, absences included,
\* over recaptures, captures of DLQ records and replays (the write-once origin block).
OriginIsFirstHop == \A m \in Records : m.genuine => OriginOf(m) = m.first

\* A record counts the captures of its chain, and its delivery count is the one its
\* own capture saw, never an earlier hop's (the per-hop headers).
HopsAreCounted ==
    \A m \in Records : /\ m.genuine => m.hdr["hops"] = m.captures
                       /\ m.hdr["delivered"] = m.seen

\* Whatever a producer set, a copy carries the application's headers, and of the
\* reserved namespace nothing but this package's own (keepsHeaderOnCapture).
OnlyOwnHeadersSurvive ==
    \A m \in Records : /\ m.hdr["app"] = m.of
                       /\ \A k \in {"msgId", "directive", "invented"} : m.hdr[k] = None

\* A capture that reached the broker is in the DLQ, the retry of one whose PubAck was
\* lost and the capture of a message that shares a Msg-Id with another included: none
\* is taken for a duplicate ("duplicate, never suppressed").
CapturesAreStored == \A d \in {Dlq, Parking} : Len(log[d]) = landed[d]
=============================================================================

--------------------------- MODULE CaptureProofs ---------------------------
(***************************************************************************)
(* What a captured copy carries, proved for any streams, keys, producers   *)
(* and any number of captures and replays.                                 *)
(*                                                                         *)
(* The properties speak of the records in a DLQ, but a record may come     *)
(* from any stream: a replay puts copies back upstream.  The invariant     *)
(* therefore speaks of every stored message, captured or not yet.          *)
(***************************************************************************)
EXTENDS Capture, TLAPS

LogType ==
    /\ log \in [Streams -> Seq(Stored)]
    /\ published \in Nat
    /\ landed \in [{Dlq, Parking} -> Nat]

\* Once captured, a message has the first capture's origin and its own count; an
\* honest message that was never captured has neither.
ChainHolds(m) ==
    m.genuine => IF m.captures = 0 THEN m.hdr["recorded"] = None /\ m.hdr["hops"] = None
                 ELSE /\ m.hdr["recorded"] # None
                      /\ OriginOf(m) = m.first
                      /\ m.hdr["hops"] = m.captures

\* What keepsHeaderOnCapture and the per-hop headers give a copy.
CopyHolds(m) ==
    /\ m.hdr["app"] = m.of
    /\ \A k \in {"msgId", "directive", "invented"} : m.hdr[k] = None
    /\ m.hdr["delivered"] = m.seen
    /\ m.captures > 0

Inv ==
    /\ LogType
    /\ \A s \in Streams : \A i \in 1..Len(log[s]) :
          /\ ChainHolds(log[s][i])
          /\ log[s][i].hdr["app"] = log[s][i].of
          /\ s \in {Dlq, Parking} => CopyHolds(log[s][i])
    /\ CapturesAreStored

-----------------------------------------------------------------------------
\* What a store adds.
LEMMA StoreAdds ==
    ASSUME LogType, NEW s \in Streams, NEW m \in Stored, Store(s, m)
    PROVE  /\ log' \in [Streams -> Seq(Stored)]
           /\ \A t \in Streams : \A i \in 1..Len(log'[t]) :
                 \/ i \in 1..Len(log[t]) /\ log'[t][i] = log[t][i]
                 \/ t = s /\ log'[t][i] = m
           /\ \A t \in Streams \ {s} : log'[t] = log[t]
           /\ m.hdr["msgId"] = None => Len(log'[s]) = Len(log[s]) + 1
<1>1. \A t \in Streams : log[t] \in Seq(Stored) /\ Len(log[t]) \in Nat
  BY DEF LogType
<1>2. CASE log' = log
  <2>1. m.hdr["msgId"] = None => log' = [log EXCEPT ![s] = Append(@, m)]
    BY DEF Store
  <2> QED
    BY <1>1, <1>2, <2>1 DEF LogType
<1>3. CASE log' = [log EXCEPT ![s] = Append(@, m)]
  <2>1. /\ log'[s] = Append(log[s], m)
        /\ \A t \in Streams \ {s} : log'[t] = log[t]
    BY <1>3 DEF LogType
  <2>2. /\ Append(log[s], m) \in Seq(Stored)
        /\ Len(Append(log[s], m)) = Len(log[s]) + 1
        /\ \A i \in 1..Len(log[s]) : Append(log[s], m)[i] = log[s][i]
        /\ Append(log[s], m)[Len(log[s]) + 1] = m
    BY <1>1
  <2>3. log' \in [Streams -> Seq(Stored)]
    BY <1>3, <2>2 DEF LogType
  <2>4. ASSUME NEW t \in Streams, NEW i \in 1..Len(log'[t])
        PROVE  \/ i \in 1..Len(log[t]) /\ log'[t][i] = log[t][i]
               \/ t = s /\ log'[t][i] = m
    <3>1. CASE t = s
      <4>1. i \in 1..(Len(log[s]) + 1)
        BY <2>1, <2>2, <3>1
      <4>2. i \in 1..Len(log[s]) \/ i = Len(log[s]) + 1
        BY <1>1, <4>1
      <4> QED
        BY <2>1, <2>2, <3>1, <4>2
    <3>2. CASE t # s
      BY <2>1, <3>2
    <3> QED
      BY <3>1, <3>2
  <2>5. Len(log'[s]) = Len(log[s]) + 1
    BY <2>1, <2>2
  <2> QED
    BY <2>1, <2>3, <2>4, <2>5
<1> QED
  BY <1>2, <1>3 DEF Store

\* What the headers of a copy are.
LEMMA CopyHeaders ==
    ASSUME NEW s \in Streams, NEW i \in Nat, NEW src \in [Keys -> Value], NEW known \in BOOLEAN,
           NEW n \in Nat
    PROVE  /\ Copy(src, s, i, known, n) \in [Keys -> Value]
           /\ OriginHere(src, s, i, known) \in Origin
           /\ \A k \in OriginKeys : Copy(src, s, i, known, n)[k] = OriginBlock(src, s, i, known)[k]
           /\ Copy(src, s, i, known, n)["hops"] = dlqHops(src) + 1
           /\ dlqHops(src) \in Nat
           /\ Copy(src, s, i, known, n)["delivered"] = IF known THEN n ELSE None
           /\ \A k \in {"msgId", "directive", "invented"} : Copy(src, s, i, known, n)[k] = None
           /\ Copy(src, s, i, known, n)["app"] = src["app"]
<1> DEFINE c == Copy(src, s, i, known, n)
           o == OriginHere(src, s, i, known)
<1>1. None \in Value /\ 1 \in Value /\ s \in Value /\ <<s, i>> \in Value
  BY DEF Value
<1>2. DomainOf(s) \in Value
  BY <1>1 DEF DomainOf
<1>3. o \in Origin
  BY <1>1, <1>2 DEF OriginHere, Origin, OriginKeys, Keys, ReservedKeys
<1>4. dlqHops(src) \in Nat
  BY DEF dlqHops
<1>5. ASSUME NEW k \in OriginKeys
      PROVE  c[k] = OriginBlock(src, s, i, known)[k] /\ c[k] \in Value
  <2>1. k \in Keys
    BY DEF Keys, ReservedKeys
  <2>2. c[k] = OriginBlock(src, s, i, known)[k]
    BY <2>1 DEF Copy, OriginKeys
  <2> QED
    BY <2>1, <2>2, <1>3 DEF OriginBlock, Origin
<1>6. c["hops"] = dlqHops(src) + 1
  BY DEF Copy, Keys, ReservedKeys, OriginKeys, PerHopKeys
<1>7. c["delivered"] = IF known THEN n ELSE None
  BY DEF Copy, Keys, ReservedKeys, OriginKeys, PerHopKeys, keepsHeaderOnCapture
<1>8. \A k \in {"msgId", "directive", "invented"} : c[k] = None
  BY DEF Copy, Keys, ReservedKeys, OriginKeys, PerHopKeys, keepsHeaderOnCapture
<1>9. c["app"] = src["app"]
  BY DEF Copy, Keys, ReservedKeys, OriginKeys, PerHopKeys, keepsHeaderOnCapture
<1>10. c \in [Keys -> Value]
  <2>1. \A k \in Keys : c[k] \in Value
    <3>1. "app" \in Keys /\ src["app"] \in Value
      BY DEF Keys
    <3>2. dlqHops(src) + 1 \in Value /\ n \in Value
      BY <1>4 DEF Value
    <3> QED
      BY <1>1, <1>5, <1>6, <1>7, <1>8, <1>9, <3>1, <3>2 DEF Keys, ReservedKeys, PerHopKeys
  <2> QED
    BY <2>1 DEF Copy
<1> QED
  BY <1>3, <1>4, <1>5, <1>6, <1>7, <1>8, <1>9, <1>10
-----------------------------------------------------------------------------
\* Empty streams.
LEMMA InvInit == Init => Inv
<1> SUFFICES ASSUME Init PROVE Inv
  OBVIOUS
<1>1. /\ \A s \in Streams : log[s] = <<>>
      /\ log \in [Streams -> Seq(Stored)]
  BY DEF Init
<1>2. {Dlq, Parking} \subseteq Streams
  BY DEF Streams
<1> QED
  BY <1>1, <1>2 DEF Init, Inv, LogType, CapturesAreStored

\* A message that keeps the invariant may be stored anywhere its stream allows.
LEMMA StoreKeeps ==
    ASSUME Inv, NEW s \in Streams, NEW m \in Stored, Store(s, m),
           ChainHolds(m), m.hdr["app"] = m.of, s \in {Dlq, Parking} => CopyHolds(m)
    PROVE  /\ log' \in [Streams -> Seq(Stored)]
           /\ \A t \in Streams : \A i \in 1..Len(log'[t]) :
                 /\ ChainHolds(log'[t][i])
                 /\ log'[t][i].hdr["app"] = log'[t][i].of
                 /\ t \in {Dlq, Parking} => CopyHolds(log'[t][i])
<1>1. LogType
  BY DEF Inv
<1> QED
  BY <1>1, StoreAdds DEF Inv

\* Producers, forging ones included.
LEMMA PublishKeeps ==
    ASSUME Inv, NEW s \in Sources, NEW id \in Ids \cup {None}, NEW directive \in {None, 1},
           NEW forges \in Forgeries, Publish(s, id, directive, forges)
    PROVE  Inv'
<1> DEFINE h == Published(id, directive, forges)
           m == [hdr |-> h, of |-> published + 1, first |-> NoOrigin, captures |-> 0,
                 seen |-> None, genuine |-> forges = {}]
<1>1. Store(s, m) /\ published' = published + 1 /\ landed' = landed
  BY DEF Publish
<1>2. published \in Nat /\ s \in Streams /\ s \notin {Dlq, Parking}
  BY CaptureAssumption DEF Inv, LogType, Streams
<1>3. published + 1 \in Value /\ {None, Forged, 1} \subseteq Value /\ id \in Value
  BY <1>2 DEF Value
<1>4. /\ h \in [Keys -> Value] /\ h["app"] = published + 1
      /\ forges = {} => h["recorded"] = None /\ h["hops"] = None
  BY <1>3 DEF Published, Keys, ReservedKeys, OriginKeys, PerHopKeys
<1>5. NoOrigin \in Origin
  BY <1>3 DEF NoOrigin, Origin
<1> HIDE DEF h
<1>6. m \in Stored
  BY <1>2, <1>4, <1>5 DEF Stored
<1>7. ChainHolds(m) /\ m.hdr["app"] = m.of
  BY <1>4 DEF ChainHolds
<1> HIDE DEF m
<1>8. CapturesAreStored'
  <2>1. \A t \in Streams \ {s} : log'[t] = log[t]
    BY <1>1, <1>2, <1>6, StoreAdds DEF Inv
  <2> QED
    BY <1>1, <1>2, <2>1 DEF Inv, CapturesAreStored, Streams
<1> QED
  BY <1>1, <1>2, <1>6, <1>7, <1>8, StoreKeeps DEF Inv, LogType

\* A replay changes the dedupe key only.
LEMMA ReplayKeeps ==
    ASSUME Inv, NEW s \in Sources, NEW i \in 1..Len(log[Dlq]), Replay(s, i)
    PROVE  Inv'
<1> DEFINE r == log[Dlq][i]
           m == [r EXCEPT !.hdr["msgId"] = r.hdr["originId"]]
<1>1. Store(s, m) /\ published' = published + 1 /\ landed' = landed
  BY DEF Replay
<1>2. /\ published \in Nat /\ s \in Streams /\ s \notin {Dlq, Parking}
      /\ Dlq \in Streams /\ log[Dlq] \in Seq(Stored)
  BY CaptureAssumption DEF Inv, LogType, Streams
<1>3. r \in Stored /\ ChainHolds(r) /\ r.hdr["app"] = r.of
  BY <1>2 DEF Inv
<1>4. "msgId" \in Keys /\ "originId" \in Keys /\ "app" \in Keys /\ OriginKeys \subseteq Keys
      /\ "hops" \in Keys /\ "recorded" \in OriginKeys /\ "msgId" \notin OriginKeys
  BY DEF Keys, ReservedKeys, OriginKeys, PerHopKeys
<1> HIDE DEF r
<1>5. m \in Stored
  BY <1>3, <1>4 DEF Stored
<1>6. /\ \A k \in Keys \ {"msgId"} : m.hdr[k] = r.hdr[k]
      /\ m.of = r.of /\ m.first = r.first /\ m.captures = r.captures /\ m.genuine = r.genuine
  BY <1>3, <1>4 DEF Stored
<1> HIDE DEF m
<1>7. OriginOf(m) = OriginOf(r)
  BY <1>4, <1>6 DEF OriginOf
<1>8. ChainHolds(m) /\ m.hdr["app"] = m.of
  BY <1>3, <1>4, <1>6, <1>7 DEF ChainHolds
<1>9. CapturesAreStored'
  <2>1. \A t \in Streams \ {s} : log'[t] = log[t]
    BY <1>1, <1>2, <1>5, StoreAdds DEF Inv
  <2> QED
    BY <1>1, <1>2, <2>1 DEF Inv, CapturesAreStored, Streams
<1> QED
  BY <1>1, <1>2, <1>5, <1>8, <1>9, StoreKeeps DEF Inv, LogType

\* A capture extends the chain by one.
LEMMA DeadLetterKeeps ==
    ASSUME Inv, NEW s \in Streams \ {Parking}, NEW i \in 1..Len(log[s]), NEW known \in BOOLEAN,
           NEW n \in 1..MaxDelivered, DeadLetter(s, i, known, n)
    PROVE  Inv'
<1> DEFINE r == log[s][i]
           h == Copy(r.hdr, s, i, known, n)
           here == OriginHere(r.hdr, s, i, known)
           d == Target(s)
           m == [hdr |-> h, of |-> r.of,
                 first |-> IF r.captures > 0 THEN r.first ELSE here,
                 captures |-> r.captures + 1, seen |-> IF known THEN n ELSE None,
                 genuine |-> r.genuine]
<1>1. Store(d, m) /\ published' = published /\ landed' = [landed EXCEPT ![d] = @ + 1]
  BY DEF DeadLetter
<1>2. /\ published \in Nat /\ d \in Streams /\ d \in {Dlq, Parking}
      /\ log[s] \in Seq(Stored) /\ n \in Nat /\ i \in Nat
  BY CaptureAssumption DEF Inv, LogType, Streams, Target
<1>3. r \in Stored /\ ChainHolds(r) /\ r.hdr["app"] = r.of
  BY <1>2 DEF Inv
<1> HIDE DEF r, d
<1>4. r.hdr \in [Keys -> Value] /\ r.captures \in Nat /\ r.first \in Origin
  BY <1>3 DEF Stored
<1>5. /\ h \in [Keys -> Value] /\ here \in Origin
      /\ \A k \in OriginKeys : h[k] = OriginBlock(r.hdr, s, i, known)[k]
      /\ h["hops"] = dlqHops(r.hdr) + 1
      /\ h["delivered"] = IF known THEN n ELSE None
      /\ \A k \in {"msgId", "directive", "invented"} : h[k] = None
      /\ h["app"] = r.hdr["app"]
  BY <1>2, <1>4, CopyHeaders
<1>6. here["recorded"] = 1 /\ None # 1 /\ "recorded" \in OriginKeys
  BY CaptureAssumption DEF OriginHere, OriginKeys
<1> HIDE DEF h, here
<1>7. m \in Stored
  BY <1>2, <1>3, <1>4, <1>5 DEF Stored
<1>8. /\ m.hdr = h /\ m.of = r.of /\ m.captures = r.captures + 1 /\ m.genuine = r.genuine
      /\ m.seen = (IF known THEN n ELSE None)
      /\ m.first = IF r.captures > 0 THEN r.first ELSE here
  OBVIOUS
<1> HIDE DEF m
<1>9. CopyHolds(m)
  BY <1>3, <1>4, <1>5, <1>8 DEF CopyHolds
<1>10. ChainHolds(m)
  <2> SUFFICES ASSUME r.genuine
               PROVE  h["recorded"] # None /\ OriginOf(m) = m.first /\ h["hops"] = r.captures + 1
    BY <1>4, <1>8 DEF ChainHolds
  <2>1. CASE r.captures = 0
    <3>1. r.hdr["recorded"] = None /\ r.hdr["hops"] = None
      BY <1>3, <2>1 DEF ChainHolds
    <3>2. OriginBlock(r.hdr, s, i, known) = here
      BY <3>1 DEF OriginBlock, here
    <3>3. OriginOf(m) = here
      BY <1>5, <1>8, <3>2 DEF OriginOf, Origin
    <3>4. dlqHops(r.hdr) = 0
      BY <3>1, CaptureAssumption DEF dlqHops
    <3> QED
      BY <1>5, <1>6, <1>8, <2>1, <3>2, <3>3, <3>4
  <2>2. CASE r.captures > 0
    <3>1. r.hdr["recorded"] # None /\ OriginOf(r) = r.first /\ r.hdr["hops"] = r.captures
      BY <1>3, <1>4, <2>2 DEF ChainHolds
    <3>2. OriginBlock(r.hdr, s, i, known) = OriginOf(r)
      BY <3>1 DEF OriginBlock, OriginOf
    <3>3. OriginOf(m) = OriginOf(r) /\ h["recorded"] = r.hdr["recorded"]
      BY <1>5, <1>6, <1>8, <3>2 DEF OriginOf
    <3>4. dlqHops(r.hdr) = r.captures
      BY <1>4, <3>1 DEF dlqHops
    <3> QED
      BY <1>5, <1>8, <2>2, <3>1, <3>3, <3>4
  <2> QED
    BY <1>4, <2>1, <2>2
<1>11. CapturesAreStored'
  <2>1. /\ \A t \in Streams \ {d} : log'[t] = log[t]
        /\ Len(log'[d]) = Len(log[d]) + 1
    BY <1>1, <1>2, <1>5, <1>7, <1>8, StoreAdds DEF Inv
  <2> QED
    BY <1>1, <1>2, <2>1 DEF Inv, LogType, CapturesAreStored, Streams
<1>12. m.hdr["app"] = m.of
  BY <1>9 DEF CopyHolds
<1>13. /\ log' \in [Streams -> Seq(Stored)]
       /\ \A t \in Streams : \A j \in 1..Len(log'[t]) :
             /\ ChainHolds(log'[t][j])
             /\ log'[t][j].hdr["app"] = log'[t][j].of
             /\ t \in {Dlq, Parking} => CopyHolds(log'[t][j])
  BY <1>1, <1>2, <1>7, <1>9, <1>10, <1>12, StoreKeeps
<1>14. LogType'
  BY <1>1, <1>2, <1>13 DEF Inv, LogType
<1> QED
  BY <1>11, <1>13, <1>14 DEF Inv

\* Publications, replays and captures keep the invariant.
THEOREM Invariance == Spec => []Inv
<1>1. Inv /\ [Next]_vars => Inv'
  <2> SUFFICES ASSUME Inv, [Next]_vars PROVE Inv'
    OBVIOUS
  <2>1. CASE UNCHANGED vars
    BY <2>1 DEF vars, Inv, LogType, ChainHolds, CopyHolds, OriginOf, CapturesAreStored
  <2> QED
    BY <2>1, PublishKeeps, ReplayKeeps, DeadLetterKeeps DEF Next
<1> QED
  BY <1>1, InvInit, PTL DEF Spec

\* What the invariant says of a DLQ record.
LEMMA RecordHolds ==
    ASSUME Inv, NEW m \in Records
    PROVE  CopyHolds(m) /\ ChainHolds(m) /\ m.captures # 0
<1>1. PICK d \in {Dlq, Parking} : \E i \in 1..Len(log[d]) : m = log[d][i]
  BY DEF Records
<1>2. d \in Streams /\ log[d] \in Seq(Stored)
  BY <1>1 DEF Streams, Inv, LogType
<1>3. m \in Stored /\ CopyHolds(m) /\ ChainHolds(m)
  BY <1>1, <1>2 DEF Inv
<1>4. m.captures \in Nat
  BY <1>3 DEF Stored
<1> QED
  BY <1>3, <1>4 DEF CopyHolds

\* A DLQ record reports its first capture's origin, whatever chain of recaptures,
\* captures of DLQ records and replays led to it.
THEOREM OriginKept == Spec => []OriginIsFirstHop
<1>1. Inv => OriginIsFirstHop
  BY RecordHolds DEF OriginIsFirstHop, ChainHolds
<1> QED
  BY <1>1, Invariance, PTL

\* A record's hops are the captures of its chain, its delivery count its own hop's.
THEOREM HopsCounted == Spec => []HopsAreCounted
<1>1. Inv => HopsAreCounted
  BY RecordHolds DEF HopsAreCounted, ChainHolds, CopyHolds
<1> QED
  BY <1>1, Invariance, PTL

\* No directive, dedupe key or invented provenance of a producer reaches a DLQ, and
\* the application's headers do.
THEOREM OwnHeadersOnly == Spec => []OnlyOwnHeadersSurvive
<1>1. Inv => OnlyOwnHeadersSurvive
  BY RecordHolds DEF OnlyOwnHeadersSurvive, CopyHolds
<1> QED
  BY <1>1, Invariance, PTL

\* Every capture that reached the broker is stored: none is taken for a duplicate.
THEOREM NothingSuppressed == Spec => []CapturesAreStored
<1>1. Inv => CapturesAreStored
  BY DEF Inv
<1> QED
  BY <1>1, Invariance, PTL
=============================================================================

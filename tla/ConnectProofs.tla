--------------------------- MODULE ConnectProofs ---------------------------
(***************************************************************************)
(* What Connect promises of a connection, for any number of rotations and  *)
(* of events on it.                                                        *)
(***************************************************************************)
EXTENDS Connect, TLAPS

\* What a handshake has read so far is no older than the files were when it began,
\* and a pair is presented only once it is known to match.
HandshakeReads ==
    /\ \A f \in Files : began[f] <= disk[f]
    /\ handshake \in {"cert", "key", "present"} => held["ca"] >= began["ca"]
    /\ handshake \in {"key", "present"} => held["cert"] >= began["cert"]
    /\ handshake = "present" => held["key"] = held["cert"] /\ held["key"] >= began["key"]

\* A notice precedes position i of the callbacks q with no disconnect in between; flag
\* stands for the callbacks that have run already.
NoticeBefore(q, flag, i) ==
    \/ flag /\ \A k \in 1..(i - 1) : q[k].kind # "disconnect"
    \/ \E j \in 1..(i - 1) : /\ q[j].kind = "lame_duck"
                             /\ \A k \in (j + 1)..(i - 1) : q[k].kind # "disconnect"

\* The level that the handlers will give the disconnect at position i.
RatedAs(q, flag, i) ==
    CASE q[i].due = "info" -> "info"
      [] q[i].due # "info" /\ NoticeBefore(q, flag, i) -> "warn"
      [] OTHER -> "error"

\* Every disconnect that is queued will be rated as it deserves, and the flag and the
\* queue together know whether the server of this connection gave notice.
QueueIsRated ==
    /\ \A i \in 1..Len(queue) :
          queue[i].kind = "disconnect" => queue[i].due = RatedAs(queue, lameDuckPending, i)
    /\ announced <=> NoticeBefore(queue, lameDuckPending, Len(queue) + 1)
    /\ announced => conn = "connected"

Inv == TypeOK /\ HandshakeReads /\ IdentityIsCurrent /\ QueueIsRated /\ DisconnectsAreRated

-----------------------------------------------------------------------------
\* A dial that fails leaves a connection that is down and no handshake.
LEMMA DialFailsDown ==
    ASSUME DialFails
    PROVE  handshake' = "none" /\ conn' \in {"failed", "reconnecting"}
BY DEF DialFails

\* Every step keeps the types: generations stay within MaxGen, the queue is no longer
\* than the events there were, and only a connection that is down shakes hands.
LEMMA TypeStep == TypeOK /\ [Next]_vars => TypeOK'
<1> SUFFICES ASSUME TypeOK, [Next]_vars PROVE TypeOK'
    OBVIOUS
<1> USE ConnectAssumption DEF TypeOK
<1>a. \A g, h \in Gens, f \in Files : [g EXCEPT ![f] = h[f]] \in Gens
    BY DEF Gens
<1>1. CASE UNCHANGED vars
    BY <1>1 DEF vars, tlsVars, handlerVars
<1>2. ASSUME NEW f \in Files, RotateFile(f) PROVE TypeOK'
    <2>1. disk' = [disk EXCEPT ![f] = @ + 1] /\ disk[f] \in 0..MaxGen /\ disk[f] < MaxGen
        BY <1>2 DEF RotateFile, Gens
    <2>2. disk[f] + 1 \in 0..MaxGen
        BY <2>1
    <2>3. disk' \in Gens
        BY <2>1, <2>2 DEF Gens
    <2> QED
        BY <1>2, <2>3 DEF RotateFile, handlerVars
<1>3. CASE RotateServer
    BY <1>3 DEF RotateServer, handlerVars
<1>4. CASE ConnectCalled \/ Dial
    BY <1>4 DEF ConnectCalled, Dial, handlerVars, tlsVars
<1>5. CASE VerifyConnection \/ ReadCert \/ ReadKey
    <2>1. PICK f \in Files : Reads(f)
        BY <1>5 DEF VerifyConnection, ReadCert, ReadKey, Files
    <2>2. held' \in Gens
        BY <2>1, <1>a DEF Reads
    <2>3. /\ handshake' \in {"none", "cert", "key", "present"}
          /\ conn' \in {"dialing", "reconnecting", "failed"}
          /\ handshake' # "none" => conn' = conn
        BY <1>5, DialFailsDown DEF VerifyConnection, ReadCert, ReadKey
    <2> QED
        BY <1>5, <2>2, <2>3 DEF VerifyConnection, ReadCert, ReadKey, handlerVars
<1>6. CASE ServerDecides
    BY <1>6, DialFailsDown DEF ServerDecides
<1>7. CASE LameDuck \/ Drops \/ Leaves
    <2>1. PICK c \in Callback : Happens(c)
        BY <1>7 DEF LameDuck, Drops, Leaves, Notice, Disconnect, Callback, Level
    <2>2. queue' \in Seq(Callback) /\ Len(queue') = Len(queue) + 1 /\ events' = events + 1
        BY <2>1 DEF Happens
    <2>3. announced' \in BOOLEAN /\ conn' \in {"connected", "reconnecting", "closed"}
          /\ handshake' = "none"
        BY <1>7, <2>1 DEF LameDuck, Drops, Leaves, Happens, tlsVars
    <2> QED
        BY <2>1, <2>2, <2>3 DEF Happens, tlsVars
<1>8. CASE ClosesWhileDown
    BY <1>8 DEF ClosesWhileDown, handlerVars
<1>9. CASE RunCallback
    <2>0. queue \in Seq(Callback) /\ queue # <<>> /\ queue' = Tail(queue)
        BY <1>9 DEF RunCallback
    <2>1. queue' \in Seq(Callback) /\ Len(queue') <= Len(queue) /\ Head(queue) \in Callback
        BY <2>0
    <2>2. ASSUME Head(queue).kind = "disconnect"
          PROVE  /\ lameDuckPending' = FALSE
                 /\ \E l \in Level : logged' = logged \cup {[level |-> l, due |-> Head(queue).due]}
        <3> DEFINE l == CASE Head(queue).due = "info" -> "info"
                          [] Head(queue).due # "info" /\ lameDuckPending -> "warn"
                          [] OTHER -> "error"
        <3>1. l \in Level
            BY DEF Level
        <3> QED
            BY <1>9, <2>2, <3>1 DEF RunCallback, Rate
    <2>3. logged' \subseteq [level : Level, due : Level] /\ lameDuckPending' \in BOOLEAN
        <3>1. CASE Head(queue).kind = "disconnect"
            <4>1. PICK l \in Level : logged' = logged \cup {[level |-> l, due |-> Head(queue).due]}
                BY <2>2, <3>1
            <4>2. [level |-> l, due |-> Head(queue).due] \in [level : Level, due : Level]
                BY <2>1 DEF Callback
            <4> QED
                BY <2>2, <3>1, <4>1, <4>2
        <3>2. CASE Head(queue).kind # "disconnect"
            BY <1>9, <3>2 DEF RunCallback
        <3> QED
            BY <3>1, <3>2
    <2> QED
        BY <1>9, <2>1, <2>3 DEF RunCallback, tlsVars
<1> QED
    BY <1>1, <1>2, <1>3, <1>4, <1>5, <1>6, <1>7, <1>8, <1>9 DEF Next, HandshakeStep

\* The identity of a connection: what every step of the handshake and of the rotation
\* that runs beside it preserves.
LEMMA IdentityStep ==
    TypeOK /\ HandshakeReads /\ IdentityIsCurrent /\ [Next]_vars
        => HandshakeReads' /\ IdentityIsCurrent'
<1> SUFFICES ASSUME TypeOK, HandshakeReads, IdentityIsCurrent, [Next]_vars
             PROVE  HandshakeReads' /\ IdentityIsCurrent'
    OBVIOUS
<1> USE ConnectAssumption DEF TypeOK, Gens, Files, HandshakeReads, IdentityIsCurrent
<1>1. CASE UNCHANGED vars
    BY <1>1 DEF vars, tlsVars, handlerVars
<1>2. ASSUME NEW f \in Files, RotateFile(f) PROVE HandshakeReads' /\ IdentityIsCurrent'
    BY <1>2 DEF RotateFile
<1>3. CASE RotateServer \/ ConnectCalled \/ Dial \/ ClosesWhileDown
    BY <1>3 DEF RotateServer, ConnectCalled, Dial, ClosesWhileDown, tlsVars
<1>4. CASE VerifyConnection
    BY <1>4, DialFailsDown DEF VerifyConnection, Reads
<1>5. CASE ReadCert
    BY <1>5 DEF ReadCert, Reads
<1>6. CASE ReadKey
    BY <1>6, DialFailsDown DEF ReadKey, Reads
<1>7. CASE ServerDecides
    BY <1>7, DialFailsDown DEF ServerDecides
<1>8. CASE LameDuck \/ Drops \/ Leaves
    BY <1>8 DEF LameDuck, Drops, Leaves, Happens, tlsVars
<1>9. CASE RunCallback
    BY <1>9 DEF RunCallback, tlsVars
<1> QED
    BY <1>1, <1>2, <1>3, <1>4, <1>5, <1>6, <1>7, <1>8, <1>9 DEF Next, HandshakeStep

-----------------------------------------------------------------------------
\* Appending a callback changes nothing for the positions up to the one it takes.
LEMMA NoticeAppend ==
    ASSUME NEW q \in Seq(Callback), NEW c \in Callback, NEW flag \in BOOLEAN,
           NEW i \in 1..(Len(q) + 1)
    PROVE  NoticeBefore(Append(q, c), flag, i) <=> NoticeBefore(q, flag, i)
<1>1. \A k \in 1..(i - 1) : Append(q, c)[k] = q[k]
    OBVIOUS
<1>2. \A j \in 1..(i - 1) : \A k \in (j + 1)..(i - 1) : k \in 1..(i - 1)
    OBVIOUS
<1> QED
    BY <1>1, <1>2 DEF NoticeBefore

\* Past the appended callback, a notice counts and a disconnect ends what came before.
LEMMA NoticeLast ==
    ASSUME NEW q \in Seq(Callback), NEW c \in Callback, NEW flag \in BOOLEAN
    PROVE  /\ c.kind = "lame_duck" => NoticeBefore(Append(q, c), flag, Len(q) + 2)
           /\ c.kind = "disconnect" => ~NoticeBefore(Append(q, c), flag, Len(q) + 2)
<1>1. Append(q, c)[Len(q) + 1] = c /\ Len(q) + 1 \in 1..(Len(q) + 2 - 1)
    OBVIOUS
<1>2. \A j \in 1..(Len(q) + 1) : j = Len(q) + 1 \/ Len(q) + 1 \in (j + 1)..(Len(q) + 2 - 1)
    OBVIOUS
<1>3. (Len(q) + 2) - 1 = Len(q) + 1 /\ \A k \in (Len(q) + 2)..(Len(q) + 1) : FALSE
    OBVIOUS
<1>4. CASE c.kind = "lame_duck"
    BY <1>1, <1>3, <1>4 DEF NoticeBefore
<1>5. CASE c.kind = "disconnect"
    BY <1>1, <1>2, <1>3, <1>5 DEF NoticeBefore
<1> QED
    BY <1>4, <1>5 DEF Callback

\* Running the first callback: the flag takes over what the queue said of it.
LEMMA NoticeTail ==
    ASSUME NEW q \in Seq(Callback), q # <<>>, NEW flag \in BOOLEAN,
           NEW i \in 1..Len(q)
    PROVE  NoticeBefore(Tail(q), Head(q).kind = "lame_duck", i) <=> NoticeBefore(q, flag, i + 1)
<1> DEFINE new == Head(q).kind = "lame_duck"
<1>1. Len(q) \in Nat \ {0} /\ Head(q) = q[1] /\ q[1] \in Callback
    OBVIOUS
<1>2. \A k \in 1..(i - 1) : Tail(q)[k] = q[k + 1]
    OBVIOUS
<1>3. ASSUME NoticeBefore(Tail(q), new, i) PROVE NoticeBefore(q, flag, i + 1)
    <2>1. CASE new /\ \A k \in 1..(i - 1) : Tail(q)[k].kind # "disconnect"
        <3>2. ASSUME NEW k \in (1 + 1)..((i + 1) - 1) PROVE q[k].kind # "disconnect"
            <4>1. k - 1 \in 1..(i - 1) /\ (k - 1) + 1 = k
                OBVIOUS
            <4>2. Tail(q)[k - 1] = q[k]
                BY <1>2, <4>1
            <4> QED
                BY <2>1, <4>1, <4>2
        <3>3. 1 \in 1..((i + 1) - 1)
            OBVIOUS
        <3> QED
            BY <2>1, <1>1, <3>2, <3>3 DEF NoticeBefore
    <2>2. ASSUME NEW j \in 1..(i - 1), Tail(q)[j].kind = "lame_duck",
                 \A k \in (j + 1)..(i - 1) : Tail(q)[k].kind # "disconnect"
          PROVE  NoticeBefore(q, flag, i + 1)
        <3>2. ASSUME NEW k \in ((j + 1) + 1)..((i + 1) - 1) PROVE q[k].kind # "disconnect"
            <4>1. k - 1 \in (j + 1)..(i - 1) /\ k - 1 \in 1..(i - 1) /\ (k - 1) + 1 = k
                OBVIOUS
            <4>2. Tail(q)[k - 1] = q[k]
                BY <1>2, <4>1
            <4> QED
                BY <2>2, <4>1, <4>2
        <3>3. j + 1 \in 1..((i + 1) - 1) /\ q[j + 1].kind = "lame_duck"
            BY <2>2, <1>2
        <3> QED
            BY <3>2, <3>3 DEF NoticeBefore
    <2> QED
        BY <1>3, <2>1, <2>2 DEF NoticeBefore
<1>4. ASSUME NoticeBefore(q, flag, i + 1) PROVE NoticeBefore(Tail(q), new, i)
    <2>1. CASE \A k \in 1..((i + 1) - 1) : q[k].kind # "disconnect"
        <3>1. 1 \in 1..((i + 1) - 1) /\ \A k \in 1..(i - 1) : k + 1 \in 1..((i + 1) - 1)
            OBVIOUS
        <3>2. new
            BY <1>1, <2>1, <3>1 DEF Callback
        <3>3. \A k \in 1..(i - 1) : Tail(q)[k].kind # "disconnect"
            BY <1>2, <2>1, <3>1
        <3> QED
            BY <3>2, <3>3 DEF NoticeBefore
    <2>2. ASSUME NEW j \in 1..((i + 1) - 1), q[j].kind = "lame_duck",
                 \A k \in (j + 1)..((i + 1) - 1) : q[k].kind # "disconnect"
          PROVE  NoticeBefore(Tail(q), new, i)
        <3>1. \A k \in j..(i - 1) : k \in 1..(i - 1) /\ k + 1 \in (j + 1)..((i + 1) - 1)
            OBVIOUS
        <3>2. \A k \in j..(i - 1) : Tail(q)[k].kind # "disconnect"
            BY <2>2, <1>2, <3>1
        <3>3. CASE j = 1
            BY <2>2, <1>1, <3>2, <3>3 DEF NoticeBefore
        <3>4. CASE j # 1
            <4>1. j - 1 \in 1..(i - 1) /\ (j - 1) + 1 = j
                BY <3>4
            <4>2. Tail(q)[j - 1].kind = "lame_duck"
                BY <2>2, <1>2, <4>1
            <4> QED
                BY <3>2, <4>1, <4>2 DEF NoticeBefore
        <3> QED
            BY <3>3, <3>4
    <2> QED
        BY <1>4, <2>1, <2>2 DEF NoticeBefore
<1> QED
    BY <1>3, <1>4

\* Every step keeps the queue rated: what is enqueued is announced as the flag and the
\* queue will say, and running a callback moves its part from the queue to the flag.
LEMMA RatedStep ==
    TypeOK /\ QueueIsRated /\ DisconnectsAreRated /\ [Next]_vars
        => QueueIsRated' /\ DisconnectsAreRated'
<1> SUFFICES ASSUME TypeOK, QueueIsRated, DisconnectsAreRated, [Next]_vars
             PROVE  QueueIsRated' /\ DisconnectsAreRated'
    OBVIOUS
<1>a. /\ queue \in Seq(Callback) /\ Len(queue) \in Nat
      /\ lameDuckPending \in BOOLEAN /\ announced \in BOOLEAN
    BY DEF TypeOK
<1>1. ASSUME UNCHANGED <<queue, lameDuckPending, announced, logged>>, announced => conn' = "connected"
      PROVE  QueueIsRated' /\ DisconnectsAreRated'
    BY <1>1 DEF QueueIsRated, RatedAs, NoticeBefore, DisconnectsAreRated
<1>2. ASSUME NEW c \in Callback, Happens(c),
             c.kind = "disconnect" => c.due \in {"info", IF announced THEN "warn" ELSE "error"},
             announced' = (c.kind = "lame_duck"), announced' => conn' = "connected"
      PROVE  QueueIsRated' /\ DisconnectsAreRated'
    <2>1. queue' = Append(queue, c) /\ UNCHANGED <<lameDuckPending, logged>>
        BY <1>2 DEF Happens
    <2>2. Len(queue') = Len(queue) + 1 /\ queue'[Len(queue) + 1] = c
          /\ \A i \in 1..Len(queue) : queue'[i] = queue[i]
        BY <2>1, <1>a
    <2>3. ASSUME NEW i \in 1..Len(queue'), queue'[i].kind = "disconnect"
          PROVE  queue'[i].due = RatedAs(queue', lameDuckPending, i)
        <3>1. i \in 1..(Len(queue) + 1)
            BY <2>2
        <3>2. NoticeBefore(queue', lameDuckPending, i) <=> NoticeBefore(queue, lameDuckPending, i)
            BY <3>1, <2>1, <1>a, NoticeAppend
        <3>3. CASE i \in 1..Len(queue)
            BY <3>2, <3>3, <2>2, <2>3 DEF QueueIsRated, RatedAs
        <3>4. CASE i = Len(queue) + 1
            <4>1. NoticeBefore(queue', lameDuckPending, i) <=> announced
                BY <3>2, <3>4 DEF QueueIsRated
            <4> QED
                BY <3>4, <4>1, <2>2, <2>3, <1>2, <1>a DEF RatedAs
        <3> QED
            BY <3>1, <3>3, <3>4, <1>a
    <2>4. announced' <=> NoticeBefore(queue', lameDuckPending, Len(queue') + 1)
        <3>1. Len(queue') + 1 = Len(queue) + 2 /\ c.kind \in {"lame_duck", "disconnect"}
            BY <2>2, <1>a DEF Callback
        <3> QED
            BY <3>1, <2>1, <1>2, <1>a, NoticeLast
    <2> QED
        BY <2>1, <2>3, <2>4, <1>2 DEF QueueIsRated, DisconnectsAreRated
<1>3. CASE LameDuck
    <2>1. Notice \in Callback /\ Notice.kind = "lame_duck"
        BY DEF Notice, Callback, Level
    <2>2. Happens(Notice) /\ announced' = TRUE /\ conn' = "connected"
        BY <1>3 DEF LameDuck, Happens
    <2> QED
        BY <1>2, <2>1, <2>2
<1>4. ASSUME NEW l \in Level, Happens(Disconnect(l)), announced' = FALSE,
             l \in {"info", IF announced THEN "warn" ELSE "error"}
      PROVE  QueueIsRated' /\ DisconnectsAreRated'
    <2>1. Disconnect(l) \in Callback /\ Disconnect(l).kind = "disconnect" /\ Disconnect(l).due = l
        BY DEF Disconnect, Callback
    <2> QED
        BY <1>2, <1>4, <2>1
<1>5. CASE Drops
    BY <1>4, <1>5 DEF Drops, Level
<1>6. CASE Leaves
    BY <1>4, <1>6 DEF Leaves, Level
<1>7. CASE ServerDecides
    <2>1. ~announced
        BY <1>7 DEF ServerDecides, TypeOK, QueueIsRated
    <2>2. UNCHANGED <<queue, lameDuckPending, announced, logged>>
        BY <1>7, <2>1, <1>a DEF ServerDecides
    <2> QED
        BY <1>1, <2>1, <2>2
<1>8. CASE RunCallback
    <2> DEFINE flag == Head(queue).kind = "lame_duck"
    <2>1. queue # <<>> /\ queue' = Tail(queue) /\ UNCHANGED <<announced, conn>>
        BY <1>8 DEF RunCallback
    <2>2. /\ Len(queue) \in Nat \ {0} /\ Len(queue') = Len(queue) - 1
          /\ Head(queue) = queue[1] /\ queue[1] \in Callback
          /\ \A i \in 1..Len(queue') : queue'[i] = queue[i + 1]
        BY <2>1, <1>a
    <2>3. lameDuckPending' = flag
        BY <1>8, <2>2 DEF RunCallback, Rate, Callback
    <2>4. \A i \in 1..Len(queue) :
            NoticeBefore(queue', lameDuckPending', i) <=> NoticeBefore(queue, lameDuckPending, i + 1)
        BY <2>1, <2>3, <1>a, NoticeTail
    <2>5. ASSUME NEW i \in 1..Len(queue'), queue'[i].kind = "disconnect"
          PROVE  queue'[i].due = RatedAs(queue', lameDuckPending', i)
        <3>1. i \in 1..Len(queue) /\ i + 1 \in 1..Len(queue) /\ queue'[i] = queue[i + 1]
            BY <2>2
        <3>2. queue[i + 1].due = RatedAs(queue, lameDuckPending, i + 1)
            BY <3>1, <2>5 DEF QueueIsRated
        <3> QED
            BY <3>1, <3>2, <2>4 DEF RatedAs
    <2>6. announced' <=> NoticeBefore(queue', lameDuckPending', Len(queue') + 1)
        <3>1. Len(queue') + 1 = Len(queue) /\ Len(queue) \in 1..Len(queue)
            BY <2>2
        <3> QED
            BY <3>1, <2>1, <2>4 DEF QueueIsRated
    <2>7. DisconnectsAreRated'
        <3>1. CASE flag
            BY <1>8, <3>1 DEF RunCallback, DisconnectsAreRated
        <3>2. CASE ~flag
            <4>1. 1 \in 1..Len(queue) /\ queue[1].kind = "disconnect"
                BY <2>2, <3>2 DEF Callback
            <4>2. NoticeBefore(queue, lameDuckPending, 1) <=> lameDuckPending
                BY <1>a DEF NoticeBefore
            <4> DEFINE l == CASE Head(queue).due = "info" -> "info"
                              [] ~(Head(queue).due = "info") /\ lameDuckPending -> "warn"
                              [] OTHER -> "error"
            <4>3. logged' = logged \cup {[level |-> l, due |-> Head(queue).due]}
                BY <1>8, <3>2 DEF RunCallback, Rate
            <4>4. RatedAs(queue, lameDuckPending, 1) = l
                BY <4>2, <2>2 DEF RatedAs
            <4>5. Head(queue).due = l
                BY <4>1, <4>4, <2>2 DEF QueueIsRated
            <4> HIDE DEF l
            <4> QED
                BY <4>3, <4>5 DEF DisconnectsAreRated
        <3> QED
            BY <3>1, <3>2
    <2> QED
        BY <2>1, <2>5, <2>6, <2>7 DEF QueueIsRated
<1>9. CASE UNCHANGED vars \/ RotateServer \/ ConnectCalled \/ Dial \/ ClosesWhileDown
    BY <1>1, <1>9 DEF vars, tlsVars, handlerVars, RotateServer, ConnectCalled, Dial,
                      ClosesWhileDown, QueueIsRated
<1>10. CASE VerifyConnection \/ ReadCert \/ ReadKey
    <2>1. ~announced
        BY <1>10 DEF VerifyConnection, ReadCert, ReadKey, TypeOK, QueueIsRated
    <2> QED
        BY <1>1, <1>10, <2>1 DEF VerifyConnection, ReadCert, ReadKey, handlerVars
<1>11. ASSUME NEW f \in Files, RotateFile(f) PROVE QueueIsRated' /\ DisconnectsAreRated'
    BY <1>1, <1>11 DEF RotateFile, handlerVars, QueueIsRated
<1> QED
    BY <1>3, <1>5, <1>6, <1>7, <1>8, <1>9, <1>10, <1>11 DEF Next, HandshakeStep

\* No connection, no event and no reading yet.
LEMMA InitInv == Init => Inv
<1> SUFFICES ASSUME Init PROVE Inv
    OBVIOUS
<1> USE ConnectAssumption
<1>1. queue \in Seq(Callback) /\ Len(queue) = 0
    BY DEF Init
<1>2. held \in Gens /\ disk \in Gens /\ began \in Gens
    BY DEF Init, Gens
<1>3. /\ retry \in BOOLEAN /\ conn = "none" /\ handshake = "none"
      /\ lameDuckPending \in BOOLEAN /\ announced \in BOOLEAN
      /\ server = 0 /\ events = 0 /\ logged = {}
    BY DEF Init
<1>4. TypeOK
    BY <1>1, <1>2, <1>3 DEF TypeOK
<1> USE DEF Init
<1>5. HandshakeReads /\ IdentityIsCurrent /\ DisconnectsAreRated
    BY DEF HandshakeReads, IdentityIsCurrent, DisconnectsAreRated, Files
<1>6. ~NoticeBefore(queue, lameDuckPending, Len(queue) + 1)
    BY DEF NoticeBefore
<1>7. QueueIsRated
    BY <1>6 DEF QueueIsRated
<1> QED
    BY <1>4, <1>5, <1>7 DEF Inv

\* The inductive invariant holds in every reachable state.
LEMMA Invariance == Spec => []Inv
<1>1. Inv /\ [Next]_vars => Inv'
    BY TypeStep, IdentityStep, RatedStep DEF Inv
<1> QED
    BY <1>1, InitInv, PTL DEF Spec

-----------------------------------------------------------------------------
\* The state of a connection is well typed, for any number of rotations and events.
THEOREM TypeCorrect == Spec => []TypeOK
BY Invariance, PTL DEF Inv

\* DisconnectErrHandler and LameDuckModeHandler: every disconnect is logged at the level
\* it deserves, however late the callbacks run and however many connections, notices
\* and deliberate reconnects came before.
THEOREM RatedHolds == Spec => []DisconnectsAreRated
BY Invariance, PTL DEF Inv

\* TLSConfigFromFiles: a connection is established only with a certificate and a key of
\* one generation, none of them older than the start of the handshake, whatever is
\* rotated while it runs.
THEOREM IdentityHolds == Spec => []IdentityIsCurrent
BY Invariance, PTL DEF Inv
=============================================================================

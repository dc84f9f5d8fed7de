------------------------------ MODULE Connect ------------------------------
(***************************************************************************)
(* nuts.Connect over the life of one connection: the fail-fast first dial, *)
(* reconnecting for ever, TLS material that is read from disk on every     *)
(* handshake while it is being rotated, and the lifecycle handlers that    *)
(* rate a disconnect.                                                      *)
(*                                                                         *)
(* Certificates are abstracted to generations: a server of generation g    *)
(* presents a certificate of CA g and accepts client certificates of g.    *)
(* The callbacks of nats.go (external) run one at a time, in order, some   *)
(* time after the events they report.                                      *)
(***************************************************************************)
EXTENDS Naturals, Sequences

CONSTANTS MaxGen,     \* bound on rotations
          MaxEvents   \* bound on lame-duck notices and disconnects

ASSUME ConnectAssumption == MaxGen \in Nat /\ MaxEvents \in Nat

VARIABLES retry,      \* WithRetryOnFailedConnect was given
          conn,       \* the connection, as its owner and nats.go see it
          handshake,  \* where the TLS handshake of the dial in progress is
          held,       \* generation of what this handshake read
          disk,       \* generation of each file
          server,     \* generation the servers are at
          began,      \* history: the files when the handshake began
          \* the lifecycle handlers
          queue, lameDuckPending,
          announced,  \* history: the server of this connection gave notice
          events, logged

tlsVars == <<retry, handshake, held, disk, server, began>>
handlerVars == <<queue, lameDuckPending, announced, events, logged>>
vars == <<conn, tlsVars, handlerVars>>

Files == {"ca", "cert", "key"}
Gens == [Files -> 0..MaxGen]
Level == {"info", "warn", "error"}

\* A callback: a notice, or a disconnect with the level it deserves.
Notice == [kind |-> "lame_duck", due |-> "warn"]
Disconnect(level) == [kind |-> "disconnect", due |-> level]
Callback == [kind : {"lame_duck", "disconnect"}, due : Level]

TypeOK ==
    /\ retry \in BOOLEAN
    /\ conn \in {"none", "dialing", "connected", "reconnecting", "failed", "closed"}
    /\ handshake \in {"none", "verify", "cert", "key", "present"}
    /\ held \in Gens /\ disk \in Gens /\ began \in Gens
    /\ server \in 0..MaxGen
    /\ queue \in Seq(Callback) /\ Len(queue) <= events
    /\ lameDuckPending \in BOOLEAN /\ announced \in BOOLEAN
    /\ events \in 0..MaxEvents
    /\ logged \subseteq [level : Level, due : Level]
    /\ handshake # "none" => conn \in {"dialing", "reconnecting"}

Init ==
    /\ retry \in BOOLEAN
    /\ conn = "none" /\ handshake = "none"
    /\ held = [f \in Files |-> 0]
    /\ disk = [f \in Files |-> 0]
    /\ server = 0
    /\ began = [f \in Files |-> 0]
    /\ queue = <<>> /\ lameDuckPending = FALSE /\ announced = FALSE
    /\ events = 0 /\ logged = {}

-----------------------------------------------------------------------------
(* Rotation *)

\* A file is replaced; certificate and key one after the other.
RotateFile(f) ==
    /\ disk[f] < MaxGen
    /\ f = "key" => disk["key"] < disk["cert"]
    /\ f = "cert" => disk["cert"] = disk["key"]
    /\ disk' = [disk EXCEPT ![f] = @ + 1]
    /\ UNCHANGED <<conn, handshake, held, server, retry, began, handlerVars>>

RotateServer ==
    /\ server < MaxGen
    /\ server' = server + 1
    /\ UNCHANGED <<conn, retry, handshake, held, disk, began, handlerVars>>

-----------------------------------------------------------------------------
(* Connect *)

\* TLSConfigFromFiles reads everything once, so that a bad keypair fails at once;
\* then the first dial.
ConnectCalled ==
    /\ conn = "none"
    /\ conn' = IF disk["cert"] = disk["key"] THEN "dialing" ELSE "failed"
    /\ UNCHANGED <<tlsVars, handlerVars>>

\* A dial reaches a server; a dial that does not changes nothing on the client.
Dial ==
    /\ conn \in {"dialing", "reconnecting"} /\ handshake = "none"
    /\ handshake' = "verify"
    /\ began' = disk
    /\ UNCHANGED <<conn, held, disk, server, retry, handlerVars>>

\* Mutant: what was read when the connection was configured is kept.
ReadsOnce(f) == held' = held

\* A file is read afresh.
Reads(f) == held' = [held EXCEPT ![f] = disk[f]]

\* Mutant: a connection that cannot be restored is given up.
GivesUpReconnecting ==
    /\ conn' = "failed"
    /\ handshake' = "none"

\* The dial fails.  The first one is an error of Connect unless retrying was asked
\* for; MaxReconnects is -1, so every other one is tried again.
DialFails ==
    /\ conn' = IF conn = "dialing" /\ ~retry THEN "failed" ELSE "reconnecting"
    /\ handshake' = "none"

\* VerifyConnection reads the CA file and checks the server against it.
VerifyConnection ==
    /\ handshake = "verify"
    /\ Reads("ca")
    /\ IF held'["ca"] = server THEN handshake' = "cert" /\ UNCHANGED conn ELSE DialFails
    /\ UNCHANGED <<disk, server, retry, began, handlerVars>>

\* GetClientCertificate reads the certificate, then the key, which must match.
ReadCert ==
    /\ handshake = "cert"
    /\ Reads("cert")
    /\ handshake' = "key"
    /\ UNCHANGED <<conn, disk, server, retry, began, handlerVars>>

ReadKey ==
    /\ handshake = "key"
    /\ Reads("key")
    /\ IF held'["key"] = held["cert"] THEN handshake' = "present" /\ UNCHANGED conn ELSE DialFails
    /\ UNCHANGED <<disk, server, retry, began, handlerVars>>

\* The server accepts the client's certificate or not.
ServerDecides ==
    /\ handshake = "present"
    /\ \/ /\ held["cert"] = server
          /\ conn' = "connected" /\ handshake' = "none" /\ announced' = FALSE
       \/ held["cert"] # server /\ DialFails /\ UNCHANGED announced
    /\ UNCHANGED <<held, disk, server, retry, began, queue, lameDuckPending, events, logged>>

-----------------------------------------------------------------------------
(* Events of a live connection *)

Happens(callback) ==
    /\ conn = "connected" /\ events < MaxEvents
    /\ events' = events + 1
    /\ queue' = Append(queue, callback)
    /\ UNCHANGED <<tlsVars, lameDuckPending, logged>>

LameDuck ==
    /\ Happens(Notice)
    /\ announced' = TRUE
    /\ UNCHANGED conn

\* The connection is lost.
Drops ==
    /\ Happens(Disconnect(IF announced THEN "warn" ELSE "error"))
    /\ conn' = "reconnecting"
    /\ announced' = FALSE

\* The owner forces a reconnect or closes: a disconnect without an error.
Leaves ==
    /\ Happens(Disconnect("info"))
    /\ conn' \in {"reconnecting", "closed"}
    /\ announced' = FALSE

\* The owner closes a connection that is down: no disconnect is reported.
ClosesWhileDown ==
    /\ conn = "reconnecting"
    /\ conn' = "closed" /\ handshake' = "none"
    /\ UNCHANGED <<held, disk, server, retry, began, handlerVars>>

\* Mutant: a deliberate disconnect leaves the flag alone.
RateKeepingFlag(deliberate) ==
    /\ lameDuckPending' = IF deliberate THEN lameDuckPending ELSE FALSE
    /\ logged' = logged \cup {[level |-> CASE deliberate -> "info"
                                           [] ~deliberate /\ lameDuckPending -> "warn"
                                           [] OTHER -> "error", due |-> Head(queue).due]}

\* DisconnectErrHandler: the flag is consumed by whichever disconnect comes next.
Rate(deliberate) ==
    /\ lameDuckPending' = FALSE
    /\ logged' = logged \cup {[level |-> CASE deliberate -> "info"
                                           [] ~deliberate /\ lameDuckPending -> "warn"
                                           [] OTHER -> "error", due |-> Head(queue).due]}

\* The callback goroutine runs the next handler.
RunCallback ==
    /\ queue # <<>>
    /\ queue' = Tail(queue)
    /\ \/ Head(queue).kind = "lame_duck" /\ lameDuckPending' = TRUE /\ UNCHANGED logged
       \/ Head(queue).kind = "disconnect" /\ Rate(Head(queue).due = "info")
    /\ UNCHANGED <<conn, tlsVars, announced, events>>

-----------------------------------------------------------------------------
HandshakeStep == VerifyConnection \/ ReadCert \/ ReadKey \/ ServerDecides

Next ==
    \/ \E f \in Files : RotateFile(f)
    \/ RotateServer \/ ConnectCalled \/ Dial \/ HandshakeStep
    \/ LameDuck \/ Drops \/ Leaves \/ ClosesWhileDown \/ RunCallback

\* nats.go dials again and again; a rotation that has begun is
\* completed on every side.
Fairness ==
    /\ WF_vars(Dial) /\ WF_vars(HandshakeStep)
    /\ \A f \in Files : WF_vars(RotateFile(f))
    /\ WF_vars(RotateServer)

Spec == Init /\ [][Next]_vars /\ Fairness

-----------------------------------------------------------------------------
(* Properties *)

\* A disconnect is logged as what it was: deliberate, announced by the server of that
\* connection, or a fault; a notice never downgrades a later, unannounced drop.
DisconnectsAreRated == \A e \in logged : e.level = e.due

\* An established connection proved itself with a certificate and a key that belong
\* together and were no older than the files at the start of its handshake.
IdentityIsCurrent ==
    conn = "connected" => /\ held["cert"] = held["key"]
                          /\ \A f \in Files : held[f] >= began[f]

\* A connection that is down comes back, whatever was rotated meanwhile and without a
\* restart, unless its owner closes it (reconnect-forever, rotation-aware TLS).
Reconnects == conn = "reconnecting" ~> conn \in {"connected", "closed"}
=============================================================================

------------------------------ MODULE Backoff ------------------------------
(***************************************************************************)
(* backoff.Policy as pure operators: what the redelivery envelope asks for *)
(* after delivery n.  Durations are naturals up to MaxDuration, which      *)
(* stands for math.MaxInt64; n = 0 stands for a message without metadata.  *)
(***************************************************************************)
EXTENDS Naturals, FiniteSetsExt

CONSTANT MaxDuration

ASSUME MaxDurationAssumption == MaxDuration \in Nat \ {0}

Policy == [nakDelay : 0..MaxDuration, factor : Nat, maxDelay : 0..MaxDuration,
           maxDeliver : Nat, termOnExhaustion : BOOLEAN]

\* math.Pow, for a whole factor.
Power(b) == LET pow[n \in Nat] == IF n = 0 THEN 1 ELSE b * pow[n - 1] IN pow

\* Mutant: growth that wraps like integer arithmetic.
DelayWrapped(p, n) ==
    IF p.factor <= 1 \/ n <= 1 THEN p.nakDelay
    ELSE LET d == (p.nakDelay * Power(p.factor)[n - 1]) % (MaxDuration + 1)
         IN  IF p.maxDelay > 0 /\ d >= p.maxDelay THEN p.maxDelay ELSE d

\* DelayFor: the first delivery's delay is NakDelay whatever the cap is.
DelayFor(p, n) ==
    IF p.factor <= 1 \/ n <= 1 THEN p.nakDelay
    ELSE LET d == p.nakDelay * Power(p.factor)[n - 1]
         IN  IF p.maxDelay > 0 /\ d >= p.maxDelay THEN p.maxDelay
             ELSE Min({d, MaxDuration})

\* IsFinalDelivery: never for an unlimited policy or without metadata.
IsFinalDelivery(p, n) == p.maxDeliver > 0 /\ n >= p.maxDeliver
=============================================================================

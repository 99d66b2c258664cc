---------------------------- MODULE AdmissionModel ----------------------------
(***************************************************************************)
(* The admission-control exhibit (web/lib/admission-model.ts,              *)
(* simulateAdmission): no control, a token bucket or a concurrency limit   *)
(* in front of a backend with a fixed service time.  One step is one       *)
(* arrival.  Tokens are counted in thousandths, so that a refill per       *)
(* second is whole after a whole number of milliseconds.                   *)
(***************************************************************************)
EXTENDS Integers, Sequences, FiniteSetsExt

CONSTANT AdmissionSettings      \* the configurations to simulate

ASSUME AdmissionAssumption ==
    \A c \in AdmissionSettings :
        /\ c.policy \in {"none", "token-bucket", "concurrency-limit"}
        /\ {c.requestCount, c.serviceTimeMs, c.tokenCapacity, c.refillPerSecond} \subseteq Nat
        /\ {c.baseIntervalMs, c.burstMultiplier, c.backendConcurrency} \subseteq Nat \ {0}

VARIABLE admission      \* config, clock, tokens, the work in flight, the requests so far

Token == 1000

\* buildArrivals: the middle of the trace is a burst.
InBurst(c, i) ==
    (35 * c.requestCount) \div 100 <= i /\ i < (65 * c.requestCount) \div 100

ArrivalAfter(c, previousMs, i) ==
    IF i = 0 THEN 0
    ELSE previousMs + (IF InBurst(c, i) THEN c.baseIntervalMs \div c.burstMultiplier
                       ELSE c.baseIntervalMs)

Refilled(s, elapsedMs) ==
    IF s.config.policy = "token-bucket"
    THEN Min({s.config.tokenCapacity, s.tokens + elapsedMs * s.config.refillPerSecond})
    ELSE s.tokens

\* Mutant of removeCompleted: work that ends right now still counts.
removeCompleted_Late(active, atMs) == {a \in active : a.completionMs >= atMs}

removeCompleted(active, atMs) == {a \in active : a.completionMs > atMs}

AdmissionReason(s, tokens, inFlight) ==
    CASE s.config.policy = "token-bucket" /\ tokens < Token -> "rate-limited"
      [] s.config.policy = "concurrency-limit" /\ inFlight >= s.config.backendConcurrency ->
             "concurrency-limited"
      [] OTHER -> "admitted"

-----------------------------------------------------------------------------

AdmissionOf(c) ==
    [config |-> c, previousMs |-> 0, tokens |-> c.tokenCapacity, active |-> {},
     overCapacity |-> 0, requests |-> <<>>]

\* A request arrives and is admitted or turned away.
Offer ==
    LET s == admission
        id == Len(s.requests)
        arrivalMs == ArrivalAfter(s.config, s.previousMs, id)
        tokens == Refilled(s, arrivalMs - s.previousMs)
        active == removeCompleted(s.active, arrivalMs)
        inFlight == Cardinality(active)
        reason == AdmissionReason(s, tokens, inFlight)
        request == [arrivalMs |-> arrivalMs, reason |-> reason, inFlightBefore |-> inFlight]
        t == [s EXCEPT !.previousMs = arrivalMs, !.requests = Append(@, request)]
    IN  /\ id < s.config.requestCount
        /\ \/ /\ reason # "admitted"
              /\ admission' = [t EXCEPT !.tokens = tokens, !.active = active]
           \/ /\ reason = "admitted"
              /\ admission' = [t EXCEPT
                     !.tokens = IF s.config.policy = "token-bucket" THEN tokens - Token ELSE tokens,
                     !.active = active \cup {[id |-> id, completionMs |-> arrivalMs + s.config.serviceTimeMs]},
                     !.overCapacity = IF inFlight >= s.config.backendConcurrency THEN @ + 1 ELSE @]

AdmissionSpec == admission \in {AdmissionOf(c) : c \in AdmissionSettings} /\ [][Offer]_admission

-----------------------------------------------------------------------------

AdmittedIn(i, j) == {k \in i..j : admission.requests[k].reason = "admitted"}

\* What the bucket can have given out between the arrivals of i and j.
Allowance(i, j) ==
    admission.config.tokenCapacity
    + (admission.requests[j].arrivalMs - admission.requests[i].arrivalMs) * admission.config.refillPerSecond

\* A token bucket admits no more than its capacity plus its refill in any stretch of the
\* trace, and turns a request away only when some stretch up to it would exceed that.
RateIsLimited ==
    admission.config.policy = "token-bucket" =>
        \A j \in DOMAIN admission.requests :
            /\ \A i \in 1..j : Cardinality(AdmittedIn(i, j)) * Token <= Allowance(i, j)
            /\ admission.requests[j].reason = "rate-limited" =>
                   \E i \in 1..j : (Cardinality(AdmittedIn(i, j)) + 1) * Token > Allowance(i, j)

\* The admitted requests that are in service when request j arrives.
InServiceAt(j) ==
    {k \in 1..(j - 1) : /\ admission.requests[k].reason = "admitted"
                        /\ admission.requests[k].arrivalMs + admission.config.serviceTimeMs
                               > admission.requests[j].arrivalMs}

\* A concurrency limit turns a request away exactly when the backend is full, so the
\* backend never serves more at once than it can; the other policies are charged with
\* every admission beyond that.
BackendIsProtected ==
    LET full(j) == Cardinality(InServiceAt(j)) >= admission.config.backendConcurrency
        beyond == {j \in DOMAIN admission.requests :
                       admission.requests[j].reason = "admitted" /\ full(j)}
    IN  /\ admission.config.policy = "concurrency-limit" =>
               \A j \in DOMAIN admission.requests :
                   admission.requests[j].reason = "concurrency-limited" <=> full(j)
        /\ admission.overCapacity = Cardinality(beyond)

\* Admission control limits what it is meant to limit, and no more than that.
LimitsAsConfigured == RateIsLimited /\ BackendIsProtected

=============================================================================

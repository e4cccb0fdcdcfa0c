---------------------------- MODULE CloudRunner -----------------------------
(***************************************************************************)
(* The cloud runner's POST /run and its probes.  The handlers run on one   *)
(* event loop; the pipeline runs on pool threads.  The capacity semaphore  *)
(* is a thread semaphore taken on the loop: while a request waits for it,  *)
(* at most 30 s, the loop serves nobody else, and the releases, which come *)
(* after an await, happen on the loop too.                                 *)
(***************************************************************************)
EXTENDS Naturals, FiniteSets

CONSTANTS RnRequests,  \* requests to /run
          RnProbes,    \* requests to /healthz
          RnParallel,  \* RUNNER_MAX_PARALLELISM
          RnAttempts   \* RUNNER_RETRY_ATTEMPTS

ASSUME RnAssumption == RnParallel \in Nat \ {0} /\ RnAttempts \in Nat \ {0}

VARIABLES
    rnPc,       \* request -> new | waiting | body | running | ended | answered
    rnCode,     \* request or probe -> HTTP status, 0 before there is one
    rnTry,      \* request -> attempts made
    rnOk,       \* request -> its pipeline succeeded
    rnPermits,  \* free permits of the semaphore
    rnDraining  \* SIGTERM was received

rnVars == <<rnPc, rnCode, rnTry, rnOk, rnPermits, rnDraining>>

RnTypeOK ==
    /\ rnPc \in [RnRequests -> {"new", "waiting", "body", "running", "ended", "answered"}]
    /\ rnCode \in [RnRequests \cup RnProbes -> {0, 200, 401, 422, 429, 500, 503}]
    /\ rnTry \in [RnRequests -> 0..RnAttempts]
    /\ rnOk \in [RnRequests -> BOOLEAN]
    /\ rnPermits \in 0..RnParallel
    /\ rnDraining \in BOOLEAN

RnInit ==
    /\ rnPc = [r \in RnRequests |-> "new"]
    /\ rnCode = [r \in RnRequests \cup RnProbes |-> 0]
    /\ rnTry = [r \in RnRequests |-> 0]
    /\ rnOk = [r \in RnRequests |-> FALSE]
    /\ rnPermits = RnParallel
    /\ rnDraining = FALSE

Holding == {r \in RnRequests : rnPc[r] \in {"body", "running", "ended"}}
LoopFree == \A r \in RnRequests : rnPc[r] # "waiting"

Reply(r, code) ==
    /\ rnPc' = [rnPc EXCEPT ![r] = "answered"]
    /\ rnCode' = [rnCode EXCEPT ![r] = code]

\* Variant of Accepting: nobody looks at the drain flag.
AcceptingAlways == TRUE

Accepting == ~rnDraining

\* The API key is checked, then the drain flag, then a permit is taken, or
\* waited for.
Arrive(r) ==
    /\ LoopFree /\ rnPc[r] = "new"
    /\ \/ Reply(r, 401) /\ UNCHANGED rnPermits
       \/ ~Accepting /\ Reply(r, 503) /\ UNCHANGED rnPermits
       \/ /\ Accepting /\ rnPermits > 0
          /\ rnPermits' = rnPermits - 1
          /\ rnPc' = [rnPc EXCEPT ![r] = "body"]
          /\ UNCHANGED rnCode
       \/ /\ Accepting /\ rnPermits = 0
          /\ rnPc' = [rnPc EXCEPT ![r] = "waiting"]
          /\ UNCHANGED <<rnPermits, rnCode>>
    /\ UNCHANGED <<rnTry, rnOk, rnDraining>>

\* acquire(timeout=30) returns.
AcquireEnds(r) ==
    /\ rnPc[r] = "waiting"
    /\ IF rnPermits > 0
       THEN /\ rnPermits' = rnPermits - 1
            /\ rnPc' = [rnPc EXCEPT ![r] = "body"]
            /\ UNCHANGED rnCode
       ELSE Reply(r, 429) /\ UNCHANGED rnPermits
    /\ UNCHANGED <<rnTry, rnOk, rnDraining>>

\* The body is read with the permit in hand; then the pool gets the run.
ReadBody(r) ==
    /\ LoopFree /\ rnPc[r] = "body"
    /\ \/ /\ Reply(r, 422)
          /\ rnPermits' = rnPermits + 1
       \/ /\ rnPc' = [rnPc EXCEPT ![r] = "running"]
          /\ UNCHANGED <<rnCode, rnPermits>>
    /\ UNCHANGED <<rnTry, rnOk, rnDraining>>

\* One attempt of the pipeline, on a pool thread.  The metrics
\* it counts are left out.
Attempt(r) ==
    /\ rnPc[r] = "running"
    /\ rnTry' = [rnTry EXCEPT ![r] = @ + 1]
    /\ \/ /\ rnOk' = [rnOk EXCEPT ![r] = TRUE]
          /\ rnPc' = [rnPc EXCEPT ![r] = "ended"]
       \/ /\ rnTry'[r] < RnAttempts
          /\ UNCHANGED <<rnPc, rnOk>>
       \/ /\ rnTry'[r] = RnAttempts
          /\ rnPc' = [rnPc EXCEPT ![r] = "ended"]
          /\ UNCHANGED rnOk
    /\ UNCHANGED <<rnCode, rnPermits, rnDraining>>

\* The handler goes on after its await: it answers and gives the permit back.
Resume(r) ==
    /\ LoopFree /\ rnPc[r] = "ended"
    /\ Reply(r, IF rnOk[r] THEN 200 ELSE 500)
    /\ rnPermits' = rnPermits + 1
    /\ UNCHANGED <<rnTry, rnOk, rnDraining>>

Sigterm ==
    /\ ~rnDraining
    /\ rnDraining' = TRUE
    /\ UNCHANGED <<rnPc, rnCode, rnTry, rnOk, rnPermits>>

Healthz(p) ==
    /\ LoopFree /\ rnCode[p] = 0
    /\ rnCode' = [rnCode EXCEPT ![p] = IF rnDraining THEN 503 ELSE 200]
    /\ UNCHANGED <<rnPc, rnTry, rnOk, rnPermits, rnDraining>>

RnNext ==
    \/ \E r \in RnRequests :
        Arrive(r) \/ AcquireEnds(r) \/ ReadBody(r) \/ Attempt(r) \/ Resume(r)
    \/ \E p \in RnProbes : Healthz(p)
    \/ Sigterm

\* The loop serves what it has taken, the pool threads work, the wait ends.
RnServes ==
    \/ \E r \in RnRequests : AcquireEnds(r) \/ ReadBody(r) \/ Attempt(r) \/ Resume(r)
    \/ \E p \in RnProbes : Healthz(p)

RnSpec == RnInit /\ [][RnNext]_rnVars /\ WF_rnVars(RnServes)

\* Permits and runs add up to the parallelism whichever way a request leaves,
\* so capacity neither leaks away nor grows.
CapacityKept == rnPermits + Cardinality(Holding) = RnParallel

\* From the signal on no request enters, not even one that had passed the
\* drain check and was waiting for a permit.
DrainShrinks == [][rnDraining => {r \in RnRequests : rnPc'[r] = "body"} \subseteq Holding]_rnVars

\* The loop that waits for a permit is the loop that would free one; the
\* wait ends all the same, and a request that was taken is answered.
TakenIsAnswered ==
    \A r \in RnRequests : rnPc[r] \notin {"new", "answered"} ~> rnPc[r] = "answered"

\* A drain counts on the permits: none is lost or made up on any way out, and
\* what runs only gets less.
RunnerDrains == []CapacityKept /\ DrainShrinks
=============================================================================

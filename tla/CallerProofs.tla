---------------------------- MODULE CallerProofs ----------------------------
(***************************************************************************)
(* Proofs about what serves one caller at a time: an inference request, a  *)
(* Foundry call, the bus, the cloud runner, the JSON-RPC server, a chat    *)
(* turn and the analyses of a video.                                       *)
(***************************************************************************)
EXTENDS MessageBus, CloudRunner, ReasoningService, FoundryCalls, McpStdio,
        ChatTurn, AnalysisRuns, FiniteSetTheorems, SequenceTheorems,
        WellFoundedInduction, TLAPS

-----------------------------------------------------------------------------
\* A set of natural numbers has a least element.
LEMMA LeastOfNaturals ==
  ASSUME NEW T, T \subseteq Nat, T # {}
  PROVE  \E x \in T : \A y \in T : x <= y
<1>1. PICK x \in T : \A y \in T : ~(<<y, x>> \in OpToRel(<, Nat))
  BY NatLessThanWellFounded, WFMin
<1>2. \A y \in T : ~(y < x)
  BY <1>1 DEF OpToRel
<1>3. QED
  BY <1>2

-----------------------------------------------------------------------------
(* ReasoningService.                                                       *)

\* A worker that runs has not used up its attempts.
TriesInv ==
    \A c \in Calls : /\ inWorker[c] = "running" => inTry[c] <= InRetries
                     /\ inWorker[c] = "none" => inTry[c] = 0

\* A call that has not been made has left nothing; one that was waited for to
\* its end is over; the second one follows a first that could not be used.
CallInv ==
    /\ inPc = "start" => inCall = 1
    /\ inPc \in {"start", "get"} => inWorker[inCall] = "none"
    /\ inPc \in {"start", "get", "wait"} => inRecord[inCall] = "none"
    /\ inCall = 1 => inWorker[2] = "none" /\ inRecord[2] = "none"
    /\ inCall = 2 => inRecord[1] = "timeout" \/ inWorker[1] = "unavailable"
    /\ inPc = "ended" /\ inRecord[inCall] = "none" => inWorker[inCall] \in Ended \ {"ok"}
    /\ \A c \in Calls : inRecord[c] = "ok" => inWorker[c] \in Ended
    /\ inAnswer # "none" => inPc = "done"

InInv == InTypeOK /\ TriesInv /\ CallInv /\ AnswerOfItsCall

LEMMA InInvInit == InInit => InInv
BY InAssumption DEF InInit, InInv, InTypeOK, TriesInv, CallInv, AnswerOfItsCall, Calls, Ended

\* The requests a worker has sent, whatever the step.
LEMMA AzureTries ==
  ASSUME InTypeOK, TriesInv, NEW c \in Calls, AzureWorker(c)
  PROVE  /\ inTry[c] \in 0..InRetries /\ inTry' = [inTry EXCEPT ![c] = inTry[c] + 1]
         /\ inTry[c] + 1 \in 0..(InRetries + 1)
         /\ \/ \E r \in Ended : inWorker' = [inWorker EXCEPT ![c] = r]
            \/ inTry[c] + 1 <= InRetries /\ UNCHANGED inWorker
<1>1. inTry \in [Calls -> 0..(InRetries + 1)] /\ inWorker[c] = "running"
  BY DEF InTypeOK, AzureWorker
<1>2. inTry[c] <= InRetries
  BY <1>1 DEF TriesInv
<1>3. inTry[c] \in 0..InRetries /\ inTry[c] + 1 \in 0..(InRetries + 1)
  BY <1>1, <1>2, InAssumption
<1>4. inTry' = [inTry EXCEPT ![c] = inTry[c] + 1] /\ inTry'[c] = inTry[c] + 1
  BY <1>1 DEF AzureWorker
<1>5. \/ \E r \in Ended : inWorker' = [inWorker EXCEPT ![c] = r]
      \/ inTry[c] + 1 <= InRetries /\ UNCHANGED inWorker
  BY <1>4 DEF AzureWorker
<1>6. QED
  BY <1>3, <1>4, <1>5

\* Where a request goes from the end of a call.
LEMMA RespondSteps ==
  ASSUME InTypeOK, CallInv, Respond
  PROVE  /\ inPc = "ended" /\ UNCHANGED <<inModel, inWorker, inTry, inRecord>>
         /\ \/ Outcome(inCall) = "ok" /\ Finish(IF inCall = 1 THEN "result_1" ELSE "result_2")
            \/ Finish("500")
            \/ Finish("503")
            \/ /\ Outcome(inCall) = "unavailable" /\ inCall = 1
               /\ inCall' = 2 /\ inPc' = "get" /\ UNCHANGED inAnswer
<1>1. inPc = "ended" /\ UNCHANGED <<inModel, inWorker, inTry, inRecord>>
  BY DEF Respond
<1>2. CASE Outcome(inCall) = "ok"
  BY <1>1, <1>2 DEF Respond
<1>3. CASE Outcome(inCall) = "crash"
  BY <1>1, <1>3 DEF Respond
<1>4. CASE Outcome(inCall) = "unavailable"
  BY <1>1, <1>4 DEF Respond
<1>5. Outcome(inCall) \in Ended
  <2>1. inCall \in Calls /\ inRecord[inCall] \in {"none", "ok", "timeout"}
    BY DEF InTypeOK
  <2>2. QED
    BY <1>1, <2>1 DEF CallInv, Outcome, Ended
<1>6. QED
  BY <1>1, <1>2, <1>3, <1>4, <1>5 DEF Ended

LEMMA InTypeStep == InInv /\ [InNext]_inVars => InTypeOK'
<1> SUFFICES ASSUME InInv, [InNext]_inVars PROVE InTypeOK'
  OBVIOUS
<1>0. InTypeOK /\ TriesInv /\ CallInv
  BY DEF InInv
<1>1. CASE Infer \/ ModelMissing
  BY <1>0, <1>1 DEF Infer, ModelMissing, InTypeOK, Calls, Ended
<1>2. CASE StartWorker
  BY <1>0, <1>2 DEF StartWorker, InTypeOK
<1>3. CASE Join \/ Timeout
  BY <1>0, <1>3 DEF Join, Timeout, Record, InTypeOK
<1>4. CASE Respond
  BY <1>0, <1>4, RespondSteps DEF InTypeOK, Finish, Calls
<1>5. ASSUME NEW c \in Calls, LocalWorker(c) PROVE InTypeOK'
  BY <1>0, <1>5 DEF LocalWorker, InTypeOK
<1>6. ASSUME NEW c \in Calls, AzureWorker(c) PROVE InTypeOK'
  <2>1. UNCHANGED <<inPc, inModel, inCall, inRecord, inAnswer>>
    BY <1>6 DEF AzureWorker
  <2>2. inTry' \in [Calls -> 0..(InRetries + 1)]
    BY <1>0, <1>6, AzureTries DEF InTypeOK
  <2>3. inWorker' \in [Calls -> {"none", "running"} \cup Ended]
    BY <1>0, <1>6, AzureTries DEF InTypeOK
  <2>4. QED
    BY <1>0, <2>1, <2>2, <2>3 DEF InTypeOK
<1>7. CASE UNCHANGED inVars
  BY <1>0, <1>7 DEF inVars, InTypeOK
<1>8. QED
  BY <1>1, <1>2, <1>3, <1>4, <1>5, <1>6, <1>7 DEF InNext

LEMMA TriesStep == InInv /\ [InNext]_inVars => TriesInv'
<1> SUFFICES ASSUME InInv, [InNext]_inVars PROVE TriesInv'
  OBVIOUS
<1>0. InTypeOK /\ TriesInv /\ CallInv
  BY DEF InInv
<1>1. CASE UNCHANGED <<inWorker, inTry>>
  BY <1>0, <1>1 DEF TriesInv
<1>2. CASE ModelMissing
  BY <1>0, <1>2 DEF ModelMissing, TriesInv, InTypeOK
<1>3. CASE StartWorker
  <2>1. inCall \in Calls /\ inTry[inCall] = 0 /\ InRetries \in Nat
    BY <1>0, <1>3, InAssumption DEF StartWorker, TriesInv, CallInv, InTypeOK
  <2>2. /\ inWorker'[inCall] = "running" /\ UNCHANGED inTry
        /\ \A c \in Calls \ {inCall} : inWorker'[c] = inWorker[c]
    BY <1>0, <1>3 DEF StartWorker, InTypeOK
  <2>3. QED
    BY <1>0, <2>1, <2>2 DEF TriesInv
<1>4. ASSUME NEW c \in Calls, LocalWorker(c) PROVE TriesInv'
  BY <1>0, <1>4 DEF LocalWorker, TriesInv, InTypeOK, Ended
<1>5. ASSUME NEW c \in Calls, AzureWorker(c) PROVE TriesInv'
  <2>1. /\ inTry'[c] = inTry[c] + 1
        /\ inWorker'[c] \in Ended \/ (inTry[c] + 1 <= InRetries /\ inWorker'[c] = "running")
    BY <1>0, <1>5, AzureTries DEF InTypeOK, AzureWorker
  <2>2. \A d \in Calls \ {c} : inTry'[d] = inTry[d] /\ inWorker'[d] = inWorker[d]
    BY <1>0, <1>5, AzureTries DEF InTypeOK
  <2>3. QED
    BY <1>0, <2>1, <2>2 DEF TriesInv, Ended
<1>6. CASE Infer \/ Join \/ Timeout \/ Respond
  BY <1>1, <1>6 DEF Infer, Join, Timeout, Respond
<1>7. QED
  BY <1>1, <1>2, <1>3, <1>4, <1>5, <1>6 DEF InNext, inVars

LEMMA InInvStep == InInv /\ [InNext]_inVars => InInv'
<1> SUFFICES ASSUME InInv, [InNext]_inVars PROVE CallInv' /\ AnswerOfItsCall'
  BY InTypeStep, TriesStep DEF InInv
<1>0. InTypeOK /\ TriesInv /\ CallInv /\ AnswerOfItsCall
  BY DEF InInv
<1> USE <1>0 DEF CallInv, AnswerOfItsCall, Calls, Ended
<1>1. CASE Infer \/ ModelMissing
  BY <1>1 DEF Infer, ModelMissing, InTypeOK
<1>2. CASE StartWorker
  BY <1>2 DEF StartWorker, InTypeOK
<1>3. CASE Join
  BY <1>3 DEF Join, Record, InTypeOK
<1>4. CASE Timeout
  BY <1>4 DEF Timeout, Record, InTypeOK
<1>5. CASE Respond
  <2>1. CASE Outcome(inCall) = "ok" /\ Finish(IF inCall = 1 THEN "result_1" ELSE "result_2")
    <3>1. inRecord[inCall] = "ok" /\ inWorker[inCall] = "ok" /\ inPc = "ended"
      BY <1>5, <2>1 DEF Outcome, InTypeOK, Respond
    <3>2. QED
      BY <1>5, <2>1, <3>1, RespondSteps DEF Finish, InTypeOK
  <2>2. CASE Finish("500") \/ Finish("503")
    BY <1>5, <2>2, RespondSteps DEF Finish, InTypeOK
  <2>3. CASE /\ Outcome(inCall) = "unavailable" /\ inCall = 1
             /\ inCall' = 2 /\ inPc' = "get" /\ UNCHANGED inAnswer
    <3>1. inRecord[1] = "timeout" \/ inWorker[1] = "unavailable"
      BY <2>3 DEF Outcome
    <3>2. QED
      BY <1>5, <2>3, <3>1, RespondSteps DEF InTypeOK
  <2>4. QED
    BY <1>5, <2>1, <2>2, <2>3, RespondSteps
<1>6. ASSUME NEW c \in Calls, LocalWorker(c) PROVE CallInv' /\ AnswerOfItsCall'
  BY <1>6 DEF LocalWorker, InTypeOK
<1>7. ASSUME NEW c \in Calls, AzureWorker(c) PROVE CallInv' /\ AnswerOfItsCall'
  <2>1. /\ inWorker[c] = "running" /\ UNCHANGED <<inPc, inModel, inCall, inRecord, inAnswer>>
        /\ (\E r \in Ended : inWorker' = [inWorker EXCEPT ![c] = r]) \/ UNCHANGED inWorker
    BY <1>7 DEF AzureWorker
  <2>2. QED
    BY <2>1 DEF InTypeOK
<1>8. CASE UNCHANGED inVars
  BY <1>8 DEF inVars
<1>9. QED
  BY <1>1, <1>2, <1>3, <1>4, <1>5, <1>6, <1>7, <1>8 DEF InNext

-----------------------------------------------------------------------------
(* CloudRunner.                                                            *)

\* Whoever waits for a permit does so while there is none: the loop that
\* would free one is the loop that waits.
WaitInv == ~LoopFree => rnPermits = 0

\* A run that goes on has an attempt left.
RunsInv == \A r \in RnRequests : rnPc[r] \notin {"ended", "answered"} => rnTry[r] < RnAttempts

\* Requests are as many as one likes; those that hold a permit are finite.
RnInv == RnTypeOK /\ WaitInv /\ RunsInv /\ IsFiniteSet(Holding) /\ CapacityKept

LEMMA RnInvInit == RnInit => RnInv
<1> SUFFICES ASSUME RnInit PROVE RnInv
  OBVIOUS
<1>1. Holding = {}
  BY DEF RnInit, Holding
<1>2. IsFiniteSet(Holding) /\ Cardinality(Holding) = 0
  BY <1>1, FS_EmptySet
<1>3. RnTypeOK
  <2>1. rnOk \in [RnRequests -> BOOLEAN]
    BY Zenon DEF RnInit
  <2>2. rnPermits \in 0..RnParallel /\ rnTry \in [RnRequests -> 0..RnAttempts]
    BY RnAssumption DEF RnInit
  <2>3. rnCode \in [RnRequests \cup RnProbes -> {0, 200, 401, 422, 429, 500, 503}]
    BY DEF RnInit
  <2>4. rnPc \in [RnRequests -> {"new", "waiting", "body", "running", "ended", "answered"}]
    BY DEF RnInit
  <2>5. rnDraining \in BOOLEAN
    BY DEF RnInit
  <2>6. QED
    BY <2>1, <2>2, <2>3, <2>4, <2>5, Zenon DEF RnTypeOK
<1>5. WaitInv /\ RunsInv
  BY RnAssumption DEF RnInit, WaitInv, RunsInv, LoopFree
<1>4. CapacityKept
  <2>1. rnPermits = RnParallel /\ RnParallel \in Nat
    BY RnAssumption DEF RnInit
  <2>2. QED
    BY <1>2, <2>1 DEF CapacityKept
<1>6. QED
  BY <1>2, <1>3, <1>4, <1>5 DEF RnInv

LEMMA RnInvStep == RnInv /\ [RnNext]_rnVars => RnInv' /\ (rnDraining => {r \in RnRequests : rnPc'[r] = "body"} \subseteq Holding)
<1> SUFFICES ASSUME RnInv, [RnNext]_rnVars
             PROVE  RnInv' /\ (rnDraining => {r \in RnRequests : rnPc'[r] = "body"} \subseteq Holding)
  OBVIOUS
<1> DEFINE Shrinks == rnDraining => {r \in RnRequests : rnPc'[r] = "body"} \subseteq Holding
<1>0. /\ RnParallel \in Nat \ {0} /\ RnAttempts \in Nat \ {0}
      /\ RnTypeOK /\ WaitInv /\ RunsInv /\ IsFiniteSet(Holding) /\ CapacityKept
      /\ Cardinality(Holding) \in Nat
  BY RnAssumption, FS_CardinalityType DEF RnInv
<1>1. ASSUME NEW r \in RnRequests, r \notin Holding,
             Holding' = Holding \cup {r}, rnPermits > 0, rnPermits' = rnPermits - 1
      PROVE  IsFiniteSet(Holding') /\ CapacityKept'
  <2>1. IsFiniteSet(Holding') /\ Cardinality(Holding') = Cardinality(Holding) + 1
    BY <1>0, <1>1, FS_AddElement
  <2>2. QED
    BY <1>0, <1>1, <2>1 DEF CapacityKept, RnTypeOK
<1>2. ASSUME NEW r \in RnRequests, r \in Holding,
             Holding' = Holding \ {r}, rnPermits' = rnPermits + 1
      PROVE  /\ IsFiniteSet(Holding') /\ CapacityKept'
             /\ rnPermits + 1 \in 0..RnParallel
  <2>1. IsFiniteSet(Holding') /\ Cardinality(Holding') = Cardinality(Holding) - 1
    BY <1>0, <1>2, FS_RemoveElement
  <2>2. Cardinality(Holding') \in Nat
    BY <2>1, FS_CardinalityType
  <2>3. QED
    BY <1>0, <1>2, <2>1, <2>2 DEF CapacityKept, RnTypeOK
<1>3. ASSUME Holding' = Holding, rnPermits' = rnPermits
      PROVE  IsFiniteSet(Holding') /\ CapacityKept'
  BY <1>0, <1>3 DEF CapacityKept
<1>4. ASSUME NEW r \in RnRequests, Arrive(r) PROVE RnInv' /\ Shrinks
  <2>1. RnTypeOK' /\ WaitInv' /\ RunsInv' /\ Shrinks
    BY <1>0, <1>4 DEF Arrive, Reply, Accepting, RnTypeOK, WaitInv, RunsInv, LoopFree, Holding
  <2>2. \/ Holding' = Holding /\ rnPermits' = rnPermits
        \/ r \notin Holding /\ Holding' = Holding \cup {r} /\ rnPermits > 0 /\ rnPermits' = rnPermits - 1
    BY <1>0, <1>4 DEF Arrive, Reply, Accepting, RnTypeOK, Holding
  <2>3. QED
    BY <1>1, <1>3, <2>1, <2>2 DEF RnInv
<1>5. ASSUME NEW r \in RnRequests, AcquireEnds(r) PROVE RnInv' /\ Shrinks
  <2>1. rnPermits = 0
    BY <1>0, <1>5 DEF AcquireEnds, WaitInv, RunsInv, LoopFree
  <2>2. RnTypeOK' /\ WaitInv' /\ RunsInv' /\ Shrinks /\ Holding' = Holding /\ rnPermits' = rnPermits
    BY <1>0, <1>5, <2>1 DEF AcquireEnds, Reply, RnTypeOK, WaitInv, RunsInv, LoopFree, Holding
  <2>3. QED
    BY <1>3, <2>2 DEF RnInv
<1>6. ASSUME NEW r \in RnRequests, ReadBody(r) PROVE RnInv' /\ Shrinks
  <2>1. \/ Holding' = Holding /\ rnPermits' = rnPermits
        \/ r \in Holding /\ Holding' = Holding \ {r} /\ rnPermits' = rnPermits + 1
    BY <1>0, <1>6 DEF ReadBody, Reply, RnTypeOK, Holding
  <2>2. IsFiniteSet(Holding') /\ CapacityKept' /\ rnPermits' \in 0..RnParallel
    BY <1>0, <1>2, <1>3, <2>1 DEF RnTypeOK
  <2>3. WaitInv' /\ RunsInv' /\ Shrinks /\ RnTypeOK'
    BY <1>0, <1>6, <2>2 DEF ReadBody, Reply, RnTypeOK, Holding, WaitInv, RunsInv, LoopFree
  <2>4. QED
    BY <2>2, <2>3 DEF RnInv
<1>7. ASSUME NEW r \in RnRequests, Attempt(r) PROVE RnInv' /\ Shrinks
  <2>1. Holding' = Holding /\ rnPermits' = rnPermits /\ WaitInv' /\ RunsInv' /\ Shrinks
    BY <1>0, <1>7 DEF Attempt, RnTypeOK, Holding, WaitInv, RunsInv, LoopFree
  <2>2. RnTypeOK'
    <3>1. rnTry[r] \in Nat /\ rnTry[r] + 1 \in 0..RnAttempts
      BY <1>0, <1>7 DEF Attempt, RnTypeOK, RunsInv
    <3>2. rnTry' \in [RnRequests -> 0..RnAttempts]
      BY <1>0, <1>7, <3>1 DEF Attempt, RnTypeOK
    <3>3. rnOk \in [RnRequests -> BOOLEAN] /\ TRUE \in BOOLEAN
      BY <1>0 DEF RnTypeOK
    <3>4. rnOk' \in [RnRequests -> BOOLEAN]
      <4>1. CASE rnOk' = [rnOk EXCEPT ![r] = TRUE]
        BY <3>3, <4>1, Zenon
      <4>2. CASE rnOk' = rnOk
        BY <3>3, <4>2
      <4>3. QED
        BY <1>7, <4>1, <4>2 DEF Attempt
    <3>5. rnPc' = [rnPc EXCEPT ![r] = "ended"] \/ rnPc' = rnPc
      BY <1>7 DEF Attempt
    <3>6. QED
      BY <1>0, <1>7, <3>2, <3>4, <3>5 DEF Attempt, RnTypeOK
  <2>3. QED
    BY <1>3, <2>1, <2>2 DEF RnInv
<1>8. ASSUME NEW r \in RnRequests, Resume(r) PROVE RnInv' /\ Shrinks
  <2>1. r \in Holding /\ Holding' = Holding \ {r} /\ rnPermits' = rnPermits + 1
    BY <1>0, <1>8 DEF Resume, Reply, RnTypeOK, Holding
  <2>2. IsFiniteSet(Holding') /\ CapacityKept' /\ rnPermits' \in 0..RnParallel
    BY <1>0, <1>2, <2>1 DEF RnTypeOK
  <2>3. WaitInv' /\ RunsInv' /\ Shrinks /\ RnTypeOK'
    BY <1>0, <1>8, <2>2 DEF Resume, Reply, RnTypeOK, Holding, WaitInv, RunsInv, LoopFree
  <2>4. QED
    BY <2>2, <2>3 DEF RnInv
<1>9. ASSUME NEW p \in RnProbes, Healthz(p) PROVE RnInv' /\ Shrinks
  <2>1. Holding' = Holding /\ rnPermits' = rnPermits /\ WaitInv' /\ RunsInv' /\ Shrinks
    BY <1>0, <1>9 DEF Healthz, Holding, WaitInv, RunsInv, LoopFree
  <2>2. RnTypeOK'
    BY <1>0, <1>9 DEF Healthz, RnTypeOK
  <2>3. QED
    BY <1>3, <2>1, <2>2 DEF RnInv
<1>10. CASE Sigterm
  <2>1. Holding' = Holding /\ rnPermits' = rnPermits /\ WaitInv' /\ RunsInv' /\ Shrinks
    BY <1>0, <1>10 DEF Sigterm, Holding, WaitInv, RunsInv, LoopFree
  <2>2. RnTypeOK'
    BY <1>0, <1>10 DEF Sigterm, RnTypeOK
  <2>3. QED
    BY <1>3, <2>1, <2>2 DEF RnInv
<1>11. CASE UNCHANGED rnVars
  <2>1. Holding' = Holding /\ rnPermits' = rnPermits /\ RnTypeOK' /\ WaitInv' /\ RunsInv' /\ Shrinks
    BY <1>0, <1>11 DEF rnVars, RnTypeOK, Holding, WaitInv, RunsInv, LoopFree
  <2>2. QED
    BY <1>3, <2>1 DEF RnInv
<1>12. QED
  BY <1>4, <1>5, <1>6, <1>7, <1>8, <1>9, <1>10, <1>11 DEF RnNext


\* Permits and running requests add up, and a drain lets nobody in.
THEOREM DrainHolds == RnSpec => RunnerDrains
<1>1. RnInv => CapacityKept
  BY DEF RnInv
<1>2. RnInv /\ [RnNext]_rnVars
        => [rnDraining => {r \in RnRequests : rnPc'[r] = "body"} \subseteq Holding]_rnVars
  BY RnInvStep
<1>3. RnInit /\ [][RnNext]_rnVars => RunnerDrains
  BY RnInvInit, RnInvStep, <1>1, <1>2, PTL DEF RunnerDrains, DrainShrinks
<1>4. QED
  BY <1>3, PTL DEF RnSpec

-----------------------------------------------------------------------------
(* MessageBus.                                                             *)

LEMMA RemoveFirstIsSeq ==
  ASSUME NEW S, NEW s \in Seq(S), NEW e
  PROVE  RemoveFirst(s, e) \in Seq(S)
<1>1. CASE ~\E i \in 1..Len(s) : s[i] = e
  BY <1>1 DEF RemoveFirst
<1>2. CASE \E i \in 1..Len(s) : s[i] = e
  <2> DEFINE I == {i \in 1..Len(s) : s[i] = e}
  <2>1. Len(s) \in Nat /\ I \subseteq Nat /\ I # {}
    BY <1>2, LenProperties
  <2>2. \E x \in I : \A y \in I : x <= y
    BY <2>1, LeastOfNaturals
  <2>3. PICK k \in I : k = (CHOOSE x \in I : \A y \in I : x <= y)
    BY <2>2
  <2>4. RemoveFirst(s, e) = RemoveAt(s, k)
    BY <1>2, <2>1, <2>3 DEF RemoveFirst, SelectInSeq, Min
  <2>5. k \in 1..Len(s)
    OBVIOUS
  <2>6. SubSeq(s, 1, k - 1) \in Seq(S) /\ SubSeq(s, k + 1, Len(s)) \in Seq(S)
    <3>1. \A i \in 1..(k - 1) : s[i] \in S
      BY <2>1, <2>5, ElementOfSeq
    <3>2. \A i \in (k + 1)..Len(s) : s[i] \in S
      BY <2>1, <2>5, ElementOfSeq
    <3>3. QED
      BY <2>1, <2>5, <3>1, <3>2, SubSeqProperties
  <2>7. QED
    BY <2>4, <2>6, ConcatProperties DEF RemoveAt
<1>3. QED
  BY <1>1, <1>2

\* The members of a list.
In(s) == {s[i] : i \in 1..Len(s)}

LEMMA InConcat ==
  ASSUME NEW S, NEW s \in Seq(S), NEW t \in Seq(S)
  PROVE  s \o t \in Seq(S) /\ In(s) \cup In(t) \subseteq In(s \o t)
<1>1. /\ Len(s) \in Nat /\ Len(t) \in Nat
      /\ s \o t \in Seq(S) /\ Len(s \o t) = Len(s) + Len(t)
      /\ \A i \in 1..Len(s) + Len(t) :
             (s \o t)[i] = IF i <= Len(s) THEN s[i] ELSE t[i - Len(s)]
  BY ConcatProperties, LenProperties
<1>2. ASSUME NEW i \in 1..Len(s) PROVE s[i] \in In(s \o t)
  <2>1. i \in 1..Len(s) + Len(t) /\ (s \o t)[i] = s[i]
    BY <1>1
  <2>2. QED
    BY <1>1, <2>1 DEF In
<1>3. ASSUME NEW i \in 1..Len(t) PROVE t[i] \in In(s \o t)
  <2>1. Len(s) + i \in 1..Len(s) + Len(t) /\ (s \o t)[Len(s) + i] = t[i]
    BY <1>1
  <2>2. QED
    BY <1>1, <2>1 DEF In
<1>4. QED
  BY <1>1, <1>2, <1>3 DEF In

LEMMA InTail ==
  ASSUME NEW S, NEW s \in Seq(S), s # <<>>
  PROVE  Head(s) \in S /\ Tail(s) \in Seq(S) /\ In(s) \subseteq {Head(s)} \cup In(Tail(s))
<1>1. /\ Head(s) \in S /\ Tail(s) \in Seq(S) /\ Len(Tail(s)) = Len(s) - 1
      /\ \A i \in 1..Len(Tail(s)) : Tail(s)[i] = s[i + 1]
      /\ Head(s) = s[1] /\ Len(s) \in Nat
  BY HeadTailProperties, LenProperties
<1>2. ASSUME NEW i \in 1..Len(s), i # 1 PROVE s[i] \in In(Tail(s))
  <2>1. i - 1 \in 1..Len(Tail(s)) /\ Tail(s)[i - 1] = s[i]
    BY <1>1, <1>2
  <2>2. QED
    BY <2>1 DEF In
<1>3. QED
  BY <1>1, <1>2 DEF In

SubsInv ==
    /\ busSubs \in [BusTopics \cup {Wildcard} -> Seq(BusCallbacks)]
    /\ busSent \in [BusPublishers -> 0..BusRounds]
    /\ busHistory \in [BusTopics -> Seq(Publications)]
    /\ \A t \in BusTopics : Len(busHistory[t]) <= BusHistory

\* A publication under way owes each of its steady callbacks nothing, or has
\* it still on its list.
Owed(call) ==
    /\ call.todo \in Seq(BusCallbacks)
    /\ call.steady \subseteq call.told \cup In(call.todo)

CallRecords ==
    [topic : BusTopics \cup {"none"}, n : 0..BusRounds, todo : Seq(BusCallbacks),
     steady : SUBSET BusCallbacks, told : SUBSET BusCallbacks]

BusInv ==
    /\ SubsInv
    /\ busCall \in [BusPublishers -> CallRecords]
    /\ \A p \in BusPublishers : Owed(busCall[p])

LEMMA BusInvInit == BusInit => BusInv
<1> SUFFICES ASSUME BusInit PROVE BusInv
  OBVIOUS
<1>1. SubsInv
  BY BusAssumption, EmptySeq DEF BusInit, SubsInv
<1>2. BusIdle \in CallRecords /\ Owed(BusIdle)
  BY BusAssumption, EmptySeq DEF BusIdle, CallRecords, Owed
<1>3. QED
  BY <1>1, <1>2 DEF BusInit, BusInv

\* What is remembered of a topic: with one message more, no more than it may.
LEMMA RememberedFits ==
  ASSUME NEW S, NEW h \in Seq(S), Len(h) <= BusHistory, NEW m \in S
  PROVE  /\ Remembered(Append(h, m)) \in Seq(S)
         /\ Len(Remembered(Append(h, m))) <= BusHistory
<1> DEFINE g == Append(h, m)
<1>1. g \in Seq(S) /\ g # <<>> /\ Len(g) = Len(h) + 1 /\ Len(h) \in Nat
  BY AppendProperties, LenProperties
<1>2. Tail(g) \in Seq(S) /\ Len(Tail(g)) = Len(g) - 1
  BY <1>1, HeadTailProperties
<1>3. QED
  BY <1>1, <1>2, BusAssumption DEF Remembered

LEMMA BusInvStep == BusInv /\ [BusNext]_busVars => BusInv'
<1> SUFFICES ASSUME BusInv, [BusNext]_busVars PROVE BusInv'
  OBVIOUS
<1>0. /\ SubsInv /\ busCall \in [BusPublishers -> CallRecords]
      /\ \A p \in BusPublishers : Owed(busCall[p])
  BY DEF BusInv
<1>1. ASSUME NEW c \in BusCallbacks, NEW t \in BusTopics \cup {Wildcard}, Subscribe(c, t)
      PROVE  BusInv'
  <2>1. Append(busSubs[t], c) \in Seq(BusCallbacks)
    BY <1>0, AppendProperties DEF SubsInv
  <2>2. SubsInv'
    BY <1>0, <1>1, <2>1 DEF Subscribe, SubsInv
  <2>3. QED
    BY <1>0, <1>1, <2>2 DEF Subscribe, BusInv
<1>2. ASSUME NEW c \in BusCallbacks, NEW t \in BusTopics \cup {Wildcard}, Unsubscribe(c, t)
      PROVE  BusInv'
  <2>1. RemoveFirst(busSubs[t], c) \in Seq(BusCallbacks)
    BY <1>0, RemoveFirstIsSeq DEF SubsInv
  <2>2. SubsInv'
    BY <1>0, <1>2, <2>1 DEF Unsubscribe, SubsInv
  <2>3. ASSUME NEW p \in BusPublishers
        PROVE  busCall'[p] \in CallRecords /\ Owed(busCall'[p])
    <3>1. busCall[p] \in CallRecords /\ Owed(busCall[p])
      BY <1>0
    <3>2. busCall'[p] = busCall[p] \/ busCall'[p] = [busCall[p] EXCEPT !.steady = @ \ {c}]
      BY <1>2 DEF Unsubscribe
    <3>3. QED
      BY <3>1, <3>2 DEF CallRecords, Owed
  <2>4. busCall' \in [BusPublishers -> CallRecords]
    BY <1>2, <2>3 DEF Unsubscribe
  <2>5. QED
    BY <2>2, <2>3, <2>4 DEF BusInv
<1>3. ASSUME NEW p \in BusPublishers, NEW t \in BusTopics, Publish(p, t)
      PROVE  BusInv'
  <2> DEFINE m == <<p, busSent[p] + 1>>
             call == [topic |-> t, n |-> m[2], todo |-> Subscribers(t),
                      steady |-> {c \in BusCallbacks : Registered(busSubs, c, t)},
                      told |-> {}]
  <2>1. /\ busSent[p] + 1 \in 1..BusRounds /\ m \in Publications
        /\ busSent' = [busSent EXCEPT ![p] = @ + 1]
        /\ busHistory' = [busHistory EXCEPT ![t] = Remembered(Append(@, m))]
        /\ busCall' = [busCall EXCEPT ![p] = call] /\ busSubs' = busSubs
    BY <1>0, <1>3, BusAssumption DEF Publish, SubsInv, Publications
  <2>2. busSubs[t] \in Seq(BusCallbacks) /\ busSubs[Wildcard] \in Seq(BusCallbacks)
    BY <1>0 DEF SubsInv
  <2>3. /\ Subscribers(t) \in Seq(BusCallbacks)
        /\ In(busSubs[t]) \cup In(busSubs[Wildcard]) \subseteq In(Subscribers(t))
    BY <2>2, InConcat DEF Subscribers
  <2>4. \A c \in BusCallbacks : Registered(busSubs, c, t) => c \in In(Subscribers(t))
    BY <2>3 DEF Registered, Contains, In
  <2>5. call \in CallRecords /\ Owed(call)
    BY <2>1, <2>3, <2>4, BusAssumption DEF CallRecords, Owed
  <2> HIDE DEF call
  <2>6. /\ Remembered(Append(busHistory[t], m)) \in Seq(Publications)
        /\ Len(Remembered(Append(busHistory[t], m))) <= BusHistory
    BY <1>0, <2>1, RememberedFits DEF SubsInv
  <2>7. SubsInv'
    <3> DEFINE h == Remembered(Append(busHistory[t], m))
    <3> HIDE DEF h, m
    <3>1. busHistory' = [busHistory EXCEPT ![t] = h]
      BY <2>1 DEF h
    <3>2. h \in Seq(Publications) /\ Len(h) <= BusHistory
      BY <2>6 DEF h
    <3>3. /\ busHistory' \in [BusTopics -> Seq(Publications)]
          /\ \A u \in BusTopics : Len(busHistory'[u]) <= BusHistory
      BY <1>0, <3>1, <3>2 DEF SubsInv
    <3>4. busSent' \in [BusPublishers -> 0..BusRounds]
      BY <1>0, <2>1, BusAssumption DEF SubsInv
    <3>5. QED
      BY <1>0, <2>1, <3>3, <3>4 DEF SubsInv
  <2>8. QED
    BY <1>0, <2>1, <2>5, <2>7 DEF BusInv
<1>4. ASSUME NEW p \in BusPublishers, Deliver(p)
      PROVE  BusInv'
  <2> DEFINE h == Head(busCall[p].todo)
             call == [busCall[p] EXCEPT !.todo = Tail(@), !.told = @ \cup {h}]
  <2>1. busCall[p] \in CallRecords /\ Owed(busCall[p]) /\ busCall[p].todo \in Seq(BusCallbacks)
    BY <1>0 DEF CallRecords
  <2>2. /\ h \in BusCallbacks /\ Tail(busCall[p].todo) \in Seq(BusCallbacks)
        /\ In(busCall[p].todo) \subseteq {h} \cup In(Tail(busCall[p].todo))
    BY <1>4, <2>1, InTail DEF Deliver
  <2>3. busCall' = [busCall EXCEPT ![p] = call] /\ SubsInv'
    BY <1>0, <1>4 DEF Deliver, SubsInv
  <2>4. call \in CallRecords /\ Owed(call)
    BY <2>1, <2>2 DEF CallRecords, Owed
  <2> HIDE DEF call
  <2>5. QED
    BY <1>0, <2>3, <2>4 DEF BusInv
<1>5. ASSUME NEW p \in BusPublishers, Return(p)
      PROVE  BusInv'
  <2>1. BusIdle \in CallRecords /\ Owed(BusIdle)
    BY BusAssumption, EmptySeq DEF BusIdle, CallRecords, Owed
  <2>2. SubsInv'
    BY <1>0, <1>5 DEF Return, SubsInv
  <2>3. QED
    BY <1>0, <1>5, <2>1, <2>2 DEF Return, BusInv
<1>6. CASE UNCHANGED busVars
  BY <1>0, <1>6 DEF busVars, BusInv, SubsInv
<1>7. QED
  BY <1>1, <1>2, <1>3, <1>4, <1>5, <1>6 DEF BusNext

\* Whoever was registered from the beginning to the end of a publication has
\* been called, whatever the others do to the lists in between.
THEOREM SteadyIsTold == BusSpec => []SteadySubscriberTold
<1>1. BusInv => SteadySubscriberTold
  BY EmptySeq DEF BusInv, Owed, In, SteadySubscriberTold
<1>2. QED
  BY BusInvInit, BusInvStep, <1>1, PTL DEF BusSpec

-----------------------------------------------------------------------------
(* FoundryCalls.                                                           *)

Again == {"odd", "failed"}
Served == EndpointAnswers \cup {"synthetic"}
Places == {"new", "call", "shape", "record", "write", "stop", "done"}
Live == fcStored \in BOOLEAN /\ fcExpired \in BOOLEAN
Fits(served) == served # <<>> /\ Last(served) \in {"good", "synthetic"}

\* A call that is asked again has only had answers that settle nothing; one
\* that is to be recorded is a managed one with an answer to record.
CallOk(pc, mode, served, answer) ==
    /\ served \in Seq(Served) /\ Len(served) <= FcRetries + 1
    /\ \A i \in 1..(Len(served) - 1) : served[i] \in Again
    /\ pc # "done" => answer = "none"
    /\ pc = "new" => mode = "none" /\ served = <<>>
    /\ pc = "call" => Len(served) <= FcRetries /\ \A i \in 1..Len(served) : served[i] \in Again
    /\ pc = "shape" => served # <<>> /\ Last(served) \in {"good", "unlike", "uncosted", "synthetic"}
    /\ pc = "record" => /\ mode = "managed" /\ served # <<>>
                        /\ Last(served) \in {"good", "uncosted", "synthetic"}
    /\ pc \in {"write", "stop"} => mode = "managed" /\ Fits(served)
    /\ mode = "managed" /\ answer = "response" => Fits(served)

\* Those whose usage was written, and those of them that do not see it.
Unseen == {c \in FcCalls : fcMode[c] = "managed" /\ fcAnswer[c] = "error" /\ Fits(fcServed[c])}
Paid == {c \in FcCalls : fcMode[c] = "managed" /\ fcAnswer[c] = "response"} \cup Unseen
            \cup {c \in FcCalls : fcPc[c] = "stop"}
Writing == {c \in FcCalls : fcPc[c] = "write"}

FcValues ==
    /\ Live /\ fcOverlap \in BOOLEAN
    /\ fcUsage \in Nat /\ fcSeen \in [FcCalls -> Nat]
    /\ fcPc \in [FcCalls -> Places]
    /\ fcMode \in [FcCalls -> {"managed", "direct", "none"}]
    /\ fcServed \in [FcCalls -> Seq(Served)]
    /\ fcAnswer \in [FcCalls -> {"none", "response", "unavailable", "stopped", "not_found", "error"}]

CallsOk == \A c \in FcCalls : CallOk(fcPc[c], fcMode[c], fcServed[c], fcAnswer[c])

\* There may be any number of calls, but only finitely many are over.  What a
\* call read is no more than what has been paid, and unless accountings have
\* overlapped it is the usage, and the call that read it is alone.
UsageInv ==
    /\ IsFiniteSet(Paid) /\ fcUsage <= Cardinality(Paid)
    /\ ~fcOverlap => fcUsage = Cardinality(Paid)
    /\ Unseen # {} => fcUsage >= FcHard \/ fcOverlap
    /\ \A c \in Writing : fcSeen[c] <= Cardinality(Paid)
    /\ ~fcOverlap => \A c \in Writing : fcSeen[c] = fcUsage /\ Writing = {c}

FcInv == FcValues /\ CallsOk /\ UsageInv

LEMMA FcInvInit == FcInit => FcInv
<1> SUFFICES ASSUME FcInit PROVE FcInv
  OBVIOUS
<1>1. FcValues
  BY EmptySeq DEF FcInit, FcValues, Places, Live
<1>2. CallsOk
  BY EmptySeq, FcAssumption DEF FcInit, CallsOk, CallOk
<1>3. Paid = {} /\ Unseen = {} /\ Writing = {}
  BY DEF FcInit, Paid, Unseen, Writing
<1>4. UsageInv
  BY <1>3, FS_EmptySet DEF FcInit, UsageInv
<1>5. QED
  BY <1>1, <1>2, <1>4 DEF FcInv

\* A step of one call that records no usage and ends no answered call.
LEMMA NothingRecorded ==
  ASSUME UsageInv, UNCHANGED <<fcUsage, fcSeen, fcOverlap>>,
         Paid' = Paid, Unseen' = Unseen, Writing' = Writing
  PROVE  UsageInv'
BY DEF UsageInv

\* The other calls are where they were.
OthersStay(c) ==
    \A d \in FcCalls \ {c} :
        /\ fcPc'[d] = fcPc[d] /\ fcMode'[d] = fcMode[d]
        /\ fcServed'[d] = fcServed[d] /\ fcAnswer'[d] = fcAnswer[d]

LEMMA OneCall ==
  ASSUME CallsOk, NEW c \in FcCalls, OthersStay(c),
         CallOk(fcPc'[c], fcMode'[c], fcServed'[c], fcAnswer'[c])
  PROVE  CallsOk'
<1>1. ASSUME NEW d \in FcCalls
      PROVE  CallOk(fcPc'[d], fcMode'[d], fcServed'[d], fcAnswer'[d])
  BY <1>1 DEF CallsOk, OthersStay
<1>2. QED
  BY <1>1 DEF CallsOk

LEMMA NotPaid ==
  ASSUME FcInv, NEW c \in FcCalls, OthersStay(c), UNCHANGED <<fcUsage, fcSeen, fcOverlap>>,
         fcPc[c] \notin {"write", "stop", "done"}, fcPc'[c] \notin {"write", "stop"},
         /\ ~(fcMode'[c] = "managed" /\ fcAnswer'[c] = "response")
         /\ ~(fcMode'[c] = "managed" /\ fcAnswer'[c] = "error" /\ Fits(fcServed'[c]))
  PROVE  UsageInv'
<1>1. fcAnswer[c] = "none"
  BY DEF FcInv, CallsOk, CallOk
<1>2. Unseen' = Unseen /\ Paid' = Paid /\ Writing' = Writing
  BY <1>1 DEF OthersStay, Unseen, Paid, Writing
<1>3. QED
  BY <1>2, NothingRecorded DEF FcInv

\* What became of call c: it goes on at pc, or is over with the answer.
Now(c, pc, answer) ==
    /\ fcPc' = [fcPc EXCEPT ![c] = pc]
    /\ fcAnswer' = [fcAnswer EXCEPT ![c] = answer]

LEMMA GotoIsNow ==
  ASSUME FcInv, NEW c \in FcCalls, fcPc[c] # "done", NEW p, FcGoto(c, p)
  PROVE  Now(c, p, "none")
<1>1. fcAnswer[c] = "none" /\ fcAnswer \in [FcCalls -> {"none", "response", "unavailable", "stopped", "not_found", "error"}]
  BY DEF FcInv, CallsOk, CallOk, FcValues
<1>2. fcAnswer = [fcAnswer EXCEPT ![c] = "none"]
  BY <1>1
<1>3. QED
  BY <1>2 DEF FcGoto, Now

\* What a step of call c leaves: it is at p with answer a, and was served s.
Serves(c, p, a, s) ==
    /\ fcMode' = fcMode /\ fcServed' = [fcServed EXCEPT ![c] = s] /\ s \in Seq(Served)
    /\ p \in Places
    /\ a \in {"none", "response", "unavailable", "stopped", "not_found", "error"}
    /\ Now(c, p, a)
    /\ Live' /\ fcOverlap' \in BOOLEAN /\ fcUsage' \in Nat /\ fcSeen' \in [FcCalls -> Nat]

LEMMA NowFacts ==
  ASSUME FcInv, NEW c \in FcCalls, NEW p, NEW a, NEW s, Serves(c, p, a, s)
  PROVE  /\ FcValues' /\ OthersStay(c)
         /\ fcPc'[c] = p /\ fcAnswer'[c] = a /\ fcServed'[c] = s /\ fcMode'[c] = fcMode[c]
<1>1. FcValues
  BY DEF FcInv
<1>2. FcValues'
  <2>1. fcPc' \in [FcCalls -> Places]
    BY <1>1 DEF FcValues, Serves, Now
  <2>2. fcAnswer' \in [FcCalls -> {"none", "response", "unavailable", "stopped", "not_found", "error"}]
    BY <1>1 DEF FcValues, Serves, Now
  <2>3. fcServed' \in [FcCalls -> Seq(Served)]
    BY <1>1 DEF FcValues, Serves
  <2>4. QED
    BY <1>1, <2>1, <2>2, <2>3 DEF FcValues, Serves
<1>3. fcPc'[c] = p /\ fcAnswer'[c] = a /\ fcServed'[c] = s /\ fcMode'[c] = fcMode[c]
  BY <1>1 DEF FcValues, Serves, Now
<1>4. OthersStay(c)
  BY <1>1 DEF FcValues, Serves, Now, OthersStay
<1>5. QED
  BY <1>2, <1>3, <1>4

LEMMA NothingServed ==
  ASSUME NEW pc, pc \notin {"new", "shape", "record", "write", "stop"}, NEW mode,
         NEW answer, answer # "response", pc # "done" => answer = "none"
  PROVE  CallOk(pc, mode, <<>>, answer)
BY EmptySeq, FcAssumption DEF CallOk

\* The target is found, or the call is over without having asked anything.
LEMMA ResolveStep ==
  ASSUME FcInv, NEW c \in FcCalls, ResolveTarget(c)
  PROVE  FcInv'
<1>1. /\ FcValues /\ CallsOk /\ fcPc[c] = "new" /\ fcServed' = fcServed
      /\ UNCHANGED <<fcUsage, fcSeen, fcOverlap>>
  BY DEF FcInv, ResolveTarget
<1>2. fcServed[c] = <<>> /\ fcAnswer[c] = "none"
  BY <1>1 DEF CallsOk, CallOk
<1>3. PICK m \in {"managed", "direct", "none"} : fcMode' = [fcMode EXCEPT ![c] = m]
  BY DEF ResolveTarget
<1>4. /\ Live'
      /\ \/ FcGoto(c, "call")
         \/ \E a \in {"unavailable", "stopped", "not_found", "error"} : FcEnd(c, a)
  <2>1. CASE CheckManaged(c)
    BY <1>1, <2>1 DEF CheckManaged, TearDown, fcSession, FcValues, Live
  <2>2. CASE ~CheckManaged(c)
    BY <1>1, <2>2 DEF ResolveTarget, fcSession, FcValues, Live
  <2>3. QED
    BY <2>1, <2>2
<1>5. PICK p \in {"call", "done"}, a \in {"none", "unavailable", "stopped", "not_found", "error"} :
          Now(c, p, a) /\ (p = "call" => a = "none")
  <2>1. CASE FcGoto(c, "call")
    BY <1>1, <2>1, GotoIsNow
  <2>2. CASE \E a \in {"unavailable", "stopped", "not_found", "error"} : FcEnd(c, a)
    BY <2>2 DEF FcEnd, Now
  <2>3. QED
    BY <1>4, <2>1, <2>2
<1>6. FcValues' /\ OthersStay(c) /\ fcServed'[c] = <<>>
  <2>1. fcPc' \in [FcCalls -> Places]
    BY <1>1, <1>5 DEF FcValues, Now, Places
  <2>2. fcAnswer' \in [FcCalls -> {"none", "response", "unavailable", "stopped", "not_found", "error"}]
    BY <1>1, <1>5 DEF FcValues, Now
  <2>3. FcValues'
    BY <1>1, <1>3, <1>4, <2>1, <2>2 DEF FcValues
  <2>4. OthersStay(c)
    BY <1>1, <1>3, <1>5 DEF FcValues, Now, OthersStay
  <2>5. QED
    BY <1>1, <1>2, <2>3, <2>4
<1>7. fcPc'[c] = p /\ fcAnswer'[c] = a
  BY <1>1, <1>5 DEF FcValues, Now
<1>8. CallOk(fcPc'[c], fcMode'[c], fcServed'[c], fcAnswer'[c])
  <2>1. a # "response" /\ p \notin {"new", "shape", "record", "write", "stop"} /\ (p # "done" => a = "none")
    BY <1>5
  <2>2. QED
    BY <1>6, <1>7, <2>1, NothingServed
<1>9. ~Fits(fcServed'[c]) /\ fcAnswer'[c] # "response" /\ fcPc'[c] \notin {"write", "stop"}
  BY <1>6, <1>7 DEF Fits
<1>10. UsageInv'
  BY <1>1, <1>6, <1>9, NotPaid
<1>11. QED
  BY <1>1, <1>6, <1>8, <1>10, OneCall DEF FcInv

\* An answer of the endpoint is asked for at most once more than it may be.
LEMMA CallStep ==
  ASSUME FcInv, NEW c \in FcCalls, SyntheticCall(c) \/ CallFoundry(c)
  PROVE  FcInv'
<1>1. /\ fcPc[c] = "call" /\ fcMode' = fcMode /\ UNCHANGED <<fcUsage, fcSeen, fcOverlap>>
      /\ fcUsage \in Nat /\ Live' /\ fcOverlap' \in BOOLEAN /\ fcSeen' \in [FcCalls -> Nat]
  BY DEF FcInv, FcValues, Live, fcSession, SyntheticCall, CallFoundry
<1>2. /\ fcServed[c] \in Seq(Served) /\ Len(fcServed[c]) \in Nat /\ Len(fcServed[c]) <= FcRetries
      /\ \A i \in 1..Len(fcServed[c]) : fcServed[c][i] \in Again
      /\ fcAnswer[c] = "none"
  BY <1>1, LenProperties DEF FcInv, CallsOk, CallOk
<1>3. PICK a \in Served :
          /\ fcServed' = [fcServed EXCEPT ![c] = Append(fcServed[c], a)]
          /\ \/ a \in {"good", "unlike", "uncosted", "synthetic"} /\ FcGoto(c, "shape")
             \/ FcEnd(c, "unavailable")
             \/ a \in Again /\ Len(fcServed[c]) # FcRetries /\ FcGoto(c, "call")
  <2>1. CASE SyntheticCall(c)
    <3>1. fcServed[c] = <<>> /\ Append(<<>>, "synthetic") = <<"synthetic">>
      BY <2>1 DEF SyntheticCall
    <3>2. QED
      BY <2>1, <3>1 DEF SyntheticCall, Served
  <2>2. CASE CallFoundry(c)
    <3>1. PICK a \in EndpointAnswers :
              /\ fcServed' = [fcServed EXCEPT ![c] = Append(@, a)]
              /\ IF a \in {"good", "unlike", "uncosted"} THEN FcGoto(c, "shape")
                 ELSE IF a = "refused" \/ Len(fcServed[c]) = FcRetries THEN FcEnd(c, "unavailable")
                 ELSE FcGoto(c, "call")
      BY <2>2 DEF CallFoundry
    <3>2. a \in Served
      BY DEF Served
    <3>3. \/ a \in {"good", "unlike", "uncosted", "synthetic"} /\ FcGoto(c, "shape")
          \/ FcEnd(c, "unavailable")
          \/ a \in Again /\ Len(fcServed[c]) # FcRetries /\ FcGoto(c, "call")
      BY <3>1 DEF EndpointAnswers, Again
    <3>4. QED
      BY <3>1, <3>2, <3>3
  <2>3. QED
    BY <2>1, <2>2
<1> DEFINE s == Append(fcServed[c], a)
<1>4. /\ s \in Seq(Served) /\ s # <<>> /\ Len(s) = Len(fcServed[c]) + 1
      /\ \A i \in 1..Len(fcServed[c]) : s[i] = fcServed[c][i]
      /\ Last(s) = a /\ s[Len(s)] = a
  BY <1>2, AppendProperties DEF Last
<1> HIDE DEF s
<1>5. \A i \in 1..(Len(s) - 1) : s[i] \in Again
  BY <1>2, <1>4
<1>6. FcRetries \in Nat /\ Len(s) <= FcRetries + 1
  BY <1>2, <1>4, FcAssumption
<1>7. fcServed' = [fcServed EXCEPT ![c] = s]
  BY <1>3 DEF s
<1>8. ASSUME NEW p \in {"call", "shape", "done"},
             NEW x \in {"none", "unavailable"}, Now(c, p, x), CallOk(p, fcMode[c], s, x)
      PROVE  FcInv'
  <2>1. /\ FcValues' /\ OthersStay(c)
        /\ fcPc'[c] = p /\ fcAnswer'[c] = x /\ fcServed'[c] = s /\ fcMode'[c] = fcMode[c]
    <3>1. /\ x \in {"none", "response", "unavailable", "stopped", "not_found", "error"}
          /\ Live' /\ fcOverlap' \in BOOLEAN /\ fcUsage' \in Nat /\ fcSeen' \in [FcCalls -> Nat]
          /\ p \in Places /\ fcMode' = fcMode
      BY <1>1, <1>8 DEF Places
    <3>2. s \in Seq(Served) /\ fcServed' = [fcServed EXCEPT ![c] = s]
      BY <1>4, <1>7
    <3>3. Now(c, p, x)
      BY <1>8
    <3>4. Serves(c, p, x, s)
      BY <3>1, <3>2, <3>3 DEF Serves
    <3>5. QED
      BY <3>4, NowFacts
  <2>2. CallsOk'
    BY <1>8, <2>1, OneCall DEF FcInv
  <2>3. UsageInv'
    BY <1>1, <2>1, NotPaid
  <2>4. QED
    BY <2>1, <2>2, <2>3 DEF FcInv
<1>9. CASE a \in {"good", "unlike", "uncosted", "synthetic"} /\ FcGoto(c, "shape")
  <2>1. Now(c, "shape", "none")
    BY <1>1, <1>9, GotoIsNow
  <2>2. CallOk("shape", fcMode[c], s, "none")
    BY <1>4, <1>5, <1>6, <1>9 DEF CallOk
  <2>3. QED
    BY <1>8, <2>1, <2>2
<1>10. CASE FcEnd(c, "unavailable")
  <2>1. Now(c, "done", "unavailable")
    BY <1>10 DEF FcEnd, Now
  <2>2. CallOk("done", fcMode[c], s, "unavailable")
    BY <1>4, <1>5, <1>6 DEF CallOk
  <2>3. QED
    BY <1>8, <2>1, <2>2
<1>11. CASE a \in Again /\ Len(fcServed[c]) # FcRetries /\ FcGoto(c, "call")
  <2>1. Now(c, "call", "none")
    BY <1>1, <1>11, GotoIsNow
  <2>2. Len(s) <= FcRetries /\ \A i \in 1..Len(s) : s[i] \in Again
    <3>1. PICK l \in Nat : l = Len(fcServed[c])
      BY <1>2
    <3>2. Len(s) = l + 1 /\ l <= FcRetries /\ l # FcRetries
      BY <1>2, <1>4, <1>11, <3>1
    <3>3. Len(s) <= FcRetries
      BY <1>6, <3>1, <3>2
    <3>4. \A i \in 1..(l + 1) : i \in 1..l \/ i = l + 1
      BY <3>1
    <3>5. \A i \in 1..l : s[i] \in Again
      BY <1>2, <1>4, <3>1
    <3>6. s[l + 1] \in Again
      BY <1>4, <1>11, <3>2
    <3>7. QED
      BY <3>2, <3>3, <3>4, <3>5, <3>6
  <2>3. CallOk("call", fcMode[c], s, "none")
    BY <1>4, <1>5, <1>6, <2>2 DEF CallOk
  <2>4. QED
    BY <1>8, <2>1, <2>3
<1>12. QED
  BY <1>3, <1>9, <1>10, <1>11

\* A call that is over now, or waits to be recorded: what it was served stays.
LEMMA CallEnds ==
  ASSUME FcInv, NEW c \in FcCalls, fcPc[c] \in {"shape", "record", "write", "stop"},
         fcMode' = fcMode, fcServed' = fcServed,
         Live', fcOverlap' \in BOOLEAN, fcUsage' \in Nat, fcSeen' \in [FcCalls -> Nat],
         NEW p, p \in {"record", "write", "stop", "done"},
         NEW a, a \in {"none", "response", "not_found", "error"},
         Now(c, p, a), p # "done" => a = "none",
         p \in {"write", "stop"} => fcMode[c] = "managed" /\ Fits(fcServed[c]),
         p = "record" => fcMode[c] = "managed" /\ Last(fcServed[c]) \in {"good", "uncosted", "synthetic"},
         fcMode[c] = "managed" /\ a = "response" => Fits(fcServed[c])
  PROVE  /\ FcValues' /\ CallsOk' /\ OthersStay(c)
         /\ fcPc'[c] = p /\ fcAnswer'[c] = a /\ fcServed'[c] = fcServed[c] /\ fcMode'[c] = fcMode[c]
<1>0. FcValues
  BY DEF FcInv
<1>1. /\ CallOk(fcPc[c], fcMode[c], fcServed[c], fcAnswer[c])
      /\ fcServed \in [FcCalls -> Seq(Served)]
  BY DEF FcInv, CallsOk, FcValues
<1>2. fcServed[c] \in Seq(Served) /\ fcServed' = [fcServed EXCEPT ![c] = fcServed[c]]
  BY <1>1
<1>3. /\ p \in Places
      /\ a \in {"none", "response", "unavailable", "stopped", "not_found", "error"}
  BY DEF Places
<1>4. /\ FcValues' /\ OthersStay(c)
      /\ fcPc'[c] = p /\ fcAnswer'[c] = a /\ fcServed'[c] = fcServed[c] /\ fcMode'[c] = fcMode[c]
  <2>1. PICK s : s = fcServed[c]
    OBVIOUS
  <2>2. s \in Seq(Served) /\ fcServed' = [fcServed EXCEPT ![c] = s]
    BY <1>2, <2>1
  <2>3. /\ FcValues' /\ OthersStay(c)
        /\ fcPc'[c] = p /\ fcAnswer'[c] = a /\ fcServed'[c] = s /\ fcMode'[c] = fcMode[c]
    <3>1. FcValues'
      BY <1>0, <1>3, <2>2 DEF FcValues, Now
    <3>2. fcPc'[c] = p /\ fcAnswer'[c] = a /\ fcServed'[c] = s /\ fcMode'[c] = fcMode[c]
      BY <1>0, <2>2 DEF FcValues, Now
    <3>3. OthersStay(c)
      BY <1>0, <2>2 DEF FcValues, Now, OthersStay
    <3>4. QED
      BY <3>1, <3>2, <3>3
  <2>4. QED
    BY <2>1, <2>3
<1>5. CallOk(p, fcMode[c], fcServed[c], a)
  <2>1. PICK q, m, s, b : q = fcPc[c] /\ m = fcMode[c] /\ s = fcServed[c] /\ b = fcAnswer[c]
    OBVIOUS
  <2>2. CallOk(q, m, s, b) /\ q \in {"shape", "record", "write", "stop"}
    BY <1>1, <2>1
  <2>3. s # <<>>
    BY <2>2 DEF CallOk, Fits
  <2>4. /\ p \in {"write", "stop"} => m = "managed" /\ Fits(s)
        /\ p = "record" => m = "managed" /\ Last(s) \in {"good", "uncosted", "synthetic"}
        /\ m = "managed" /\ a = "response" => Fits(s)
    BY <2>1
  <2>5. /\ s \in Seq(Served) /\ Len(s) <= FcRetries + 1
        /\ \A i \in 1..(Len(s) - 1) : s[i] \in Again
    BY ONLY <2>2 DEF CallOk
  <2>6. CallOk(p, m, s, a)
    BY ONLY p \in {"record", "write", "stop", "done"}, p # "done" => a = "none",
            <2>3, <2>4, <2>5 DEF CallOk
  <2>7. QED
    BY <2>1, <2>6
<1>6. CallsOk'
  BY <1>4, <1>5, OneCall DEF FcInv
<1>7. QED
  BY <1>4, <1>6

\* An answer of the wrong shape is an error before any usage is recorded.
LEMMA ShapeStep ==
  ASSUME FcInv, NEW c \in FcCalls, ShapeResponse(c)
  PROVE  FcInv'
<1>1. /\ fcPc[c] = "shape" /\ fcMode' = fcMode /\ fcServed' = fcServed
      /\ UNCHANGED <<fcUsage, fcSeen, fcOverlap>>
      /\ Live' /\ fcOverlap' \in BOOLEAN /\ fcUsage' \in Nat /\ fcSeen' \in [FcCalls -> Nat]
      /\ fcMode[c] \in {"managed", "direct", "none"}
  BY DEF FcInv, FcValues, Live, fcSession, ShapeResponse
<1>2. fcServed[c] # <<>> /\ Last(fcServed[c]) \in {"good", "unlike", "uncosted", "synthetic"}
  BY <1>1 DEF FcInv, CallsOk, CallOk
<1>3. CASE Last(fcServed[c]) = "unlike"
  <2>1. Now(c, "done", "error")
    BY <1>1, <1>3 DEF ShapeResponse, FcEnd, Now
  <2>2. /\ FcValues' /\ CallsOk' /\ OthersStay(c)
        /\ fcPc'[c] \notin {"write", "stop"}
        /\ fcAnswer'[c] = "error" /\ fcServed'[c] = fcServed[c] /\ fcMode'[c] = fcMode[c]
    BY <1>1, <2>1, CallEnds
  <2>3. UsageInv'
    BY <1>1, <1>3, <2>2, NotPaid DEF Fits
  <2>4. QED
    BY <2>2, <2>3 DEF FcInv
<1>4. CASE Last(fcServed[c]) # "unlike" /\ fcMode[c] = "managed"
  <2>1. Now(c, "record", "none")
    BY <1>1, <1>4, GotoIsNow DEF ShapeResponse
  <2>2. /\ FcValues' /\ CallsOk' /\ OthersStay(c)
        /\ fcPc'[c] \notin {"write", "stop"}
        /\ fcAnswer'[c] = "none" /\ fcServed'[c] = fcServed[c] /\ fcMode'[c] = fcMode[c]
    BY <1>1, <1>2, <1>4, <2>1, CallEnds
  <2>3. UsageInv'
    BY <1>1, <2>2, NotPaid
  <2>4. QED
    BY <2>2, <2>3 DEF FcInv
<1>5. CASE Last(fcServed[c]) # "unlike" /\ fcMode[c] # "managed"
  <2>1. Now(c, "done", "response")
    BY <1>1, <1>5 DEF ShapeResponse, FcEnd, Now
  <2>2. /\ FcValues' /\ CallsOk' /\ OthersStay(c)
        /\ fcPc'[c] \notin {"write", "stop"}
        /\ fcAnswer'[c] = "response" /\ fcServed'[c] = fcServed[c] /\ fcMode'[c] = fcMode[c]
    BY <1>1, <1>5, <2>1, CallEnds
  <2>3. UsageInv'
    BY <1>1, <1>5, <2>2, NotPaid
  <2>4. QED
    BY <2>2, <2>3 DEF FcInv
<1>6. QED
  BY <1>3, <1>4, <1>5

\* Nothing is written when the session is gone or the answer has no cost; what
\* is to be written is the usage as it is read.
LEMMA ReadStep ==
  ASSUME FcInv, NEW c \in FcCalls, ReadUsage(c)
  PROVE  FcInv'
<1>1. /\ fcPc[c] = "record" /\ fcMode' = fcMode /\ fcServed' = fcServed /\ fcUsage' = fcUsage
      /\ fcUsage \in Nat /\ Live' /\ fcSeen \in [FcCalls -> Nat]
      /\ fcPc \in [FcCalls -> Places]
  BY DEF FcInv, FcValues, Live, fcSession, ReadUsage
<1>2. /\ fcMode[c] = "managed" /\ fcAnswer[c] = "none" /\ fcServed[c] # <<>>
      /\ Last(fcServed[c]) \in {"good", "uncosted", "synthetic"}
  BY <1>1 DEF FcInv, CallsOk, CallOk
<1>3. ASSUME NEW a \in {"not_found", "error"}, FcEnd(c, a), UNCHANGED <<fcSeen, fcOverlap>>,
             a = "error" => Last(fcServed[c]) = "uncosted"
      PROVE  FcInv'
  <2>1. Now(c, "done", a)
    BY <1>3 DEF FcEnd, Now
  <2>2. /\ FcValues' /\ CallsOk' /\ OthersStay(c)
        /\ fcPc'[c] = "done" /\ fcAnswer'[c] = a /\ fcServed'[c] = fcServed[c]
        /\ fcMode'[c] = fcMode[c]
    <3>1. fcOverlap' \in BOOLEAN /\ a \in {"none", "response", "not_found", "error"}
      BY <1>3 DEF FcInv, FcValues
    <3>2. QED
      BY <1>1, <1>3, <2>1, <3>1, CallEnds
  <2>3. UsageInv'
    BY <1>1, <1>3, <2>2, NotPaid DEF Fits
  <2>4. QED
    BY <2>2, <2>3 DEF FcInv
<1>4. CASE /\ Last(fcServed[c]) # "uncosted" /\ FcGoto(c, "write")
           /\ fcSeen' = [fcSeen EXCEPT ![c] = fcUsage]
           /\ fcOverlap' = (fcOverlap \/ \E d \in FcCalls : fcPc[d] = "write")
  <2>1. Now(c, "write", "none") /\ Fits(fcServed[c])
    BY <1>1, <1>2, <1>4, GotoIsNow DEF Fits
  <2>2. fcOverlap' \in BOOLEAN /\ fcSeen' \in [FcCalls -> Nat]
    BY <1>1, <1>4 DEF FcInv, FcValues
  <2>3. /\ FcValues' /\ CallsOk' /\ OthersStay(c)
        /\ fcPc'[c] = "write" /\ fcAnswer'[c] = "none" /\ fcServed'[c] = fcServed[c]
        /\ fcMode'[c] = fcMode[c]
    BY <1>1, <1>2, <2>1, <2>2, CallEnds
  <2>4. Paid' = Paid /\ Unseen' = Unseen /\ Writing' = Writing \cup {c}
    BY <1>1, <1>2, <2>3 DEF OthersStay, Paid, Unseen, Writing
  <2>5. /\ fcSeen'[c] = fcUsage
        /\ \A d \in FcCalls \ {c} : fcSeen'[d] = fcSeen[d]
    BY <1>1, <1>4
  <2>6. ~fcOverlap' => Writing' = {c} /\ ~fcOverlap
    BY <1>1, <1>4, <2>4 DEF Writing
  <2>7. UsageInv
    BY DEF FcInv
  <2>8. UsageInv'
    <3>1. \A d \in Writing' : fcSeen'[d] <= Cardinality(Paid')
      BY <2>4, <2>5, <2>7 DEF UsageInv, Writing
    <3>2. Unseen' # {} => fcUsage' >= FcHard \/ fcOverlap'
      BY <1>1, <1>4, <2>4, <2>7 DEF UsageInv
    <3>3. ~fcOverlap' => /\ fcUsage' = Cardinality(Paid')
                         /\ \A d \in Writing' : fcSeen'[d] = fcUsage' /\ Writing' = {d}
      BY <1>1, <2>4, <2>5, <2>6, <2>7 DEF UsageInv
    <3>4. IsFiniteSet(Paid') /\ fcUsage' <= Cardinality(Paid')
      BY <1>1, <2>4, <2>7 DEF UsageInv
    <3>5. QED
      BY <3>1, <3>2, <3>3, <3>4 DEF UsageInv
  <2>9. QED
    BY <2>3, <2>8 DEF FcInv
<1>5. QED
  BY <1>3, <1>4 DEF ReadUsage

\* One more is paid for; what is written is at most that, and just that if the
\* call was alone.
LEMMA WriteStep ==
  ASSUME FcInv, NEW c \in FcCalls, WriteUsage(c)
  PROVE  FcInv'
<1>1. /\ fcPc[c] = "write" /\ fcMode' = fcMode /\ fcServed' = fcServed
      /\ fcUsage' = fcSeen[c] + 1 /\ UNCHANGED <<fcSeen, fcOverlap>> /\ FcGoto(c, "stop")
      /\ fcUsage \in Nat /\ fcSeen \in [FcCalls -> Nat] /\ fcSeen[c] \in Nat /\ Live'
  BY DEF FcInv, FcValues, Live, WriteUsage
<1>2. fcMode[c] = "managed" /\ fcAnswer[c] = "none" /\ Fits(fcServed[c])
  BY <1>1 DEF FcInv, CallsOk, CallOk
<1>3. Now(c, "stop", "none")
  BY <1>1, GotoIsNow
<1>4. /\ FcValues' /\ CallsOk' /\ OthersStay(c)
      /\ fcPc'[c] = "stop" /\ fcAnswer'[c] = "none" /\ fcServed'[c] = fcServed[c]
      /\ fcMode'[c] = fcMode[c]
  <2>1. fcUsage' \in Nat /\ fcOverlap' \in BOOLEAN /\ fcSeen' \in [FcCalls -> Nat]
    BY <1>1 DEF FcInv, FcValues
  <2>2. QED
    BY <1>1, <1>2, <1>3, <2>1, CallEnds
<1>5. /\ Paid' = Paid \cup {c} /\ c \notin Paid
      /\ Unseen' = Unseen /\ Writing' = Writing \ {c} /\ c \in Writing
  BY <1>1, <1>2, <1>4 DEF OthersStay, Paid, Unseen, Writing
<1>6. UsageInv
  BY DEF FcInv
<1>7. /\ IsFiniteSet(Paid') /\ Cardinality(Paid') = Cardinality(Paid) + 1
      /\ Cardinality(Paid) \in Nat
  BY <1>5, <1>6, FS_AddElement, FS_CardinalityType DEF UsageInv
<1>8. fcSeen[c] <= Cardinality(Paid)
  BY <1>5, <1>6 DEF UsageInv
<1>9. ~fcOverlap => fcSeen[c] = fcUsage /\ Writing' = {} /\ fcUsage = Cardinality(Paid)
  BY <1>5, <1>6 DEF UsageInv
<1>10. UsageInv'
  <2>1. \A d \in Writing' : fcSeen'[d] <= Cardinality(Paid')
    <3>1. \A d \in Writing' : fcSeen[d] \in Nat /\ fcSeen[d] <= Cardinality(Paid)
      BY <1>1, <1>5, <1>6 DEF UsageInv, Writing
    <3>2. QED
      BY <1>1, <1>7, <3>1
  <2>2. FcHard \in Nat /\ (Unseen' # {} => fcUsage' >= FcHard \/ fcOverlap')
    BY <1>1, <1>5, <1>6, <1>9, FcAssumption DEF UsageInv
  <2>3. ~fcOverlap' => /\ fcUsage' = Cardinality(Paid')
                       /\ \A d \in Writing' : fcSeen'[d] = fcUsage' /\ Writing' = {d}
    BY <1>1, <1>7, <1>9
  <2>4. IsFiniteSet(Paid') /\ fcUsage' <= Cardinality(Paid')
    BY <1>1, <1>7, <1>8
  <2>5. QED
    BY <2>1, <2>2, <2>3, <2>4 DEF UsageInv
<1>11. QED
  BY <1>4, <1>10 DEF FcInv

\* The call is over, and its answer is withheld only at the limit.
LEMMA EnforceStep ==
  ASSUME FcInv, NEW c \in FcCalls, EnforceLimit(c)
  PROVE  FcInv'
<1>1. /\ fcPc[c] = "stop" /\ fcMode' = fcMode /\ fcServed' = fcServed
      /\ UNCHANGED <<fcUsage, fcSeen, fcOverlap>> /\ fcUsage \in Nat /\ Live'
  BY DEF FcInv, FcValues, Live, fcSession, TearDown, EnforceLimit
<1>2. fcMode[c] = "managed" /\ fcAnswer[c] = "none" /\ Fits(fcServed[c])
  BY <1>1 DEF FcInv, CallsOk, CallOk
<1>3. PICK a \in {"response", "error"} : FcEnd(c, a) /\ (a = "error" => fcUsage >= FcHard)
  BY DEF EnforceLimit
<1>4. /\ FcValues' /\ CallsOk' /\ OthersStay(c)
      /\ fcPc'[c] = "done" /\ fcAnswer'[c] = a /\ fcServed'[c] = fcServed[c]
      /\ fcMode'[c] = fcMode[c]
  <2>1. /\ fcUsage' \in Nat /\ fcOverlap' \in BOOLEAN /\ fcSeen' \in [FcCalls -> Nat]
        /\ a \in {"none", "response", "not_found", "error"}
    BY <1>1 DEF FcInv, FcValues
  <2>2. Now(c, "done", a)
    BY <1>3 DEF FcEnd, Now
  <2>3. QED
    BY <1>1, <1>2, <2>1, <2>2, CallEnds
<1>5. Paid' = Paid /\ Writing' = Writing
  BY <1>1, <1>2, <1>4 DEF OthersStay, Paid, Unseen, Writing
<1>6. Unseen' = Unseen \/ fcUsage >= FcHard
  BY <1>2, <1>3, <1>4 DEF OthersStay, Unseen
<1>7. UsageInv'
  BY <1>1, <1>5, <1>6 DEF FcInv, UsageInv
<1>8. QED
  BY <1>4, <1>7 DEF FcInv

LEMMA FcInvStep == FcInv /\ [FcNext]_fcVars => FcInv'
<1> SUFFICES ASSUME FcInv, [FcNext]_fcVars PROVE FcInv'
  OBVIOUS
<1>1. CASE SessionExpires \/ SessionMoves \/ UNCHANGED fcVars
  <2>1. UNCHANGED <<fcUsage, fcPc, fcMode, fcServed, fcAnswer, fcSeen, fcOverlap>>
    BY <1>1 DEF SessionExpires, SessionMoves, fcVars
  <2>2. FcValues'
    BY <1>1, <2>1 DEF SessionExpires, SessionMoves, fcVars, FcInv, FcValues, Live
  <2>3. CallsOk' /\ UsageInv'
    BY <2>1 DEF FcInv, CallsOk, UsageInv, Paid, Unseen, Writing
  <2>4. QED
    BY <2>2, <2>3 DEF FcInv
<1>2. CASE \E c \in FcCalls : \/ ResolveTarget(c) \/ SyntheticCall(c) \/ CallFoundry(c)
                              \/ ShapeResponse(c) \/ RecordUsage(c)
  BY <1>2, ResolveStep, CallStep, ShapeStep, ReadStep, WriteStep, EnforceStep DEF RecordUsage
<1>3. QED
  BY <1>1, <1>2 DEF FcNext

LEMMA FcInvCounts == FcInv => FcTypeOK /\ UsageIsOfAnswers
<1> SUFFICES ASSUME FcInv PROVE FcTypeOK /\ UsageIsOfAnswers
  OBVIOUS
<1>1. FcTypeOK
  BY DEF FcInv, FcValues, Live, Places, CallsOk, CallOk, FcTypeOK, Served
<1>2. /\ fcUsage <= Cardinality(Paid) /\ (~fcOverlap => fcUsage = Cardinality(Paid))
      /\ Unseen # {} => fcUsage >= FcHard \/ fcOverlap
      /\ \A c \in FcCalls : fcMode[c] = "managed" /\ fcAnswer[c] = "response" => Fits(fcServed[c])
      /\ \A c \in FcCalls : \A i \in 1..(Len(fcServed[c]) - 1) : fcServed[c][i] \in Again
  BY DEF FcInv, UsageInv, CallsOk, CallOk
<1>3. QED
  BY <1>1, <1>2 DEF UsageIsOfAnswers, Paid, Unseen, Fits, Again

\* However the calls, their accounting and the comings and goings of their
\* session fall together: only answered calls are charged, none twice, and all
\* of them unless two accountings overlapped.
THEOREM UsageCounted == FcSpec => []UsageIsOfAnswers
BY FcInvInit, FcInvStep, FcInvCounts, PTL DEF FcSpec

-----------------------------------------------------------------------------
(* McpStdio.                                                               *)

Messages == [id : 0..StRequests, kind : MessageKinds]
Asked(i, k) == [id |-> i, kind |-> k]

\* A line of the client, written after r requests and z notifications that
\* raise: with it they are i and w.
LineAt(l, r, i, z, w) ==
    \/ /\ i = r
       /\ \E n \in NoteKinds :
            l = <<Note(n)>> /\ w = IF n = "raises" THEN z + 1 ELSE z
    \/ /\ i = r + 1 /\ w = z
       /\ \E k \in MessageKinds : l = <<Asked(i, k)>>
    \/ /\ i = r + 1
       /\ \E n \in NoteKinds, k \in MessageKinds :
            l = <<Note(n), Asked(i, k)>> /\ w = IF n = "raises" THEN z + 1 ELSE z

\* A batch is answered as the fold unfolds, from the messages' last one.
Unfolds(f, ms, D) ==
    \A s \in SUBSET D :
        f[s] = IF s = {} THEN <<>> ELSE f[s \ {Max(s)}] \o Responses(ms[Max(s)])

LEMMA BatchUnfolds ==
  ASSUME NEW ms, NEW D, D = DOMAIN ms,
         NEW f, f = [s \in SUBSET D |-> f[s]], Unfolds(f, ms, D)
  PROVE  \E it : HandleBatch(ms) = it[D] /\ Unfolds(it, ms, D)
<1>1. f = [s \in SUBSET (DOMAIN ms) |->
              IF s = {} THEN <<>> ELSE f[s \ {Max(s)}] \o Responses(ms[Max(s)])]
  BY DEF Unfolds
<1>2. \E it : /\ HandleBatch(ms) = it[DOMAIN ms]
              /\ it = [s \in SUBSET (DOMAIN ms) |->
                          IF s = {} THEN <<>> ELSE it[s \ {Max(s)}] \o Responses(ms[Max(s)])]
  BY <1>1 DEF HandleBatch, FoldLeft, MapThenFoldSet
<1>3. PICK it : /\ HandleBatch(ms) = it[DOMAIN ms]
                /\ it = [s \in SUBSET (DOMAIN ms) |->
                            IF s = {} THEN <<>> ELSE it[s \ {Max(s)}] \o Responses(ms[Max(s)])]
  BY <1>2
<1>4. \A s \in SUBSET (DOMAIN ms) :
          it[s] = IF s = {} THEN <<>> ELSE it[s \ {Max(s)}] \o Responses(ms[Max(s)])
  BY <1>3
<1>5. Unfolds(it, ms, D)
  BY <1>4 DEF Unfolds
<1>6. QED
  BY <1>3, <1>5

LEMMA ResponsesIsSeq ==
  ASSUME NEW m, m.id \in Nat
  PROVE  Responses(m) \in Seq(Nat)
BY DEF Responses

LEMMA MaxFacts ==
  /\ \A n \in Nat : Max({n}) = n
  /\ Max({1, 2}) = 2
<1>1. ASSUME NEW n \in Nat PROVE Max({n}) = n
  BY DEF Max
<1>2. Max({1, 2}) = 2
  <2>1. \E x \in {1, 2} : \A y \in {1, 2} : x >= y
    OBVIOUS
  <2>2. \A x \in {1, 2} : (\A y \in {1, 2} : x >= y) => x = 2
    OBVIOUS
  <2>3. QED
    BY <2>1, <2>2 DEF Max
<1>3. QED
  BY <1>1, <1>2

LEMMA BatchOfOne ==
  ASSUME NEW m, m.id \in Nat
  PROVE  HandleBatch(<<m>>) = Responses(m)
<1> DEFINE ms == <<m>>
           R == Responses(m)
           f == [s \in SUBSET {1} |-> IF s = {} THEN <<>> ELSE R]
<1>1. DOMAIN ms = {1} /\ ms[1] = m /\ SUBSET {1} = {{}, {1}} /\ {1} \ {1} = {}
  OBVIOUS
<1>2. R \in Seq(Nat) /\ <<>> \o R = R
  BY ResponsesIsSeq, ConcatEmptySeq
<1> HIDE DEF R
<1>3. ASSUME NEW s \in SUBSET {1}
      PROVE  f[s] = IF s = {} THEN <<>> ELSE f[s \ {Max(s)}] \o Responses(ms[Max(s)])
  <2>1. CASE s = {}
    BY <2>1
  <2>2. CASE s = {1}
    <3>1. Max(s) = 1
      BY <2>2, MaxFacts
    <3>2. f[s] = R /\ f[s \ {1}] = <<>> /\ Responses(ms[1]) = R
      BY <1>1, <2>2 DEF R
    <3>3. QED
      BY <1>2, <2>2, <3>1, <3>2
  <2>3. QED
    BY <1>1, <2>1, <2>2
<1>4. f = [s \in SUBSET {1} |-> f[s]] /\ Unfolds(f, ms, {1})
  BY <1>3 DEF Unfolds
<1> HIDE DEF f, ms
<1>5. PICK it : HandleBatch(ms) = it[{1}] /\ Unfolds(it, ms, {1})
  BY <1>1, <1>4, BatchUnfolds
<1>6. it[{}] = <<>>
  BY <1>1, <1>5 DEF Unfolds
<1>7. it[{1}] = it[{1} \ {Max({1})}] \o Responses(ms[Max({1})])
  BY <1>1, <1>5 DEF Unfolds
<1>8. it[{1}] = R
  <2>1. it[{1}] = it[{}] \o Responses(ms[1])
    BY <1>1, <1>7, MaxFacts
  <2>2. Responses(ms[1]) = R
    BY <1>1 DEF R
  <2>3. QED
    BY <1>2, <1>6, <2>1, <2>2
<1>9. QED
  BY <1>5, <1>8 DEF R, ms

LEMMA BatchOfTwo ==
  ASSUME NEW m, m.id \in Nat, NEW n, n.id \in Nat
  PROVE  HandleBatch(<<m, n>>) = Responses(m) \o Responses(n)
<1> DEFINE ms == <<m, n>>
           R == Responses(m)
           Q == Responses(n)
           f == [s \in SUBSET {1, 2} |-> IF s = {} THEN <<>> ELSE IF s = {1} THEN R
                                         ELSE IF s = {2} THEN Q ELSE R \o Q]
<1>1. /\ DOMAIN ms = {1, 2} /\ ms[1] = m /\ ms[2] = n
      /\ SUBSET {1, 2} = {{}, {1}, {2}, {1, 2}}
      /\ {1} \ {1} = {} /\ {2} \ {2} = {} /\ {1, 2} \ {2} = {1}
      /\ {} # {1} /\ {} # {2} /\ {1} # {2} /\ {1, 2} # {} /\ {1, 2} # {1} /\ {1, 2} # {2}
  OBVIOUS
<1>2. R \in Seq(Nat) /\ <<>> \o R = R /\ Q \in Seq(Nat) /\ <<>> \o Q = Q
  BY ResponsesIsSeq, ConcatEmptySeq
<1>3. Responses(ms[1]) = R /\ Responses(ms[2]) = Q
  OBVIOUS
<1> HIDE DEF R, Q
<1>4. f[{}] = <<>> /\ f[{1}] = R /\ f[{2}] = Q /\ f[{1, 2}] = R \o Q
  BY <1>1
<1>5. f = [s \in SUBSET {1, 2} |-> f[s]] /\ Unfolds(f, ms, {1, 2})
  <2>1. f[{1}] = f[{1} \ {Max({1})}] \o Responses(ms[Max({1})])
    BY <1>1, <1>2, <1>3, <1>4, MaxFacts
  <2>2. f[{2}] = f[{2} \ {Max({2})}] \o Responses(ms[Max({2})])
    BY <1>1, <1>2, <1>3, <1>4, MaxFacts
  <2>3. f[{1, 2}] = f[{1, 2} \ {Max({1, 2})}] \o Responses(ms[Max({1, 2})])
    BY <1>1, <1>2, <1>3, <1>4, MaxFacts
  <2>4. f = [s \in SUBSET {1, 2} |-> f[s]]
    OBVIOUS
  <2> HIDE DEF f, ms
  <2>5. QED
    BY <1>1, <1>4, <2>1, <2>2, <2>3, <2>4 DEF Unfolds
<1> HIDE DEF f, ms
<1>6. PICK it : HandleBatch(ms) = it[{1, 2}] /\ Unfolds(it, ms, {1, 2})
  BY <1>1, <1>5, BatchUnfolds
<1>7. it[{}] = <<>> /\ {1} \in SUBSET {1, 2} /\ {1, 2} \in SUBSET {1, 2}
  BY <1>1, <1>6 DEF Unfolds
<1>8. it[{1}] = it[{1} \ {Max({1})}] \o Responses(ms[Max({1})])
  BY <1>1, <1>6, <1>7 DEF Unfolds
<1>9. it[{1, 2}] = it[{1, 2} \ {Max({1, 2})}] \o Responses(ms[Max({1, 2})])
  BY <1>1, <1>6, <1>7 DEF Unfolds
<1>10. it[{1}] = R
  <2>1. Max({1}) = 1
    BY MaxFacts
  <2>2. it[{1}] = it[{}] \o Responses(ms[1])
    BY <1>1, <1>8, <2>1
  <2>3. QED
    BY <1>2, <1>3, <1>7, <2>2
<1>11. it[{1, 2}] = R \o Q
  BY <1>1, <1>3, <1>9, <1>10, MaxFacts
<1>12. QED
  BY <1>6, <1>11 DEF R, Q, ms

\* What a line is answered with.
LEMMA NoteAnswered ==
  ASSUME NEW n
  PROVE  /\ Note(n).id = 0
         /\ Responses(Note(n)) = IF n = "raises" THEN <<0>> ELSE <<>>
BY DEF Note, Responses

LEMMA LineAnswered ==
  ASSUME NEW l, NEW r \in Nat, NEW i, NEW z \in Nat, NEW w, LineAt(l, r, i, z, w)
  PROVE  \/ i = r /\ w = z /\ HandleBatch(l) = <<>>
         \/ i = r /\ w = z + 1 /\ HandleBatch(l) = <<0>>
         \/ i = r + 1 /\ w = z /\ HandleBatch(l) = <<i>>
         \/ i = r + 1 /\ w = z + 1 /\ HandleBatch(l) = <<0>> \o <<i>>
<1>1. ASSUME NEW j \in Nat \ {0}, NEW k
      PROVE  Asked(j, k).id = j /\ Responses(Asked(j, k)) = <<j>>
  BY <1>1 DEF Asked, Responses
<1>2. ASSUME NEW n \in NoteKinds, l = <<Note(n)>>
      PROVE  HandleBatch(l) = IF n = "raises" THEN <<0>> ELSE <<>>
  BY <1>2, NoteAnswered, BatchOfOne
<1>3. ASSUME NEW k \in MessageKinds, i = r + 1, l = <<Asked(i, k)>>
      PROVE  HandleBatch(l) = <<i>>
  <2>1. i \in Nat \ {0}
    BY <1>3
  <2>2. QED
    BY <1>1, <1>3, <2>1, BatchOfOne
<1>4. ASSUME NEW n \in NoteKinds, NEW k \in MessageKinds, i = r + 1, l = <<Note(n), Asked(i, k)>>
      PROVE  HandleBatch(l) = IF n = "raises" THEN <<0>> \o <<i>> ELSE <<i>>
  <2>1. i \in Nat \ {0} /\ Asked(i, k).id = i /\ Note(n).id = 0
    BY <1>1, <1>4, NoteAnswered
  <2>2. HandleBatch(l) = Responses(Note(n)) \o Responses(Asked(i, k))
    BY <1>4, <2>1, BatchOfTwo
  <2>3. Responses(Asked(i, k)) = <<i>>
    BY <1>1, <2>1
  <2>4. <<>> \o <<i>> = <<i>>
    OBVIOUS
  <2>5. CASE n = "raises"
    BY <2>2, <2>3, <2>5, NoteAnswered
  <2>6. CASE n # "raises"
    BY <2>2, <2>3, <2>4, <2>6, NoteAnswered
  <2>7. QED
    BY <2>5, <2>6
<1>5. CASE i = r /\ \E n \in NoteKinds : l = <<Note(n)>> /\ w = IF n = "raises" THEN z + 1 ELSE z
  BY <1>2, <1>5
<1>6. CASE i = r + 1 /\ w = z /\ \E k \in MessageKinds : l = <<Asked(i, k)>>
  BY <1>3, <1>6
<1>7. CASE /\ i = r + 1
           /\ \E n \in NoteKinds, k \in MessageKinds :
                l = <<Note(n), Asked(i, k)>> /\ w = IF n = "raises" THEN z + 1 ELSE z
  BY <1>4, <1>7
<1>8. QED
  BY <1>5, <1>6, <1>7 DEF LineAt

\* The lines the server has written, those the client has read before the
\* others: the answers to the first r requests, in order, and z null lines.
Written(L, r, z) ==
    /\ L \in Seq(Nat) /\ Len(L) = r + z
    /\ \A i \in 1..Len(L) :
        \/ L[i] = 0 /\ z > 0
        \/ L[i] # 0 /\ L[i] <= r /\ L[i] <= i /\ i <= L[i] + z
    /\ \A i, j \in 1..Len(L) : i < j /\ L[i] # 0 /\ L[j] # 0 => L[i] < L[j]

LEMMA OneWritten ==
  ASSUME NEW L, NEW r \in Nat, NEW z \in Nat, Written(L, r, z), NEW x, NEW i, NEW w,
         \/ x = 0 /\ i = r /\ w = z + 1
         \/ x = r + 1 /\ i = r + 1 /\ w = z
  PROVE  Written(L \o <<x>>, i, w)
<1>1. L \in Seq(Nat) /\ Len(L) = r + z /\ x \in Nat /\ i \in Nat /\ w \in Nat
  BY DEF Written
<1>2. PICK M : M = L \o <<x>>
  OBVIOUS
<1>3. /\ M \in Seq(Nat) /\ Len(M) = r + z + 1 /\ M[r + z + 1] = x
      /\ \A j \in 1..(r + z) : M[j] = L[j]
  <2>1. L \o <<x>> = Append(L, x)
    BY <1>1
  <2>2. QED
    BY <1>1, <1>2, <2>1, AppendProperties
<1>4. \A j \in 1..(r + z + 1) : j \in 1..(r + z) \/ j = r + z + 1
  OBVIOUS
<1>5. ASSUME NEW j \in 1..Len(M)
      PROVE  \/ M[j] = 0 /\ w > 0
             \/ M[j] # 0 /\ M[j] <= i /\ M[j] <= j /\ j <= M[j] + w
  <2>1. CASE j \in 1..(r + z)
    <3>1. L[j] \in Nat
      BY <1>1, <2>1
    <3>2. \/ L[j] = 0 /\ z > 0
          \/ L[j] # 0 /\ L[j] <= r /\ L[j] <= j /\ j <= L[j] + z
      BY <1>1, <2>1 DEF Written
    <3>3. QED
      BY <1>1, <1>3, <2>1, <3>1, <3>2
  <2>2. CASE j = r + z + 1
    BY <1>1, <1>3, <2>2
  <2>3. QED
    BY <1>3, <1>4, <2>1, <2>2
<1>6. ASSUME NEW j \in 1..Len(M), NEW k \in 1..Len(M), j < k, M[j] # 0, M[k] # 0
      PROVE  M[j] < M[k]
  <2>1. j \in 1..(r + z) /\ M[j] = L[j] /\ L[j] \in Nat
    BY <1>1, <1>3, <1>4, <1>6
  <2>2. CASE k \in 1..(r + z)
    BY <1>1, <1>3, <1>6, <2>1, <2>2 DEF Written
  <2>3. CASE k = r + z + 1
    <3>1. L[j] <= r
      BY <1>1, <1>6, <2>1 DEF Written
    <3>2. QED
      BY <1>3, <1>6, <2>1, <2>3, <3>1
  <2>4. QED
    BY <1>3, <1>4, <2>2, <2>3
<1>7. Len(M) = i + w
  BY <1>1, <1>3
<1>8. Written(M, i, w)
  BY <1>3, <1>5, <1>6, <1>7 DEF Written
<1>9. QED
  BY <1>2, <1>8

\* After a line, what the server has written is as its counts say.
LEMMA LineWritten ==
  ASSUME NEW L, NEW r \in Nat, NEW z \in Nat, Written(L, r, z),
         NEW l, NEW i, NEW w, LineAt(l, r, i, z, w)
  PROVE  Written(L \o HandleBatch(l), i, w)
<1>1. L \in Seq(Nat)
  BY DEF Written
<1>2. CASE i = r /\ w = z /\ HandleBatch(l) = <<>>
  <2>1. L \o <<>> = L
    BY <1>1, ConcatEmptySeq
  <2>2. QED
    BY <1>2, <2>1
<1>3. CASE i = r /\ w = z + 1 /\ HandleBatch(l) = <<0>>
  BY <1>3, OneWritten
<1>4. CASE i = r + 1 /\ w = z /\ HandleBatch(l) = <<i>>
  BY <1>4, OneWritten
<1>5. CASE i = r + 1 /\ w = z + 1 /\ HandleBatch(l) = <<0>> \o <<i>>
  <2>1. Written(L \o <<0>>, r, z + 1)
    BY OneWritten
  <2>2. Written((L \o <<0>>) \o <<i>>, i, w)
    BY <1>5, <2>1, OneWritten
  <2>3. (L \o <<0>>) \o <<i>> = L \o (<<0>> \o <<i>>)
    <3>1. <<0>> \in Seq(Nat) /\ <<i>> \in Seq(Nat)
      BY <1>5
    <3>2. QED
      BY <1>1, <3>1, ConcatAssociative
  <2>4. QED
    BY <1>5, <2>2, <2>3
<1>6. QED
  BY <1>2, <1>3, <1>4, <1>5, LineAnswered

\* f and g count, for every prefix of the server's input, the requests and the
\* notifications that raise, from the client's first line on.
Counts(f, g) ==
    /\ f \in [0..Len(stIn) -> 0..stSent] /\ g \in [0..Len(stIn) -> 0..stRaised]
    /\ stOpen => f[Len(stIn)] = stSent /\ g[Len(stIn)] = stRaised
    /\ \A k \in 1..Len(stIn) : LineAt(stIn[k], f[k - 1], f[k], g[k - 1], g[k])
    /\ Written(stTaken \o stOut, f[0], g[0])

StInv ==
    /\ stSent \in 0..StRequests /\ stNoted \in 0..StNotes /\ stRaised \in 0..stNoted
    /\ stTaken \in Seq(Nat) /\ stOut \in Seq(Nat)
    /\ stIn \in Seq(Seq(Messages))
    /\ \E f, g : Counts(f, g)

LEMMA LinesTyped ==
  /\ \A n \in NoteKinds : <<Note(n)>> \in Seq(Messages)
  /\ \A i \in 1..StRequests, k \in MessageKinds :
         /\ <<Asked(i, k)>> \in Seq(Messages)
         /\ \A n \in NoteKinds : <<Note(n), Asked(i, k)>> \in Seq(Messages)
<1>1. NoteKinds \subseteq MessageKinds
  BY StAssumption DEF NoteKinds, MessageKinds
<1>2. \A n \in NoteKinds : Note(n) \in Messages
  BY <1>1, StAssumption DEF Note, Messages
<1>3. \A i \in 1..StRequests, k \in MessageKinds : Asked(i, k) \in Messages
  BY StAssumption DEF Asked, Messages
<1>4. QED
  BY <1>2, <1>3

LEMMA StInvInit == StInit => StInv
<1> SUFFICES ASSUME StInit PROVE StInv
  OBVIOUS
<1>1. /\ stIn = <<>> /\ stOut = <<>> /\ stTaken = <<>>
      /\ stSent = 0 /\ stNoted = 0 /\ stRaised = 0
  BY DEF StInit
<1>2. Written(<<>> \o <<>>, 0, 0)
  BY EmptySeq DEF Written
<1>3. Counts([k \in {0} |-> 0], [k \in {0} |-> 0])
  BY <1>1, <1>2 DEF Counts
<1>4. QED
  BY <1>1, <1>3, StAssumption, EmptySeq DEF StInv

\* One line more at the end of the input.
LEMMA AppendLine ==
  ASSUME stIn \in Seq(Seq(Messages)), NEW l \in Seq(Messages)
  PROVE  /\ Append(stIn, l) \in Seq(Seq(Messages))
         /\ Len(Append(stIn, l)) = Len(stIn) + 1 /\ Len(stIn) \in Nat
         /\ \A i \in 1..Len(stIn) : Append(stIn, l)[i] = stIn[i]
         /\ Append(stIn, l)[Len(stIn) + 1] = l
BY AppendProperties, LenProperties

LEMMA JoinedTwice ==
  ASSUME NEW s \in Seq(Nat), NEW t \in Seq(Nat), NEW u \in Seq(Nat)
  PROVE  (s \o t) \o u = s \o (t \o u)
BY ONLY s \in Seq(Nat), t \in Seq(Nat), u \in Seq(Nat), ConcatAssociative

\* The client writes a line.
LEMMA WriteStepOfClient ==
  ASSUME StInv, stOpen, NEW l \in Seq(Messages), stIn' = Append(stIn, l),
         LineAt(l, stSent, stSent', stRaised, stRaised'),
         stSent' \in 0..StRequests, stNoted' \in 0..StNotes, stRaised' \in 0..stNoted',
         UNCHANGED <<stOut, stTaken, stOpen>>
  PROVE  StInv'
<1>1. PICK f, g : Counts(f, g)
  BY DEF StInv
<1>2. /\ stSent \in Nat /\ stRaised \in Nat /\ stNoted \in Nat /\ stSent' \in Nat /\ stRaised' \in Nat
      /\ stSent <= stSent' /\ stRaised <= stRaised'
  <2>1. stSent \in Nat /\ stRaised \in Nat /\ stNoted \in Nat
    BY StAssumption DEF StInv
  <2>2. QED
    BY <2>1, StAssumption DEF LineAt
<1>3. PICK n \in Nat : n = Len(stIn)
  BY LenProperties DEF StInv
<1>4. /\ stIn' \in Seq(Seq(Messages)) /\ Len(stIn') = n + 1
      /\ \A i \in 1..n : stIn'[i] = stIn[i]
      /\ stIn'[n + 1] = l
  BY <1>3, AppendLine DEF StInv
<1>5. /\ f \in [0..n -> 0..stSent] /\ g \in [0..n -> 0..stRaised]
      /\ f[n] = stSent /\ g[n] = stRaised
      /\ \A k \in 1..n : LineAt(stIn[k], f[k - 1], f[k], g[k - 1], g[k])
      /\ Written(stTaken \o stOut, f[0], g[0])
  BY <1>1, <1>3 DEF Counts
<1>a. PICK s \in Nat, r \in Nat : s = stSent' /\ r = stRaised'
  BY <1>2
<1> DEFINE F == [k \in 0..(n + 1) |-> IF k = n + 1 THEN s ELSE f[k]]
           G == [k \in 0..(n + 1) |-> IF k = n + 1 THEN r ELSE g[k]]
<1>6. /\ \A k \in 0..n : F[k] = f[k] /\ G[k] = g[k]
      /\ F[n + 1] = stSent' /\ G[n + 1] = stRaised'
  BY <1>a
<1>7. F \in [0..(n + 1) -> 0..stSent'] /\ G \in [0..(n + 1) -> 0..stRaised']
  <2>1. ASSUME NEW k \in 0..(n + 1) PROVE F[k] \in 0..stSent' /\ G[k] \in 0..stRaised'
    <3>1. CASE k = n + 1
      BY <1>2, <1>6, <3>1
    <3>2. CASE k \in 0..n
      <4>1. f[k] \in 0..stSent /\ g[k] \in 0..stRaised
        BY <1>5, <3>2
      <4>2. QED
        BY <1>2, <1>6, <3>2, <4>1
    <3>3. QED
      BY <3>1, <3>2
  <2>2. QED
    BY <2>1
<1> HIDE DEF F, G
<1>8. ASSUME NEW k \in 1..(n + 1)
      PROVE  LineAt(stIn'[k], F[k - 1], F[k], G[k - 1], G[k])
  <2>1. CASE k \in 1..n
    <3>1. k - 1 \in 0..n /\ k \in 0..n
      BY <2>1
    <3>2. QED
      BY <1>4, <1>5, <1>6, <2>1, <3>1
  <2>2. CASE k = n + 1
    <3>1. k - 1 = n /\ n \in 0..n
      BY <2>2
    <3>2. QED
      BY <1>4, <1>5, <1>6, <2>2, <3>1
  <2>3. k \in 1..n \/ k = n + 1
    BY ONLY n \in Nat, k \in 1..(n + 1)
  <2>4. QED
    BY <2>1, <2>2, <2>3, Zenon
<1>9. F[0] = f[0] /\ G[0] = g[0]
  BY <1>6
<1>10. Counts(F, G)'
  BY <1>4, <1>5, <1>6, <1>7, <1>8, <1>9 DEF Counts
<1>11. QED
  BY <1>4, <1>10 DEF StInv

LEMMA ServeStep == StInv /\ Serve => StInv'
<1> SUFFICES ASSUME StInv, Serve PROVE StInv'
  OBVIOUS
<1>1. /\ stIn # <<>> /\ stIn \in Seq(Seq(Messages))
      /\ stOut' = stOut \o HandleBatch(Head(stIn)) /\ stIn' = Tail(stIn)
      /\ UNCHANGED <<stSent, stNoted, stRaised, stTaken, stOpen>>
  BY DEF StInv, Serve
<1>2. PICK f, g : Counts(f, g)
  BY DEF StInv
<1>3. PICK n \in Nat : n + 1 = Len(stIn)
  <2>1. Len(stIn) \in Nat /\ Len(stIn) # 0
    BY <1>1, LenProperties, EmptySeq
  <2>2. Len(stIn) - 1 \in Nat /\ (Len(stIn) - 1) + 1 = Len(stIn)
    BY <2>1
  <2>3. QED
    BY <2>2
<1>4. /\ stIn' \in Seq(Seq(Messages)) /\ Len(stIn') = n
      /\ \A k \in 1..n : stIn'[k] = stIn[k + 1]
      /\ Head(stIn) = stIn[1]
  <2>1. /\ Tail(stIn) \in Seq(Seq(Messages)) /\ Len(Tail(stIn)) = Len(stIn) - 1
        /\ \A i \in 1..Len(Tail(stIn)) : Tail(stIn)[i] = stIn[i + 1]
    BY <1>1, HeadTailProperties
  <2>2. Len(stIn) - 1 = n /\ Head(stIn) = stIn[1]
    BY <1>1, <1>3
  <2>3. QED
    BY <1>1, <2>1, <2>2
<1>5. /\ f \in [0..(n + 1) -> 0..stSent] /\ g \in [0..(n + 1) -> 0..stRaised]
      /\ stOpen => f[n + 1] = stSent /\ g[n + 1] = stRaised
      /\ \A k \in 1..(n + 1) : LineAt(stIn[k], f[k - 1], f[k], g[k - 1], g[k])
      /\ Written(stTaken \o stOut, f[0], g[0])
  BY <1>2, <1>3 DEF Counts
<1> DEFINE F == [k \in 0..n |-> f[k + 1]]
           G == [k \in 0..n |-> g[k + 1]]
<1>6. \A k \in 0..n : k + 1 \in 0..(n + 1)
  OBVIOUS
<1>7. F \in [0..n -> 0..stSent] /\ G \in [0..n -> 0..stRaised]
  BY <1>5, <1>6
<1>8. \A k \in 0..n : F[k] = f[k + 1] /\ G[k] = g[k + 1]
  OBVIOUS
<1> HIDE DEF F, G
<1>9. ASSUME NEW k \in 1..n
      PROVE  LineAt(stIn'[k], F[k - 1], F[k], G[k - 1], G[k])
  <2>1. PICK j : j = k + 1
    OBVIOUS
  <2>2. k - 1 \in 0..n /\ k \in 0..n /\ (k - 1) + 1 = j - 1 /\ j \in 1..(n + 1)
    BY <2>1
  <2>3. /\ F[k - 1] = f[j - 1] /\ G[k - 1] = g[j - 1] /\ F[k] = f[j] /\ G[k] = g[j]
        /\ stIn'[k] = stIn[j]
    BY <1>4, <1>8, <2>1, <2>2
  <2>4. LineAt(stIn[j], f[j - 1], f[j], g[j - 1], g[j])
    BY <1>5, <2>2
  <2>5. QED
    BY <2>3, <2>4
<1>10. Written(stTaken' \o stOut', F[0], G[0]) /\ stOut' \in Seq(Nat)
  <2>1. f[0] \in Nat /\ g[0] \in Nat /\ F[0] = f[1] /\ G[0] = g[1]
    <3>1. 0 \in 0..(n + 1) /\ 0 \in 0..n /\ stSent \in Nat /\ stRaised \in Nat /\ 0 + 1 = 1
      BY StAssumption DEF StInv
    <3>2. f[0] \in 0..stSent /\ g[0] \in 0..stRaised
      BY <1>5, <3>1
    <3>3. QED
      BY <1>8, <3>1, <3>2
  <2>2. LineAt(Head(stIn), f[0], f[1], g[0], g[1])
    <3>1. 1 \in 1..(n + 1) /\ 1 - 1 = 0
      OBVIOUS
    <3>2. QED
      BY <1>4, <1>5, <3>1
  <2>3. Written((stTaken \o stOut) \o HandleBatch(Head(stIn)), f[1], g[1])
    BY <1>5, <2>1, <2>2, LineWritten
  <2>4. HandleBatch(Head(stIn)) \in Seq(Nat)
    <3>1. \A i \in Nat : <<>> \in Seq(Nat) /\ <<i>> \in Seq(Nat) /\ <<0>> \o <<i>> \in Seq(Nat)
      OBVIOUS
    <3>2. f[0] + 1 \in Nat /\ f[0] \in Nat
      BY <2>1
    <3>3. PICK h : h = HandleBatch(Head(stIn))
      OBVIOUS
    <3>4. \/ h = <<>> \/ h = <<0>>
          \/ f[1] = f[0] + 1 /\ h = <<f[1]>>
          \/ f[1] = f[0] + 1 /\ h = <<0>> \o <<f[1]>>
      BY <2>1, <2>2, <3>3, LineAnswered
    <3>5. h \in Seq(Nat)
      BY <3>1, <3>2, <3>4
    <3>6. QED
      BY <3>3, <3>5
  <2>5. stOut \in Seq(Nat) /\ stTaken \in Seq(Nat)
    BY DEF StInv
  <2>6. (stTaken \o stOut) \o HandleBatch(Head(stIn)) = stTaken \o stOut'
    <3>1. PICK h : h = HandleBatch(Head(stIn))
      OBVIOUS
    <3>2. h \in Seq(Nat) /\ stOut' = stOut \o h
      BY <1>1, <2>4, <3>1
    <3>3. (stTaken \o stOut) \o h = stTaken \o (stOut \o h)
      BY ONLY <2>5, <3>2, JoinedTwice
    <3>4. QED
      BY <3>1, <3>2, <3>3
  <2>7. stOut' \in Seq(Nat)
    BY <1>1, <2>4, <2>5, ConcatProperties
  <2>8. QED
    BY <1>1, <2>1, <2>3, <2>6, <2>7
<1>11. stOpen' => F[n] = stSent' /\ G[n] = stRaised'
  BY <1>1, <1>5, <1>8
<1>12. Counts(F, G)'
  BY <1>1, <1>4, <1>7, <1>9, <1>10, <1>11 DEF Counts
<1>13. QED
  BY <1>1, <1>4, <1>10, <1>12 DEF StInv

\* The line read goes from the front of the pipe to the end of those read.
LEMMA ReadStepOfClient == StInv /\ ReadLine => StInv'
<1> SUFFICES ASSUME StInv, ReadLine PROVE StInv'
  OBVIOUS
<1>1. /\ stOut \in Seq(Nat) /\ stTaken \in Seq(Nat) /\ stOut # <<>>
      /\ stTaken' = Append(stTaken, Head(stOut)) /\ stOut' = Tail(stOut)
      /\ UNCHANGED <<stIn, stSent, stNoted, stRaised, stOpen>>
  BY DEF StInv, ReadLine
<1>2. Head(stOut) \in Nat /\ Tail(stOut) \in Seq(Nat) /\ stOut = <<Head(stOut)>> \o Tail(stOut)
  BY <1>1
<1>3. stTaken' = stTaken \o <<Head(stOut)>> /\ <<Head(stOut)>> \in Seq(Nat)
  BY <1>1, <1>2
<1>4. stTaken' \o stOut' = stTaken \o stOut
  <2>1. PICK one, rest : one = <<Head(stOut)>> /\ rest = Tail(stOut)
    OBVIOUS
  <2>2. /\ one \in Seq(Nat) /\ rest \in Seq(Nat) /\ stTaken \in Seq(Nat)
        /\ stOut = one \o rest /\ stTaken' = stTaken \o one /\ stOut' = rest
    BY <1>1, <1>2, <1>3, <2>1
  <2>3. (stTaken \o one) \o rest = stTaken \o (one \o rest)
    BY ONLY <2>2, JoinedTwice
  <2>4. QED
    BY <2>2, <2>3
<1>5. stTaken' \in Seq(Nat) /\ stOut' \in Seq(Nat)
  BY <1>1, <1>2
<1>6. PICK f, g : Counts(f, g)
  BY DEF StInv
<1>7. Counts(f, g)'
  BY <1>1, <1>4, <1>6 DEF Counts
<1>8. QED
  BY <1>1, <1>5, <1>7 DEF StInv

LEMMA StInvStep == StInv /\ [StNext]_stVars => StInv'
<1> SUFFICES ASSUME StInv, [StNext]_stVars PROVE StInv'
  OBVIOUS
<1>1. /\ stSent \in Nat /\ stSent <= StRequests /\ stNoted \in Nat /\ stNoted <= StNotes
      /\ stRaised \in Nat /\ stRaised <= stNoted /\ StRequests \in Nat /\ StNotes \in Nat
  BY StAssumption DEF StInv
<1>2. ASSUME NEW n, Noted(n)
      PROVE  /\ stNoted' \in 0..StNotes /\ stRaised' \in 0..stNoted'
             /\ stRaised' = IF n = "raises" THEN stRaised + 1 ELSE stRaised
  BY <1>1, <1>2 DEF Noted
<1>3. CASE Serve
  BY <1>3, ServeStep
<1>4. CASE Request
  <2>1. /\ stOpen /\ stSent < StRequests /\ stSent' = stSent + 1
        /\ UNCHANGED <<stOut, stTaken, stOpen>>
    BY <1>4 DEF Request
  <2>2. PICK k \in MessageKinds :
            \/ stIn' = Append(stIn, <<Ask(k)>>) /\ UNCHANGED <<stNoted, stRaised>>
            \/ \E n \in NoteKinds : Noted(n) /\ stIn' = Append(stIn, <<Note(n), Ask(k)>>)
    BY <1>4 DEF Request
  <2>3. stSent' \in 1..StRequests /\ Ask(k) = Asked(stSent', k)
    BY <1>1, <2>1 DEF Ask, Asked
  <2>4. CASE stIn' = Append(stIn, <<Ask(k)>>) /\ UNCHANGED <<stNoted, stRaised>>
    <3>1. PICK l : l = <<Asked(stSent', k)>>
      OBVIOUS
    <3>2. l \in Seq(Messages) /\ LineAt(l, stSent, stSent', stRaised, stRaised')
      BY <2>1, <2>3, <2>4, <3>1, LinesTyped DEF LineAt
    <3>3. stNoted' \in 0..StNotes /\ stRaised' \in 0..stNoted' /\ stSent' \in 0..StRequests
      BY <1>1, <2>3, <2>4
    <3>4. QED
      BY <2>1, <2>3, <2>4, <3>1, <3>2, <3>3, WriteStepOfClient
  <2>5. ASSUME NEW n \in NoteKinds, Noted(n), stIn' = Append(stIn, <<Note(n), Ask(k)>>)
        PROVE  StInv'
    <3>1. PICK l : l = <<Note(n), Asked(stSent', k)>>
      OBVIOUS
    <3>2. l \in Seq(Messages) /\ LineAt(l, stSent, stSent', stRaised, stRaised')
      BY <1>2, <2>1, <2>3, <2>5, <3>1, LinesTyped DEF LineAt
    <3>3. stSent' \in 0..StRequests
      BY <1>1, <2>3
    <3>4. QED
      BY <1>2, <2>1, <2>3, <2>5, <3>1, <3>2, <3>3, WriteStepOfClient
  <2>6. QED
    BY <2>2, <2>4, <2>5
<1>5. CASE Notify
  <2>1. PICK n \in NoteKinds : Noted(n) /\ stIn' = Append(stIn, <<Note(n)>>)
    BY <1>5 DEF Notify
  <2>2. stOpen /\ UNCHANGED <<stOut, stSent, stTaken, stOpen>>
    BY <1>5 DEF Notify
  <2>3. PICK l : l = <<Note(n)>>
    OBVIOUS
  <2>4. l \in Seq(Messages) /\ LineAt(l, stSent, stSent', stRaised, stRaised')
    BY <1>2, <2>1, <2>2, <2>3, LinesTyped DEF LineAt
  <2>5. stSent' \in 0..StRequests
    BY <1>1, <2>2
  <2>6. QED
    BY <1>2, <2>1, <2>2, <2>3, <2>4, <2>5, WriteStepOfClient
<1>6. CASE ReadLine
  BY <1>6, ReadStepOfClient
<1>7. CASE Close
  <2>1. /\ stIn' = <<>> /\ ~stOpen' /\ UNCHANGED <<stOut, stSent, stNoted, stRaised, stTaken>>
    BY <1>7 DEF Close
  <2>2. PICK f, g : Counts(f, g)
    BY DEF StInv
  <2>3. Len(stIn) \in Nat /\ Len(stIn') = 0 /\ stIn' \in Seq(Seq(Messages))
    BY <2>1, LenProperties, EmptySeq DEF StInv
  <2>4. f[0] \in 0..stSent /\ g[0] \in 0..stRaised
    BY <2>2, <2>3 DEF Counts
  <2>5. Counts([k \in {0} |-> f[0]], [k \in {0} |-> g[0]])'
    BY <2>1, <2>2, <2>3, <2>4 DEF Counts
  <2>6. QED
    BY <2>1, <2>3, <2>5 DEF StInv
<1>8. CASE UNCHANGED stVars
  BY <1>8 DEF stVars, StInv, Counts
<1>9. QED
  BY <1>3, <1>4, <1>5, <1>6, <1>7, <1>8 DEF StNext

\* What the client has read is the front of what was written.
LEMMA StInvMatches ==
  ASSUME StInv
  PROVE  /\ AnswersMatch
         /\ \A i \in 1..Len(stTaken) : stTaken[i] <= stSent
         /\ \A i \in 1..Len(stOut) : stOut[i] <= stSent
<1>1. PICK f, g : Counts(f, g)
  BY DEF StInv
<1>2. /\ stTaken \in Seq(Nat) /\ stOut \in Seq(Nat) /\ stSent \in Nat /\ stRaised \in Nat
      /\ Len(stIn) \in Nat
  BY StAssumption, LenProperties DEF StInv
<1>3. PICK r \in 0..stSent, z \in 0..stRaised : Written(stTaken \o stOut, r, z)
  BY <1>1, <1>2 DEF Counts
<1>4. PICK m \in Nat, n \in Nat : m = Len(stTaken) /\ n = Len(stOut)
  BY <1>2, LenProperties
<1>5. PICK L : /\ L = stTaken \o stOut /\ Len(L) = m + n
               /\ \A i \in 1..m : L[i] = stTaken[i]
               /\ \A i \in 1..n : L[m + i] = stOut[i]
  <2>1. /\ Len(stTaken \o stOut) = m + n
        /\ \A i \in 1..m : (stTaken \o stOut)[i] = stTaken[i]
        /\ \A i \in 1..n : (stTaken \o stOut)[m + i] = stOut[i]
    BY <1>2, <1>4
  <2>2. QED
    BY <2>1
<1>6. \A i \in 1..(m + n) : \/ L[i] = 0 /\ z > 0
                            \/ L[i] # 0 /\ L[i] <= r /\ L[i] <= i /\ i <= L[i] + z
  BY <1>3, <1>5 DEF Written
<1>7. \A i, j \in 1..(m + n) : i < j /\ L[i] # 0 /\ L[j] # 0 => L[i] < L[j]
  BY <1>3, <1>5 DEF Written
<1>8. ASSUME NEW i \in 1..m
      PROVE  /\ \/ stTaken[i] = 0 /\ stRaised > 0
                \/ stTaken[i] # 0 /\ stTaken[i] <= i /\ i <= stTaken[i] + stRaised
             /\ stTaken[i] <= stSent
  <2>1. i \in 1..(m + n) /\ L[i] = stTaken[i] /\ stTaken[i] \in Nat
    BY <1>2, <1>4, <1>5
  <2>2. \/ stTaken[i] = 0 /\ z > 0
        \/ stTaken[i] # 0 /\ stTaken[i] <= r /\ stTaken[i] <= i /\ i <= stTaken[i] + z
    BY <1>6, <2>1
  <2>3. QED
    BY <1>2, <1>3, <2>1, <2>2
<1>9. ASSUME NEW i \in 1..n PROVE stOut[i] <= stSent
  <2>1. m + i \in 1..(m + n) /\ L[m + i] = stOut[i] /\ stOut[i] \in Nat
    BY <1>2, <1>4, <1>5
  <2>2. stOut[i] = 0 \/ stOut[i] <= r
    BY <1>6, <2>1
  <2>3. QED
    BY <1>2, <1>3, <2>1, <2>2
<1>10. ASSUME NEW i \in 1..m, NEW j \in 1..m, i < j, stTaken[i] # 0, stTaken[j] # 0
       PROVE  stTaken[i] < stTaken[j]
  <2>1. L[i] = stTaken[i] /\ L[j] = stTaken[j]
    BY <1>5
  <2>2. i \in 1..(m + n) /\ j \in 1..(m + n)
    BY <1>4
  <2>3. L[i] < L[j]
    BY <1>7, <1>10, <2>1, <2>2
  <2>4. QED
    BY <2>1, <2>3
<1>11. DOMAIN stTaken = 1..m
  BY <1>2, <1>4
<1>12. QED
  BY <1>4, <1>8, <1>9, <1>10, <1>11 DEF AnswersMatch

-----------------------------------------------------------------------------
(***************************************************************************)
(* ChatTurn.  The time that is left of a round of tool calls is counted    *)
(* as spent when the round begins: what the clock shows and what the calls *)
(* still to be made may take, is never more than one round past the budget.*)
(***************************************************************************)

\* d is the longest the search may take.
LongestSearch(d) == \A e \in CtSearchTimes : e <= d

\* The end of the budget, and of the search if that takes longer.
BudgetEnd(d) == IF d > CtTurn THEN d ELSE CtTurn

ClockWithin(d) == agClock + agTodo * AgCallTime <= Overrun + BudgetEnd(d)

CtInv ==
    /\ CtTypeOK
    /\ agDeadline <= CtTurn
    /\ ctPc = "search" => agClock = 0
    /\ ctPc \in {"search", "qwen"} => agPc = "idle"
    /\ agPc # "tools" => agTodo = 0
    /\ agPc \in {"poll", "tools"} => agRounds <= AgMaxRounds
    /\ agAnswer = "tool" => agExecutor
    /\ EvidenceShown
    /\ \A d \in CtSearchTimes : LongestSearch(d) => ClockWithin(d)

LEMMA ProductOfNaturals == ASSUME NEW a \in Nat, NEW b \in Nat PROVE a * b \in Nat
OBVIOUS

LEMMA CallsCost ==
  ASSUME NEW n \in 0..AgMaxCalls
  PROVE  /\ n * AgCallTime \in Nat /\ AgMaxCalls * AgCallTime \in Nat
         /\ n * AgCallTime <= AgMaxCalls * AgCallTime
         /\ n > 0 => n * AgCallTime = (n - 1) * AgCallTime + AgCallTime
<1>1. AgMaxCalls \in Nat /\ AgCallTime \in Nat /\ n \in Nat /\ n <= AgMaxCalls
  BY AgentAssumption
<1>2. PICK k \in Nat : AgMaxCalls = n + k
  <2>1. AgMaxCalls - n \in Nat /\ AgMaxCalls = n + (AgMaxCalls - n)
    BY <1>1
  <2>2. QED
    BY <2>1
<1>3. (n + k) * AgCallTime = n * AgCallTime + k * AgCallTime
  BY <1>1, <1>2
<1>4. /\ n * AgCallTime \in Nat /\ k * AgCallTime \in Nat
      /\ AgMaxCalls * AgCallTime \in Nat
  BY <1>1, <1>2, ProductOfNaturals
<1>5. n * AgCallTime <= AgMaxCalls * AgCallTime
  BY <1>2, <1>3, <1>4
<1>6. n > 0 => n * AgCallTime = (n - 1) * AgCallTime + AgCallTime
  BY <1>1
<1>7. QED
  BY <1>4, <1>5, <1>6

LEMMA TeamHasLess == TeamDeadline \in Nat /\ TeamDeadline <= CtTurn
BY ChatAssumption DEF TeamDeadline

LEMMA CtInvInit == CtInit => CtInv
<1> SUFFICES ASSUME CtInit PROVE CtInv
  OBVIOUS
<1>1. CtTypeOK
  <2>1. AgTypeOK
    <3>1. agExecutor \in BOOLEAN
      BY Zenon DEF CtInit, AgInit
    <3>2. agTodo \in 0..AgMaxCalls /\ agRounds \in 0..(AgMaxRounds + 1)
      BY AgentAssumption DEF CtInit, AgInit
    <3>3. /\ agClock \in Nat /\ agDeadline \in Nat
          /\ agBusy \in 0..AgWorkers /\ agQueued \in 0..AgMaxQueue
      BY AgentAssumption DEF CtInit, AgInit
    <3>4. agPc = "idle" /\ agAnswer = "none"
      BY DEF CtInit, AgInit
    <3>5. QED
      BY <3>1, <3>2, <3>3, <3>4 DEF AgTypeOK
  <2>2. /\ ctPc \in Members /\ ctSources \in [Members -> {"none", "text"}]
        /\ ctQwen = "running" /\ ctAnswer = "nothing"
    BY DEF CtInit, Members
  <2>3. QED
    BY <2>1, <2>2 DEF CtTypeOK
<1>2. ASSUME NEW d \in CtSearchTimes PROVE ClockWithin(d)
  <2>1. 0 \in 0..AgMaxCalls
    BY AgentAssumption
  <2>2. /\ 0 * AgCallTime = 0 /\ AgMaxCalls * AgCallTime \in Nat
        /\ CtTurn \in Nat /\ d \in Nat
    BY <2>1, CallsCost, AgentAssumption, ChatAssumption
  <2>3. QED
    BY <2>2 DEF CtInit, AgInit, ClockWithin, Overrun, BudgetEnd
<1>3. QED
  BY <1>1, <1>2, ChatAssumption DEF CtInit, AgInit, CtInv, EvidenceShown

LEMMA TimeOfCall ==
  ASSUME NEW c \in Nat, NEW after \in Nat, NEW x \in Nat, NEW y \in Nat,
         x = y + AgCallTime, after <= c + AgCallTime
  PROVE  after + y <= c + x
<1>1. AgCallTime \in Nat
  BY AgentAssumption
<1>2. QED
  BY <1>1

LEMMA OneCallLess ==
  ASSUME NEW n \in 0..AgMaxCalls, n > 0
  PROVE  n - 1 \in 0..AgMaxCalls
BY AgentAssumption

LEMMA TimeBound ==
  ASSUME NEW a \in Nat, NEW b \in Nat, NEW o \in Nat, a <= b, b <= o
  PROVE  a <= o
OBVIOUS

LEMMA SumOfNaturals == ASSUME NEW a \in Nat, NEW b \in Nat PROVE a + b \in Nat
OBVIOUS

\* A step that spends no more than it leaves undone keeps the clock in bounds.
LEMMA ClockSpent ==
  ASSUME CtInv, agTodo' \in 0..AgMaxCalls, agClock' \in Nat,
         agClock' + agTodo' * AgCallTime <= agClock + agTodo * AgCallTime
  PROVE  \A d \in CtSearchTimes : LongestSearch(d) => ClockWithin(d)'
<1> SUFFICES ASSUME NEW d \in CtSearchTimes, LongestSearch(d) PROVE ClockWithin(d)'
  OBVIOUS
<1>1. ClockWithin(d) /\ agClock \in Nat /\ agTodo \in 0..AgMaxCalls
  BY DEF CtInv, CtTypeOK, AgTypeOK
<1>2. agTodo * AgCallTime \in Nat /\ agTodo' * AgCallTime \in Nat
  BY <1>1, CallsCost
<1>3. PICK x \in Nat, y \in Nat : x = agTodo * AgCallTime /\ y = agTodo' * AgCallTime
  BY <1>2
<1>4. BudgetEnd(d) \in Nat /\ AgMaxCalls * AgCallTime \in Nat
  BY <1>1, CallsCost, ChatAssumption DEF BudgetEnd
<1>5. PICK o \in Nat : o = Overrun + BudgetEnd(d)
  BY <1>4 DEF Overrun
<1>6. agClock + x <= o /\ agClock' + y <= agClock + x
  BY <1>1, <1>3, <1>5 DEF ClockWithin
<1>7. agClock' + y <= o
  <2>1. agClock' + y \in Nat /\ agClock + x \in Nat
    BY <1>1, SumOfNaturals
  <2>2. QED
    BY <1>6, <2>1, TimeBound
<1>8. QED
  BY <1>3, <1>5, <1>7 DEF ClockWithin, Overrun, BudgetEnd

\* A step that starts a round, or nothing, before the budget's end.
LEMMA ClockStarted ==
  ASSUME CtInv, agTodo' \in 0..AgMaxCalls, agClock' \in Nat, agClock' <= CtTurn + 1
  PROVE  \A d \in CtSearchTimes : LongestSearch(d) => ClockWithin(d)'
<1> SUFFICES ASSUME NEW d \in CtSearchTimes, LongestSearch(d) PROVE ClockWithin(d)'
  OBVIOUS
<1>1. PICK y \in Nat, m \in Nat : /\ y = agTodo' * AgCallTime /\ m = AgMaxCalls * AgCallTime
                                  /\ y <= m
  BY CallsCost
<1>2. BudgetEnd(d) \in Nat /\ CtTurn <= BudgetEnd(d) /\ CtTurn \in Nat
  BY ChatAssumption DEF BudgetEnd
<1>3. agClock' + y <= 1 + m + BudgetEnd(d)
  BY <1>1, <1>2
<1>4. QED
  BY <1>1, <1>3 DEF ClockWithin, Overrun, BudgetEnd

LEMMA CtInvStep == CtInv /\ [CtNext]_ctVars => CtInv'
<1> SUFFICES ASSUME CtInv, [CtNext]_ctVars PROVE CtInv'
  OBVIOUS
<1> USE AgentAssumption, ChatAssumption
<1>1. CtTypeOK /\ AgTypeOK /\ agClock \in Nat /\ agTodo \in 0..AgMaxCalls
  BY DEF CtInv, CtTypeOK, AgTypeOK
<1>2. agTodo * AgCallTime \in Nat
  BY <1>1, CallsCost
\* What leaves the clock and the round alone leaves them in bounds.
<1>3. ASSUME agClock' = agClock, agTodo' = agTodo
      PROVE  \A d \in CtSearchTimes : LongestSearch(d) => ClockWithin(d)'
  BY <1>1, <1>2, <1>3, ClockSpent
<1> DEFINE Rest == /\ CtTypeOK' /\ agDeadline' <= CtTurn
                   /\ ctPc' = "search" => agClock' = 0
                   /\ ctPc' \in {"search", "qwen"} => agPc' = "idle"
                   /\ agPc' # "tools" => agTodo' = 0
                   /\ agPc' \in {"poll", "tools"} => agRounds' <= AgMaxRounds
                   /\ agAnswer' = "tool" => agExecutor'
                   /\ EvidenceShown'
<1> DEFINE InTime == \A d \in CtSearchTimes : LongestSearch(d) => ClockWithin(d)'
<1>4. CASE QwenSettles
  <2>1. Rest
    BY <1>1, <1>4 DEF QwenSettles, CtInv, CtTypeOK, AgTypeOK, agVars, agOwn,
                      EvidenceShown, Evidence
  <2>2. InTime
    BY <1>3, <1>4 DEF QwenSettles, agVars, agOwn
  <2>3. QED
    BY <2>1, <2>2 DEF CtInv, LongestSearch
<1>5. CASE Search
  <2>1. Rest
    BY <1>1, <1>5 DEF Search, CtInv, CtTypeOK, AgTypeOK, agVars, agOwn,
                      EvidenceShown, Evidence, Members
  <2>2. InTime
    <3>1. PICK e \in CtSearchTimes : agClock' = agClock + e
      BY <1>5 DEF Search
    <3>2. agClock = 0 /\ agTodo' = 0 /\ e \in Nat
      BY <1>5 DEF Search, CtInv, agOwn
    <3>3. ASSUME NEW d \in CtSearchTimes, LongestSearch(d) PROVE ClockWithin(d)'
      <4>1. 0 * AgCallTime = 0 /\ AgMaxCalls * AgCallTime \in Nat
        BY <3>2, CallsCost, ProductOfNaturals
      <4>2. e <= d /\ d \in Nat
        BY <3>3 DEF LongestSearch
      <4>3. agClock' + 0 * AgCallTime <= Overrun + BudgetEnd(d)
        BY <3>1, <3>2, <4>1, <4>2 DEF Overrun, BudgetEnd
      <4>4. QED
        BY <3>2, <4>3 DEF ClockWithin, Overrun, BudgetEnd
    <3>4. QED
      BY <3>3
  <2>3. QED
    BY <2>1, <2>2 DEF CtInv, LongestSearch
<1>6. CASE CollectQwen
  <2>1. TeamDeadline \in Nat /\ TeamDeadline <= CtTurn
    BY TeamHasLess
  <2>2. Rest
    BY <1>1, <1>6, <2>1 DEF CollectQwen, CtInv, CtTypeOK, AgTypeOK, agVars, agOwn,
                            EvidenceShown, Evidence, Members
  <2>3. InTime
    <3>1. agTodo' = 0 /\ agTodo = 0
      BY <1>6 DEF CollectQwen, CtInv, agOwn
    <3>2. agClock' = agClock \/ agClock' = TeamDeadline
      BY <1>6 DEF CollectQwen
    <3>3. CASE agClock' = agClock
      BY <1>3, <3>1, <3>3
    <3>4. CASE agClock' = TeamDeadline
      <4>1. agClock' \in Nat /\ agClock' <= CtTurn + 1 /\ agTodo' \in 0..AgMaxCalls
        BY <2>1, <3>1, <3>4
      <4>2. QED
        BY <4>1, ClockStarted
    <3>5. QED
      BY <3>2, <3>3, <3>4
  <2>4. QED
    BY <2>2, <2>3 DEF CtInv, LongestSearch
<1>7. CASE StartFinal
  <2>1. Rest
    <3>1. CASE agClock < CtTurn
      BY <1>1, <1>7, <3>1 DEF StartFinal, BeginRun, CtInv, CtTypeOK, AgTypeOK, agVars, agOwn,
                              EvidenceShown, Evidence, Members
    <3>2. CASE ~(agClock < CtTurn)
      BY <1>1, <1>7, <3>2 DEF StartFinal, CtInv, CtTypeOK, AgTypeOK, agVars, agOwn,
                              EvidenceShown, Evidence, Members, Summary
    <3>3. QED
      BY <3>1, <3>2
  <2>2. InTime
    BY <1>3, <1>7 DEF StartFinal, BeginRun, agVars, agOwn, CtInv
  <2>3. QED
    BY <2>1, <2>2 DEF CtInv, LongestSearch
<1>8. CASE EndFinal
  <2>1. Rest
    BY <1>1, <1>8 DEF EndFinal, CtInv, CtTypeOK, AgTypeOK, agVars, agOwn,
                      EvidenceShown, Evidence, Members, Summary, Shown
  <2>2. InTime
    BY <1>3, <1>8 DEF EndFinal, agVars, agOwn
  <2>3. QED
    BY <2>1, <2>2 DEF CtInv, LongestSearch
<1>9. CASE Raise
  <2>1. Rest
    BY <1>1, <1>9 DEF Raise, CtInv, CtTypeOK, AgTypeOK, agVars, agOwn,
                      EvidenceShown, Evidence, Members
  <2>2. InTime
    BY <1>3, <1>9 DEF Raise, agVars, agOwn
  <2>3. QED
    BY <2>1, <2>2 DEF CtInv, LongestSearch
<1>10. ASSUME NEW m \in {"functions", "analyzer"}, StartMember(m) PROVE CtInv'
  <2>1. TeamDeadline \in Nat /\ TeamDeadline <= CtTurn
    BY TeamHasLess
  <2>2. Rest
    <3>1. CASE agClock < TeamDeadline
      BY <1>1, <1>10, <2>1, <3>1 DEF StartMember, BeginRun, CtInv, CtTypeOK, AgTypeOK,
                                     agVars, agOwn, EvidenceShown, Evidence, Members
    <3>2. CASE ~(agClock < TeamDeadline)
      BY <1>1, <1>10, <3>2 DEF StartMember, After, CtInv, CtTypeOK, AgTypeOK, agVars, agOwn,
                               EvidenceShown, Evidence, Members
    <3>3. QED
      BY <3>1, <3>2
  <2>3. InTime
    BY <1>3, <1>10 DEF StartMember, BeginRun, agVars, agOwn, CtInv
  <2>4. QED
    BY <2>2, <2>3 DEF CtInv, LongestSearch
<1>11. ASSUME NEW m \in {"functions", "analyzer"}, EndMember(m) PROVE CtInv'
  <2>1. Rest
    BY <1>1, <1>11 DEF EndMember, After, CtInv, CtTypeOK, AgTypeOK, agVars, agOwn,
                       EvidenceShown, Evidence, Members
  <2>2. InTime
    BY <1>3, <1>11 DEF EndMember
  <2>3. QED
    BY <2>1, <2>2 DEF CtInv, LongestSearch
<1>12. ASSUME ctPc \in {"functions", "analyzer", "final"}, AgStep,
              UNCHANGED <<ctPc, ctSources, ctQwen, ctAnswer>>
       PROVE  CtInv'
  <2>1. EvidenceShown' /\ ctPc' = ctPc
    BY <1>12 DEF EvidenceShown
  <2> DEFINE Run == /\ AgTypeOK' /\ agDeadline' <= CtTurn
                    /\ agPc' # "tools" => agTodo' = 0
                    /\ agPc' \in {"poll", "tools"} => agRounds' <= AgMaxRounds
                    /\ agAnswer' = "tool" => agExecutor'
  <2>2. CASE GiveUp
    <3>1. Run
      BY <1>1, <2>2 DEF GiveUp, CtInv, AgTypeOK
    <3>2. InTime
      BY <1>3, <2>2 DEF GiveUp
    <3>3. QED
      BY <1>1, <1>12, <2>1, <3>1, <3>2 DEF CtInv, LongestSearch, CtTypeOK
  <2>3. CASE Poll
    <3>1. Run
      BY <1>1, <2>3 DEF Poll, CtInv, AgTypeOK
    <3>2. InTime
      <4>1. agClock' \in Nat /\ agClock' <= CtTurn + 1 /\ agTodo' \in 0..AgMaxCalls
        BY <1>1, <2>3, <3>1 DEF Poll, CtInv, AgTypeOK
      <4>2. QED
        BY <4>1, ClockStarted
    <3>3. QED
      BY <1>1, <1>12, <2>1, <3>1, <3>2 DEF CtInv, LongestSearch, CtTypeOK
  <2>4. CASE CallReturns
    <3>0. agClock' \in Nat /\ agClock' <= agClock + AgCallTime
      <4>1. PICK e \in {0, AgCallTime - 1} : agClock' = agClock + e
        BY <2>4 DEF CallReturns
      <4>2. AgCallTime \in Nat /\ AgCallTime # 0
        OBVIOUS
      <4>3. e \in Nat /\ e <= AgCallTime
        BY <4>2
      <4>4. QED
        BY <1>1, <4>1, <4>2, <4>3
    <3>1. Run
      <4>1. PICK output \in {"", "tool"} : Returned(output)
        BY <2>4 DEF CallReturns
      <4>2. agPc = "tools" /\ agTodo > 0 /\ agExecutor /\ UNCHANGED <<agBusy, agQueued>>
        BY <2>4 DEF CallReturns
      <4>3. agTodo' = agTodo - 1 /\ UNCHANGED <<agPc, agRounds, agExecutor, agDeadline>>
        BY <4>1 DEF Returned
      <4>4. agAnswer' \in {"none", "tool", "reply"}
        BY <1>1, <4>1 DEF Returned, AgTypeOK
      <4>5. agTodo' \in 0..AgMaxCalls
        BY <1>1, <4>2, <4>3, OneCallLess
      <4>6. AgTypeOK'
        BY <1>1, <3>0, <4>2, <4>3, <4>4, <4>5 DEF AgTypeOK
      <4>7. QED
        BY <4>2, <4>3, <4>6 DEF CtInv
    <3>2. InTime
      <4>0. agTodo' = agTodo - 1 /\ agTodo > 0
        BY <2>4 DEF CallReturns, Returned
      <4>1. /\ agTodo' = agTodo - 1 /\ agTodo > 0 /\ agClock' \in Nat
            /\ agClock' <= agClock + AgCallTime /\ agTodo' \in 0..AgMaxCalls
        BY <1>1, <3>0, <4>0, OneCallLess
      <4>2. PICK x \in Nat, y \in Nat : /\ x = agTodo * AgCallTime /\ y = agTodo' * AgCallTime
                                        /\ x = y + AgCallTime
        BY <1>1, <4>1, CallsCost
      <4>3. agClock' + y <= agClock + x
        BY <1>1, <4>1, <4>2, TimeOfCall
      <4>4. QED
        BY <4>1, <4>2, <4>3, ClockSpent
    <3>3. QED
      BY <1>1, <1>12, <2>1, <3>1, <3>2 DEF CtInv, LongestSearch, CtTypeOK
  <2>5. CASE CallTimesOut
    <3>1. Run
      BY <1>1, <2>5 DEF CallTimesOut, Returned, CtInv, AgTypeOK
    <3>2. InTime
      <4>1. /\ agTodo' = agTodo - 1 /\ agTodo > 0 /\ agClock' \in Nat
            /\ agClock' <= agClock + AgCallTime /\ agTodo' \in 0..AgMaxCalls
        BY <1>1, <2>5 DEF CallTimesOut, Returned
      <4>2. PICK x \in Nat, y \in Nat : /\ x = agTodo * AgCallTime /\ y = agTodo' * AgCallTime
                                        /\ x = y + AgCallTime
        BY <1>1, <4>1, CallsCost
      <4>3. agClock' + y <= agClock + x
        BY <1>1, <4>1, <4>2, TimeOfCall
      <4>4. QED
        BY <4>1, <4>2, <4>3, ClockSpent
    <3>3. QED
      BY <1>1, <1>12, <2>1, <3>1, <3>2 DEF CtInv, LongestSearch, CtTypeOK
  <2>6. CASE SubmitOutputs
    <3>1. Run
      BY <1>1, <2>6 DEF SubmitOutputs, CtInv, AgTypeOK
    <3>2. InTime
      BY <1>3, <2>6 DEF SubmitOutputs
    <3>3. QED
      BY <1>1, <1>12, <2>1, <3>1, <3>2 DEF CtInv, LongestSearch, CtTypeOK
  <2>7. CASE ReadAnswer
    <3>1. Run
      BY <1>1, <2>7 DEF ReadAnswer, CtInv, AgTypeOK
    <3>2. InTime
      BY <1>3, <2>7 DEF ReadAnswer
    <3>3. QED
      BY <1>1, <1>12, <2>1, <3>1, <3>2 DEF CtInv, LongestSearch, CtTypeOK
  <2>8. CASE CallSkipped
    <3>0. /\ agPc = "tools" /\ agTodo > 0 /\ agTodo' = agTodo - 1
          /\ UNCHANGED <<agPc, agRounds, agExecutor, agAnswer, agDeadline, agClock, agBusy, agQueued>>
      BY <2>8 DEF CallSkipped, Returned
    <3>1. Run
      <4>1. agTodo' \in 0..AgMaxCalls
        BY <1>1, <3>0, OneCallLess
      <4>2. QED
        BY <1>1, <3>0, <4>1 DEF CtInv, AgTypeOK
    <3>2. InTime
      <4>1. /\ agTodo' = agTodo - 1 /\ agTodo > 0 /\ agClock' \in Nat
            /\ agClock' = agClock /\ agTodo' \in 0..AgMaxCalls /\ AgCallTime \in Nat
        BY <1>1, <3>0, OneCallLess
      <4>2. PICK x \in Nat, y \in Nat : /\ x = agTodo * AgCallTime /\ y = agTodo' * AgCallTime
                                        /\ x = y + AgCallTime
        BY <1>1, <4>1, CallsCost
      <4>3. agClock' + y <= agClock + x
        BY <1>1, <4>1, <4>2
      <4>4. QED
        BY <4>1, <4>2, <4>3, ClockSpent
    <3>3. QED
      BY <1>1, <1>12, <2>1, <3>1, <3>2 DEF CtInv, LongestSearch, CtTypeOK
  <2>9. QED
    BY <1>12, <2>2, <2>3, <2>4, <2>5, <2>6, <2>7, <2>8 DEF AgStep
<1>13. ASSUME WorkerTaken \/ WorkerFreed, UNCHANGED <<ctPc, ctSources, ctQwen, ctAnswer>>
       PROVE  CtInv'
  <2>1. Rest
    BY <1>1, <1>13 DEF WorkerTaken, WorkerFreed, CtInv, CtTypeOK, AgTypeOK, agOwn,
                       EvidenceShown, Evidence
  <2>2. InTime
    BY <1>3, <1>13 DEF WorkerTaken, WorkerFreed, agOwn
  <2>3. QED
    BY <2>1, <2>2 DEF CtInv, LongestSearch
<1>14. CASE UNCHANGED ctVars
  <2>1. Rest
    BY <1>1, <1>14 DEF ctVars, agVars, agOwn, CtInv, CtTypeOK, AgTypeOK, EvidenceShown, Evidence
  <2>2. InTime
    BY <1>3, <1>14 DEF ctVars, agVars, agOwn
  <2>3. QED
    BY <2>1, <2>2 DEF CtInv, LongestSearch
<1>15. QED
  BY <1>4, <1>5, <1>6, <1>7, <1>8, <1>9, <1>10, <1>11, <1>12, <1>13, <1>14 DEF CtNext, TurnSteps

LEMMA CtInvKeeps == CtInv => TurnEndsInTime /\ EvidenceShown
<1> SUFFICES ASSUME CtInv, NEW d \in CtSearchTimes, \A e \in CtSearchTimes : e <= d
             PROVE  agClock <= Overrun + (IF d > CtTurn THEN d ELSE CtTurn)
  BY DEF CtInv, TurnEndsInTime
<1>1. ClockWithin(d) /\ agClock \in Nat /\ agTodo \in 0..AgMaxCalls
  BY DEF CtInv, LongestSearch, CtTypeOK, AgTypeOK
<1>2. agTodo * AgCallTime \in Nat /\ AgMaxCalls * AgCallTime \in Nat
  BY <1>1, CallsCost
<1>3. PICK x \in Nat : x = agTodo * AgCallTime
  BY <1>2
<1>4. PICK o \in Nat : o = Overrun + BudgetEnd(d)
  BY <1>2, AgentAssumption, ChatAssumption DEF Overrun, BudgetEnd
<1>5. agClock <= o
  BY <1>1, <1>3, <1>4 DEF ClockWithin
<1>6. QED
  BY <1>4, <1>5 DEF BudgetEnd


-----------------------------------------------------------------------------
(***************************************************************************)
(* AnalysisRuns.  A row, and every copy of it that a view or a task keeps, *)
(* points at runs that stay as they are: one whose results are reported is *)
(* not run again, and one whose trace is given has written all of it.  So  *)
(* whichever copy is saved, what it says together is still true.           *)
(***************************************************************************)
Reported == {"comment", "trace", "done", "lost"}

ResultsOf(row) ==
    IF row.results = NoRun THEN row.count = 0
    ELSE anAt[row.results] \in Reported /\ row.count = anMade[row.results].count

TraceOf(row) ==
    row.trace # NoRun =>
        anAt[row.trace] = "done" /\ anStored[row.trace] = anMade[row.trace].events

\* Some request has got as far as one of these steps.
Someone(steps) == \E r \in AnRequests : anAt[r] \in steps
Waiting == {"fetched", "saved", "refused", "queued", "loaded", "raised", "lost"}
Working == {"routines", "results", "failing", "raised", "lost"}

AnStatus ==
    /\ anRow.status = "completed" => ~anRow.error
    /\ anRow.status = "failed" => anRow.error
    /\ anRow.status = "pending" => Someone(Waiting)
    /\ anRow.status = "processing" => Someone(Working)

AnPoints ==
    /\ ResultsOf(anRow) /\ TraceOf(anRow)
    /\ \A r \in AnRequests : ResultsOf(anCopy[r]) /\ TraceOf(anCopy[r])

AnTold ==
    /\ \A r \in AnRequests : anAt[r] = "trace" => anStored[r] = anMade[r].events
    /\ \A s \in anRollups : anAt[s.trace] = "done" /\ s.events = anMade[s.trace].events

AnInv == AnTypeOK /\ AnStatus /\ AnPoints /\ AnTold

LEMMA AnInvSound == AnInv => AnalysesAddUp /\ TraceIsWhole
<1> SUFFICES ASSUME AnInv PROVE AnalysesAddUp /\ TraceIsWhole
  OBVIOUS
<1>1. anRow \in Rows /\ anRow.results \in Runs /\ anRow.trace \in Runs
  BY DEF AnInv, AnTypeOK, Rows
<1>2. anRow.count = IF anRow.results = NoRun THEN 0 ELSE anMade[anRow.results].count
  BY DEF AnInv, AnPoints, ResultsOf
<1>3. (\A r \in AnRequests : anAt[r] \in {"new", "refused", "done", "failed"}) =>
          /\ anRow.status # "processing"
          /\ anRow.status = "pending" => \E r \in AnRequests : anAt[r] = "refused"
  BY DEF AnInv, AnStatus, Someone, Waiting, Working
<1>4. AnalysesAddUp
  BY <1>2, <1>3 DEF AnalysesAddUp, AnInv, AnStatus
<1>5. TraceIsWhole
  BY DEF TraceIsWhole, AnInv, AnPoints, AnTold, TraceOf
<1>6. QED
  BY <1>4, <1>5

LEMMA AnInvInit == AnInit => AnInv
<1> SUFFICES ASSUME AnInit PROVE AnInv
  OBVIOUS
<1>1. /\ 0 \in 0..AnFrames /\ 0 \in 0..(AnFrames + 1)
  BY AnAssumption
<1>2. Blank \in Rows /\ anRow \in Rows /\ NotMade \in [count : 0..AnFrames, events : 0..AnFrames + 1]
  BY <1>1 DEF AnInit, Blank, Rows, Runs, NotMade
<1>3. AnTypeOK
  BY <1>1, <1>2 DEF AnInit, AnTypeOK
<1>4. /\ anRow.status = "absent" /\ anRow.results = NoRun /\ anRow.count = 0
      /\ anRow.trace = NoRun /\ anRollups = {}
      /\ \A r \in AnRequests : anAt[r] = "new" /\ anCopy[r] = Blank
      /\ Blank.results = NoRun /\ Blank.count = 0 /\ Blank.trace = NoRun
  BY DEF AnInit, Blank
<1>5. QED
  BY <1>3, <1>4 DEF AnInv, AnStatus, AnPoints, AnTold, ResultsOf, TraceOf

\* What is sampled of a video bounds what is counted of it.
LEMMA CountsFit ==
  ASSUME NEW level \in {"frame", "frame_pair", "video"}, NEW sees \in Sights
  PROVE  CountOf(level, sees) \in 0..AnFrames /\ EventsOf(level, sees) \in 0..AnFrames + 1
<1>1. AnFrames \in Nat
  BY AnAssumption
<1>2. IsFiniteSet(1..AnFrames) /\ Cardinality(1..AnFrames) = AnFrames
  <2>1. PICK one, n : one = 1 /\ n = AnFrames /\ one \in Int /\ n \in Int
    BY <1>1
  <2>2. IsFiniteSet(one..n) /\ Cardinality(one..n) = IF one > n THEN 0 ELSE n - one + 1
    BY <2>1, FS_Interval
  <2>3. QED
    BY <1>1, <2>1, <2>2
<1>3. Entries(level) \subseteq 1..AnFrames
  BY <1>1 DEF Entries
<1>4. ASSUME NEW S \in SUBSET (1..AnFrames) PROVE Cardinality(S) \in 0..AnFrames
  <2>1. IsFiniteSet(S) /\ Cardinality(S) <= AnFrames
    BY <1>2, FS_Subset
  <2>2. Cardinality(S) \in Nat
    BY <2>1, FS_CardinalityType
  <2>3. QED
    BY <1>1, <2>1, <2>2
<1>5. CountOf(level, sees) \in 0..AnFrames
  BY <1>3, <1>4 DEF CountOf
<1>6. Cardinality(Entries(level)) \in 0..AnFrames
  BY <1>3, <1>4
<1>7. QED
  BY <1>1, <1>5, <1>6 DEF EventsOf

LEMMA MinOfTwo ==
  ASSUME NEW a \in Nat, NEW b \in Nat
  PROVE  Min({a, b}) \in {a, b} /\ Min({a, b}) <= b
<1>1. PICK m \in {a, b} : \A t \in {a, b} : m <= t
  BY a <= b \/ b <= a
<1>2. Min({a, b}) \in {a, b} /\ \A t \in {a, b} : Min({a, b}) <= t
  BY <1>1 DEF Min
<1>3. QED
  BY <1>2

\* The runs a row points at do not change.
LEMMA PointsStay ==
  ASSUME AnTypeOK, NEW row \in Rows,
         \A r \in AnRequests : anAt[r] \in Reported => anMade'[r] = anMade[r] /\ anAt'[r] \in Reported,
         \A r \in AnRequests : anAt[r] = "done" => anAt'[r] = "done" /\ anStored'[r] = anStored[r]
  PROVE  /\ ResultsOf(row) => ResultsOf(row)'
         /\ TraceOf(row) => TraceOf(row)'
<1>1. row.results \in AnRequests \cup {NoRun} /\ row.trace \in AnRequests \cup {NoRun}
  BY DEF Rows, Runs
<1>2. ResultsOf(row) => ResultsOf(row)'
  BY <1>1 DEF ResultsOf
<1>3. TraceOf(row) => TraceOf(row)'
  BY <1>1 DEF TraceOf, Reported
<1>4. QED
  BY <1>2, <1>3

Steps == {"new", "fetched", "saved", "refused", "queued", "loaded", "routines", "results",
          "comment", "trace", "done", "failing", "failed", "raised", "lost"}

\* One request is taken a step further, the others stay where they are.
LEMMA StepTaken ==
  ASSUME AnTypeOK, NEW r \in AnRequests, NEW x \in Steps, StepTo(r, x)
  PROVE  /\ anAt' \in [AnRequests -> Steps]
         /\ anAt'[r] = x /\ \A q \in AnRequests : q # r => anAt'[q] = anAt[q]
BY DEF AnTypeOK, StepTo, Steps

\* What a step must respect for the row, the copies and the rollups to stay
\* true: the step a request is at only gets further, what its routines made is
\* final once reported, and what is stored is final once the task is done.
Onwards ==
    /\ \A r \in AnRequests : anAt[r] \in Reported => anMade'[r] = anMade[r] /\ anAt'[r] \in Reported
    /\ \A r \in AnRequests : anAt[r] = "done" => anAt'[r] = "done" /\ anStored'[r] = anStored[r]

\* Every row with what it says is as true after such a step.
LEMMA RowStays ==
  ASSUME AnTypeOK, Onwards
  PROVE  \A row \in Rows : /\ ResultsOf(row) => ResultsOf(row)'
                           /\ TraceOf(row) => TraceOf(row)'
BY PointsStay DEF Onwards

\* A row that takes over results and trace of a true one is true.
SameTale(new, old) ==
    new.results = old.results /\ new.count = old.count /\ new.trace = old.trace

LEMMA TaleStays ==
  ASSUME AnTypeOK, Onwards, NEW old \in Rows, ResultsOf(old), TraceOf(old),
         NEW new, SameTale(new, old)
  PROVE  ResultsOf(new)' /\ TraceOf(new)'
<1>1. ResultsOf(old)' /\ TraceOf(old)'
  BY RowStays
<1>2. QED
  BY <1>1 DEF ResultsOf, TraceOf, SameTale

LEMMA RollupsStay ==
  ASSUME AnTypeOK, Onwards, AnTold,
         anRollups' = anRollups,
         \A r \in AnRequests : anAt'[r] = "trace" => anStored'[r] = anMade'[r].events
  PROVE  AnTold'
<1>1. \A s \in anRollups : s.trace \in AnRequests
  BY DEF AnTypeOK
<1>2. ASSUME NEW s \in anRollups PROVE anAt'[s.trace] = "done" /\ s.events = anMade'[s.trace].events
  BY <1>1, <1>2 DEF AnTold, Onwards, Reported
<1>3. QED
  BY <1>2 DEF AnTold

\* A request's step by which nobody waits or works the less.
LEMMA SomeoneStays ==
  ASSUME AnTypeOK, NEW r \in AnRequests, NEW x \in Steps, StepTo(r, x), NEW S,
         anAt[r] \in S => x \in S, Someone(S)
  PROVE  Someone(S)'
BY StepTaken DEF Someone

\* A step that leaves the row, and no request waits or works the less for.
LEMMA StatusStays ==
  ASSUME AnTypeOK, AnStatus, NEW r \in AnRequests, NEW x \in Steps, StepTo(r, x),
         anAt[r] \in Waiting => x \in Waiting, anAt[r] \in Working => x \in Working,
         anRow'.status = anRow.status, anRow'.error = anRow.error
  PROVE  AnStatus'
<1>1. (Someone(Waiting) => Someone(Waiting)') /\ (Someone(Working) => Someone(Working)')
  BY SomeoneStays
<1>2. QED
  BY <1>1 DEF AnStatus, Someone, Waiting, Working

\* Copies that stay, but for one that is told what a true row tells.
LEMMA CopiesStay ==
  ASSUME AnTypeOK, Onwards, AnPoints, NEW r \in AnRequests, NEW old \in Rows,
         ResultsOf(old), TraceOf(old), SameTale(anCopy'[r], old),
         \A q \in AnRequests : q # r => anCopy'[q] = anCopy[q]
  PROVE  \A q \in AnRequests : (ResultsOf(anCopy[q]) /\ TraceOf(anCopy[q]))'
<1> SUFFICES ASSUME NEW q \in AnRequests PROVE (ResultsOf(anCopy[q]) /\ TraceOf(anCopy[q]))'
  OBVIOUS
<1>1. PICK c : c = anCopy'[q]
  OBVIOUS
<1>2. PICK o \in Rows : ResultsOf(o) /\ TraceOf(o) /\ SameTale(c, o)
  <2>1. CASE q = r
    BY <1>1, <2>1
  <2>2. CASE q # r
    <3>1. anCopy[q] \in Rows /\ ResultsOf(anCopy[q]) /\ TraceOf(anCopy[q])
      BY DEF AnTypeOK, AnPoints
    <3>2. SameTale(c, anCopy[q])
      BY <1>1, <2>2 DEF SameTale
    <3>3. QED
      BY <3>1, <3>2
  <2>3. QED
    BY <2>1, <2>2
<1>3. ResultsOf(c)' /\ TraceOf(c)'
  BY <1>2, TaleStays
<1>4. QED
  BY <1>1, <1>3 DEF ResultsOf, TraceOf

LEMMA PointsKept ==
  ASSUME AnTypeOK, Onwards, AnPoints, NEW r \in AnRequests,
         NEW told \in Rows, ResultsOf(told), TraceOf(told), SameTale(anRow', told),
         NEW kept \in Rows, ResultsOf(kept), TraceOf(kept), SameTale(anCopy'[r], kept),
         \A q \in AnRequests : q # r => anCopy'[q] = anCopy[q]
  PROVE  AnPoints'
<1>1. PICK w : w = anRow'
  OBVIOUS
<1>2. ResultsOf(w)' /\ TraceOf(w)'
  BY <1>1, TaleStays
<1>3. \A q \in AnRequests : (ResultsOf(anCopy[q]) /\ TraceOf(anCopy[q]))'
  BY CopiesStay
<1>4. ResultsOf(anRow)' /\ TraceOf(anRow)'
  BY <1>1, <1>2 DEF ResultsOf, TraceOf
<1>5. QED
  BY <1>3, <1>4 DEF AnPoints

\* The steps that leave what was made and stored alone, and the rollups.
LEMMA QuietStep ==
  ASSUME AnTypeOK, AnTold, NEW r \in AnRequests, NEW x \in Steps, StepTo(r, x),
         anAt[r] \in Reported => x \in Reported, anAt[r] # "done",
         x = "trace" => anStored[r] = anMade[r].events,
         UNCHANGED <<anMade, anStored, anRollups>>
  PROVE  Onwards /\ AnTold'
<1>1. /\ anAt'[r] = x /\ \A q \in AnRequests : q # r => anAt'[q] = anAt[q]
  BY StepTaken
<1>2. Onwards
  BY <1>1 DEF Onwards
<1>3. \A q \in AnRequests : anAt'[q] = "trace" => anStored'[q] = anMade'[q].events
  BY <1>1 DEF AnTold
<1>4. QED
  BY <1>2, <1>3, RollupsStay

LEMMA RowsTyped ==
  ASSUME AnTypeOK, NEW r \in AnRequests
  PROVE  /\ anRow \in Rows /\ anCopy[r] \in Rows /\ anMade[r].count \in 0..AnFrames
         /\ NoRun \in Runs /\ r \in Runs /\ Blank \in Rows
         /\ ResultsOf(Blank) /\ TraceOf(Blank)
<1>1. 0 \in 0..AnFrames
  BY AnAssumption
<1>2. Blank \in Rows
  BY <1>1 DEF Blank, Rows, Runs
<1>3. ResultsOf(Blank) /\ TraceOf(Blank)
  BY DEF Blank, ResultsOf, TraceOf
<1>4. QED
  BY <1>2, <1>3 DEF AnTypeOK, Runs

\* A quiet step that leaves the row and the copies as well.
LEMMA StillStep ==
  ASSUME AnInv, NEW r \in AnRequests, NEW x \in Steps, StepTo(r, x),
         anAt[r] \in Reported => x \in Reported, anAt[r] # "done",
         anAt[r] \in Waiting => x \in Waiting, anAt[r] \in Working => x \in Working,
         x = "trace" => anStored[r] = anMade[r].events,
         UNCHANGED <<anRow, anCopy, anMade, anStored, anRollups>>
  PROVE  AnInv'
<1>1. AnTypeOK /\ AnStatus /\ AnPoints /\ AnTold
  BY DEF AnInv
<1>2. Onwards /\ AnTold'
  BY <1>1, QuietStep
<1>3. AnPoints'
  <2>1. /\ anRow \in Rows /\ anCopy[r] \in Rows
        /\ ResultsOf(anRow) /\ TraceOf(anRow) /\ ResultsOf(anCopy[r]) /\ TraceOf(anCopy[r])
    BY <1>1, RowsTyped DEF AnPoints
  <2>2. SameTale(anRow', anRow) /\ SameTale(anCopy'[r], anCopy[r])
    BY DEF SameTale
  <2>3. QED
    BY <1>1, <1>2, <2>1, <2>2, PointsKept
<1>4. AnTypeOK'
  <2>1. anAt' \in [AnRequests -> Steps]
    BY <1>1, StepTaken
  <2>2. QED
    BY <1>1, <2>1 DEF AnTypeOK, Steps
<1>5. AnStatus'
  BY <1>1, StatusStays
<1>6. QED
  BY <1>2, <1>3, <1>4, <1>5 DEF AnInv

LEMMA ViewKeeps ==
  ASSUME AnInv, NEW r \in AnRequests, GetOrCreate(r) \/ SavePending(r) \/ Delay(r)
  PROVE  AnInv'
<1>1. AnTypeOK /\ AnStatus /\ AnPoints /\ AnTold
  BY DEF AnInv
<1>2. /\ anRow \in Rows /\ anCopy[r] \in Rows /\ Blank \in Rows
      /\ ResultsOf(Blank) /\ TraceOf(Blank)
      /\ ResultsOf(anRow) /\ TraceOf(anRow) /\ ResultsOf(anCopy[r]) /\ TraceOf(anCopy[r])
  BY <1>1, RowsTyped DEF AnPoints
<1>3. ASSUME GetOrCreate(r), StepTo(r, "fetched"),
             anRow' = IF anRow.status = "absent" THEN Blank ELSE anRow,
             anCopy' = [anCopy EXCEPT ![r] = anRow']
      PROVE  AnInv'
  <2>1. /\ anAt[r] = "new" /\ StepTo(r, "fetched") /\ "fetched" \in Steps
        /\ UNCHANGED <<anMade, anStored, anRollups>>
    BY <1>3 DEF GetOrCreate, Steps
  <2>2. Onwards /\ AnTold'
    BY <1>1, <2>1, QuietStep DEF Reported
  <2>3. PICK o \in Rows : o = anRow' /\ o \in {anRow, Blank} /\ ResultsOf(o) /\ TraceOf(o)
    BY <1>2, <1>3
  <2>4. anCopy' = [anCopy EXCEPT ![r] = o]
    BY <1>3, <2>3
  <2>5. anCopy'[r] = o /\ \A q \in AnRequests : q # r => anCopy'[q] = anCopy[q]
    BY <1>1, <2>4 DEF AnTypeOK
  <2>6. AnPoints'
    <3>1. SameTale(anRow', o) /\ SameTale(anCopy'[r], o)
      BY <2>3, <2>5 DEF SameTale
    <3>2. QED
      BY <1>1, <2>2, <2>3, <2>5, <3>1, PointsKept
  <2>7. AnTypeOK'
    <3>1. anAt' \in [AnRequests -> Steps]
      BY <1>1, <2>1, StepTaken
    <3>2. QED
      BY <1>1, <2>1, <2>3, <2>4, <3>1 DEF AnTypeOK, Steps
  <2>8. AnStatus'
    <3>1. CASE o = anRow
      <4>1. anRow'.status = anRow.status /\ anRow'.error = anRow.error
        BY <2>3, <3>1
      <4>2. QED
        BY <1>1, <2>1, <4>1, StatusStays DEF Waiting, Working
    <3>2. CASE o = Blank
      <4>1. anRow'.status = "pending" /\ anAt'[r] = "fetched"
        BY <1>1, <2>1, <2>3, <3>2, StepTaken DEF Blank
      <4>2. QED
        BY <4>1 DEF AnStatus, Someone, Waiting
    <3>3. QED
      BY <2>3, <3>1, <3>2
  <2>9. QED
    BY <2>2, <2>6, <2>7, <2>8 DEF AnInv
<1>4. ASSUME SavePending(r), StepTo(r, "saved"),
             anRow' = [anCopy[r] EXCEPT !.status = "pending", !.error = FALSE]
      PROVE  AnInv'
  <2>1. /\ anAt[r] = "fetched" /\ StepTo(r, "saved") /\ "saved" \in Steps
        /\ anCopy' = anCopy
        /\ UNCHANGED <<anMade, anStored, anRollups>>
    BY <1>4 DEF SavePending, Steps
  <2>2. Onwards /\ AnTold'
    BY <1>1, <2>1, QuietStep DEF Reported
  <2>3. anRow' = [anCopy[r] EXCEPT !.status = "pending", !.error = FALSE]
    BY <1>4
  <2>4. /\ anRow' \in Rows /\ anRow'.status = "pending" /\ SameTale(anRow', anCopy[r])
        /\ SameTale(anCopy'[r], anCopy[r])
    BY <1>2, <2>1, <2>3 DEF Rows, SameTale
  <2>5. AnPoints'
    BY <1>1, <1>2, <2>1, <2>2, <2>4, PointsKept
  <2>6. AnTypeOK' /\ anAt'[r] = "saved"
    <3>1. anAt' \in [AnRequests -> Steps] /\ anAt'[r] = "saved"
      BY <1>1, <2>1, StepTaken
    <3>2. QED
      BY <1>1, <2>1, <2>4, <3>1 DEF AnTypeOK, Steps
  <2>7. AnStatus'
    BY <2>4, <2>6 DEF AnStatus, Someone, Waiting
  <2>8. QED
    BY <2>2, <2>5, <2>6, <2>7 DEF AnInv
<1>5. CASE Delay(r)
  <2>1. PICK x \in {"queued", "refused"} : StepTo(r, x)
    BY <1>5 DEF Delay
  <2>2. /\ anAt[r] = "saved" /\ x \in Steps /\ anCopy' = anCopy /\ anRow' = anRow
        /\ UNCHANGED <<anMade, anStored, anRollups>>
    BY <1>5 DEF Delay, Steps
  <2>3. Onwards /\ AnTold'
    BY <1>1, <2>1, <2>2, QuietStep DEF Reported
  <2>4. AnPoints'
    <3>1. SameTale(anRow', anRow) /\ SameTale(anCopy'[r], anCopy[r])
      BY <2>2 DEF SameTale
    <3>2. QED
      BY <1>1, <1>2, <2>2, <2>3, <3>1, PointsKept
  <2>5. AnTypeOK'
    <3>1. anAt' \in [AnRequests -> Steps]
      BY <1>1, <2>1, <2>2, StepTaken
    <3>2. QED
      BY <1>1, <2>2, <3>1 DEF AnTypeOK, Steps
  <2>6. AnStatus'
    BY <1>1, <2>1, <2>2, StatusStays DEF Waiting, Working
  <2>7. QED
    BY <2>3, <2>4, <2>5, <2>6 DEF AnInv
<1>6. ASSUME GetOrCreate(r) \/ SavePending(r), StepTo(r, "refused"), UNCHANGED <<anRow, anCopy>>
      PROVE  AnInv'
  <2>1. /\ anAt[r] \in {"new", "fetched"} /\ "refused" \in Steps
        /\ UNCHANGED <<anRow, anCopy, anMade, anStored, anRollups>>
    BY <1>6 DEF GetOrCreate, SavePending, Steps
  <2>2. QED
    BY <1>6, <2>1, StillStep DEF Reported, Waiting, Working
<1>7. QED
  <2>1. CASE GetOrCreate(r)
    BY <1>3, <1>6, <2>1 DEF GetOrCreate
  <2>2. CASE SavePending(r)
    <3>1. anCopy' = anCopy
      BY <2>2 DEF SavePending
    <3>2. QED
      BY <1>4, <1>6, <2>2, <3>1 DEF SavePending
  <2>3. QED
    BY <1>5, <2>1, <2>2

LEMMA LoadKeeps ==
  ASSUME AnInv, NEW r \in AnRequests, Load(r) \/ MarkProcessing(r)
  PROVE  AnInv'
<1>1. AnTypeOK /\ AnStatus /\ AnPoints /\ AnTold
  BY DEF AnInv
<1>2. /\ anRow \in Rows /\ anCopy[r] \in Rows
      /\ ResultsOf(anRow) /\ TraceOf(anRow) /\ ResultsOf(anCopy[r]) /\ TraceOf(anCopy[r])
  BY <1>1, RowsTyped DEF AnPoints
<1>3. ASSUME Load(r), StepTo(r, "loaded"), anCopy' = [anCopy EXCEPT ![r] = anRow] PROVE AnInv'
  <2>1. /\ anAt[r] = "queued" /\ StepTo(r, "loaded") /\ "loaded" \in Steps
        /\ anRow' = anRow /\ anCopy' = [anCopy EXCEPT ![r] = anRow]
        /\ UNCHANGED <<anMade, anStored, anRollups>>
    BY <1>3 DEF Load, Steps
  <2>2. Onwards /\ AnTold'
    BY <1>1, <2>1, QuietStep DEF Reported
  <2>3. anCopy'[r] = anRow /\ \A q \in AnRequests : q # r => anCopy'[q] = anCopy[q]
    BY <1>1, <2>1 DEF AnTypeOK
  <2>4. AnPoints'
    <3>1. SameTale(anRow', anRow) /\ SameTale(anCopy'[r], anRow)
      BY <2>1, <2>3 DEF SameTale
    <3>2. QED
      BY <1>1, <1>2, <2>2, <2>3, <3>1, PointsKept
  <2>5. AnTypeOK'
    <3>1. anAt' \in [AnRequests -> Steps]
      BY <1>1, <2>1, StepTaken
    <3>2. QED
      BY <1>1, <2>1, <3>1 DEF AnTypeOK, Steps
  <2>6. AnStatus'
    BY <1>1, <2>1, StatusStays DEF Waiting, Working
  <2>7. QED
    BY <2>2, <2>4, <2>5, <2>6 DEF AnInv
<1>4. ASSUME MarkProcessing(r), StepTo(r, "routines"),
             anRow' = [anRow EXCEPT !.status = "processing"],
             anCopy' = [anCopy EXCEPT ![r].status = "processing"]
      PROVE  AnInv'
  <2>1. /\ anAt[r] = "loaded" /\ StepTo(r, "routines") /\ "routines" \in Steps
        /\ anRow' = [anRow EXCEPT !.status = "processing"]
        /\ anCopy' = [anCopy EXCEPT ![r].status = "processing"]
        /\ UNCHANGED <<anMade, anStored, anRollups>>
    BY <1>4 DEF MarkProcessing, Steps
  <2>2. Onwards /\ AnTold'
    BY <1>1, <2>1, QuietStep DEF Reported
  <2>3. PICK c : c = [anCopy[r] EXCEPT !.status = "processing"]
    OBVIOUS
  <2>4. c \in Rows /\ SameTale(c, anCopy[r])
    BY <1>2, <2>3 DEF Rows, SameTale
  <2>5. anCopy' = [anCopy EXCEPT ![r] = c]
    BY <2>1, <2>3
  <2>6. anCopy'[r] = c /\ \A q \in AnRequests : q # r => anCopy'[q] = anCopy[q]
    BY <1>1, <2>5 DEF AnTypeOK
  <2>7. anRow' \in Rows /\ anRow'.status = "processing" /\ SameTale(anRow', anRow)
    BY <1>2, <2>1 DEF Rows, SameTale
  <2>8. AnPoints'
    BY <1>1, <1>2, <2>2, <2>4, <2>6, <2>7, PointsKept
  <2>9. AnTypeOK' /\ anAt'[r] = "routines"
    <3>1. anAt' \in [AnRequests -> Steps] /\ anAt'[r] = "routines"
      BY <1>1, <2>1, StepTaken
    <3>2. anCopy' \in [AnRequests -> Rows]
      BY <1>1, <2>4, <2>5 DEF AnTypeOK
    <3>3. QED
      BY <1>1, <2>1, <2>7, <3>1, <3>2 DEF AnTypeOK, Steps
  <2>10. AnStatus'
    BY <2>7, <2>9 DEF AnStatus, Someone, Working
  <2>11. QED
    BY <2>2, <2>8, <2>9, <2>10 DEF AnInv
<1>5. ASSUME Load(r) \/ MarkProcessing(r), StepTo(r, "raised"), UNCHANGED <<anRow, anCopy>>
      PROVE  AnInv'
  <2>1. /\ anAt[r] \in {"queued", "loaded"} /\ "raised" \in Steps
        /\ UNCHANGED <<anRow, anCopy, anMade, anStored, anRollups>>
    BY <1>5 DEF Load, MarkProcessing, Steps
  <2>2. QED
    BY <1>5, <2>1, StillStep DEF Reported, Waiting, Working
<1>6. QED
  <2>1. CASE Load(r)
    <3>1. anRow' = anRow
      BY <2>1 DEF Load
    <3>2. QED
      BY <1>3, <1>5, <2>1, <3>1 DEF Load
  <2>2. CASE MarkProcessing(r)
    BY <1>4, <1>5, <2>2 DEF MarkProcessing
  <2>3. QED
    BY <2>1, <2>2

LEMMA RoutinesKeep ==
  ASSUME AnInv, NEW r \in AnRequests, RunRoutines(r)
  PROVE  AnInv'
<1>1. AnTypeOK /\ AnStatus /\ AnPoints /\ AnTold
  BY DEF AnInv
<1>2. anAt[r] = "routines" /\ UNCHANGED <<anRow, anCopy, anStored, anRollups>>
  BY DEF RunRoutines
<1>3. CASE StepTo(r, "failing") /\ UNCHANGED anMade
  BY <1>2, <1>3, StillStep DEF Steps, Reported, Waiting, Working
<1>4. ASSUME NEW level \in {"frame", "frame_pair", "video"}, NEW sees \in Sights,
             StepTo(r, "results"),
             anMade' = [anMade EXCEPT ![r] =
                 [count |-> CountOf(level, sees), events |-> EventsOf(level, sees)]]
      PROVE  AnInv'
  <2>1. PICK m \in [count : 0..AnFrames, events : 0..AnFrames + 1] :
            anMade' = [anMade EXCEPT ![r] = m]
    BY <1>4, CountsFit
  <2>2. /\ anMade' \in [AnRequests -> [count : 0..AnFrames, events : 0..AnFrames + 1]]
        /\ \A q \in AnRequests : q # r => anMade'[q] = anMade[q]
    BY <1>1, <2>1 DEF AnTypeOK
  <2>3. /\ anAt' \in [AnRequests -> Steps] /\ anAt'[r] = "results"
        /\ \A q \in AnRequests : q # r => anAt'[q] = anAt[q]
    BY <1>1, <1>4, StepTaken DEF Steps
  <2>4. Onwards
    BY <1>2, <2>2, <2>3 DEF Onwards, Reported
  <2>5. AnTold'
    <3>1. \A q \in AnRequests : anAt'[q] = "trace" => anStored'[q] = anMade'[q].events
      BY <1>1, <1>2, <2>2, <2>3 DEF AnTold
    <3>2. QED
      BY <1>1, <1>2, <2>4, <3>1, RollupsStay
  <2>6. AnPoints'
    <3>1. /\ anRow \in Rows /\ anCopy[r] \in Rows
          /\ ResultsOf(anRow) /\ TraceOf(anRow) /\ ResultsOf(anCopy[r]) /\ TraceOf(anCopy[r])
      BY <1>1, RowsTyped DEF AnPoints
    <3>2. SameTale(anRow', anRow) /\ SameTale(anCopy'[r], anCopy[r])
      BY <1>2 DEF SameTale
    <3>3. QED
      BY <1>1, <1>2, <2>4, <3>1, <3>2, PointsKept
  <2>7. AnTypeOK'
    BY <1>1, <1>2, <2>2, <2>3 DEF AnTypeOK, Steps
  <2>8. AnStatus'
    BY <1>1, <1>2, <1>4, StatusStays DEF Waiting, Working, Steps
  <2>9. QED
    BY <2>5, <2>6, <2>7, <2>8 DEF AnInv
<1>5. QED
  BY <1>3, <1>4 DEF RunRoutines

LEMMA SavesKeep ==
  ASSUME AnInv, NEW r \in AnRequests, SaveResults(r) \/ SaveFailure(r)
  PROVE  AnInv'
<1>1. AnTypeOK /\ AnStatus /\ AnPoints /\ AnTold
  BY DEF AnInv
<1>2. /\ anRow \in Rows /\ anCopy[r] \in Rows /\ anMade[r].count \in 0..AnFrames /\ r \in Runs
      /\ ResultsOf(anRow) /\ TraceOf(anRow) /\ ResultsOf(anCopy[r]) /\ TraceOf(anCopy[r])
  BY <1>1, RowsTyped DEF AnPoints
<1>3. ASSUME SaveResults(r), StepTo(r, "comment"),
             anRow' = [anCopy[r] EXCEPT !.status = "completed", !.error = FALSE,
                                        !.results = r, !.count = anMade[r].count]
      PROVE  AnInv'
  <2>1. /\ anAt[r] = "results" /\ "comment" \in Steps /\ anCopy' = anCopy
        /\ UNCHANGED <<anMade, anStored, anRollups>>
    BY <1>3 DEF SaveResults, Steps
  <2>2. Onwards /\ AnTold'
    BY <1>1, <1>3, <2>1, QuietStep DEF Reported
  <2>3. anAt' \in [AnRequests -> Steps] /\ anAt'[r] = "comment"
    BY <1>1, <1>3, <2>1, StepTaken
  <2>4. /\ anRow' \in Rows /\ anRow'.status = "completed" /\ ~anRow'.error
        /\ anRow'.results = r /\ anRow'.count = anMade[r].count
        /\ anRow'.trace = anCopy[r].trace
    BY <1>2, <1>3 DEF Rows
  <2>5. ResultsOf(anRow)'
    BY <2>1, <2>3, <2>4, AnAssumption DEF ResultsOf, Reported
  <2>6. PICK c \in Rows : c = anCopy[r]
    BY <1>2
  <2>7. TraceOf(anRow)'
    <3>1. TraceOf(c)
      BY <1>2, <2>6
    <3>2. TraceOf(c)'
      BY <1>1, <2>2, <3>1, RowStays
    <3>3. QED
      BY <2>4, <2>6, <3>2 DEF TraceOf
  <2>8. \A q \in AnRequests : (ResultsOf(anCopy[q]) /\ TraceOf(anCopy[q]))'
    <3>1. SameTale(anCopy'[r], anCopy[r])
      BY <2>1 DEF SameTale
    <3>2. QED
      BY <1>1, <1>2, <2>1, <2>2, <3>1, CopiesStay
  <2>9. AnTypeOK'
    BY <1>1, <2>1, <2>3, <2>4 DEF AnTypeOK, Steps
  <2>10. AnStatus'
    BY <2>4 DEF AnStatus
  <2>11. QED
    BY <2>2, <2>5, <2>7, <2>8, <2>9, <2>10 DEF AnInv, AnPoints
<1>4. ASSUME SaveResults(r), StepTo(r, "failing"), anRow' = anRow
      PROVE  AnInv'
  <2>1. /\ anAt[r] = "results" /\ "failing" \in Steps
        /\ UNCHANGED <<anRow, anCopy, anMade, anStored, anRollups>>
    BY <1>4 DEF SaveResults, Steps
  <2>2. QED
    BY <1>4, <2>1, StillStep DEF Reported, Waiting, Working
<1>5. ASSUME SaveFailure(r), StepTo(r, "failed"),
             anRow' = [anRow EXCEPT !.status = "failed", !.error = TRUE]
      PROVE  AnInv'
  <2>1. /\ anAt[r] = "failing" /\ StepTo(r, "failed") /\ "failed" \in Steps
        /\ anRow' = [anRow EXCEPT !.status = "failed", !.error = TRUE] /\ anCopy' = anCopy
        /\ UNCHANGED <<anMade, anStored, anRollups>>
    BY <1>5 DEF SaveFailure, Steps
  <2>2. Onwards /\ AnTold'
    BY <1>1, <2>1, QuietStep DEF Reported
  <2>3. /\ anRow' \in Rows /\ anRow'.status = "failed" /\ anRow'.error
        /\ SameTale(anRow', anRow) /\ SameTale(anCopy'[r], anCopy[r])
    BY <1>2, <2>1 DEF Rows, SameTale
  <2>4. AnPoints'
    BY <1>1, <1>2, <2>1, <2>2, <2>3, PointsKept
  <2>5. AnTypeOK'
    <3>1. anAt' \in [AnRequests -> Steps]
      BY <1>1, <2>1, StepTaken
    <3>2. QED
      BY <1>1, <2>1, <2>3, <3>1 DEF AnTypeOK, Steps
  <2>6. AnStatus'
    BY <2>3 DEF AnStatus
  <2>7. QED
    BY <2>2, <2>4, <2>5, <2>6 DEF AnInv
<1>6. ASSUME SaveFailure(r), StepTo(r, "raised"), anRow' = anRow
      PROVE  AnInv'
  <2>1. /\ anAt[r] = "failing" /\ "raised" \in Steps
        /\ UNCHANGED <<anRow, anCopy, anMade, anStored, anRollups>>
    BY <1>6 DEF SaveFailure, Steps
  <2>2. QED
    BY <1>6, <2>1, StillStep DEF Reported, Waiting, Working
<1>7. QED
  <2>1. CASE SaveResults(r)
    BY <1>3, <1>4, <2>1 DEF SaveResults
  <2>2. CASE SaveFailure(r)
    BY <1>5, <1>6, <2>2 DEF SaveFailure
  <2>3. QED
    BY <2>1, <2>2

LEMMA CommentKeeps ==
  ASSUME AnInv, NEW r \in AnRequests, Comment(r)
  PROVE  AnInv'
<1>1. AnTypeOK /\ AnStatus /\ AnPoints /\ AnTold
  BY DEF AnInv
<1>2. anAt[r] = "comment" /\ UNCHANGED <<anRow, anCopy, anMade, anRollups>>
  BY DEF Comment
<1>3. CASE StepTo(r, "done") /\ UNCHANGED anStored
  BY <1>2, <1>3, StillStep DEF Steps, Reported, Waiting, Working
<1>4. CASE anStored[r] = anMade[r].events /\ StepTo(r, "trace") /\ UNCHANGED anStored
  BY <1>2, <1>4, StillStep DEF Steps, Reported, Waiting, Working
<1>5. ASSUME anAt' = anAt,
             anStored' = [anStored EXCEPT ![r] = Min({@ + AnBatch, anMade[r].events})]
      PROVE  AnInv'
  <2>1. anMade[r].events \in 0..(AnFrames + 1) /\ anStored[r] \in 0..(AnFrames + 1)
    BY <1>1 DEF AnTypeOK
  <2>2. AnFrames \in Nat /\ AnBatch \in Nat
    BY AnAssumption
  <2>3. anStored[r] + AnBatch \in Nat /\ anMade[r].events \in Nat
    BY <2>1, <2>2
  <2>4. PICK n : n = Min({anStored[r] + AnBatch, anMade[r].events})
    OBVIOUS
  <2>5. n \in {anStored[r] + AnBatch, anMade[r].events} /\ n <= anMade[r].events
    BY <2>3, <2>4, MinOfTwo
  <2>6. n \in 0..(AnFrames + 1)
    BY <2>1, <2>2, <2>3, <2>5
  <2>7. anStored' = [anStored EXCEPT ![r] = n]
    BY <1>5, <2>4
  <2>8. /\ anStored' \in [AnRequests -> 0..(AnFrames + 1)]
        /\ \A q \in AnRequests : q # r => anStored'[q] = anStored[q]
    BY <1>1, <2>6, <2>7 DEF AnTypeOK
  <2>9. Onwards
    BY <1>2, <1>5, <2>8 DEF Onwards
  <2>10. AnTold'
    <3>1. \A q \in AnRequests : anAt'[q] = "trace" => anStored'[q] = anMade'[q].events
      BY <1>1, <1>2, <1>5, <2>8 DEF AnTold
    <3>2. QED
      BY <1>1, <1>2, <2>9, <3>1, RollupsStay
  <2>11. AnPoints'
    <3>1. /\ anRow \in Rows /\ anCopy[r] \in Rows
          /\ ResultsOf(anRow) /\ TraceOf(anRow) /\ ResultsOf(anCopy[r]) /\ TraceOf(anCopy[r])
      BY <1>1, RowsTyped DEF AnPoints
    <3>2. SameTale(anRow', anRow) /\ SameTale(anCopy'[r], anCopy[r])
      BY <1>2 DEF SameTale
    <3>3. QED
      BY <1>1, <1>2, <2>9, <3>1, <3>2, PointsKept
  <2>12. AnTypeOK' /\ AnStatus'
    BY <1>1, <1>2, <1>5, <2>8 DEF AnTypeOK, AnStatus, Someone
  <2>13. QED
    BY <2>10, <2>11, <2>12 DEF AnInv
<1>6. QED
  BY <1>3, <1>4, <1>5 DEF Comment

LEMMA TraceKeeps ==
  ASSUME AnInv, NEW r \in AnRequests, SaveTrace(r)
  PROVE  AnInv'
<1>1. AnTypeOK /\ AnStatus /\ AnPoints /\ AnTold
  BY DEF AnInv
<1>2. /\ anAt[r] = "trace" /\ StepTo(r, "done") /\ "done" \in Steps
      /\ UNCHANGED <<anCopy, anMade, anStored, anRollups>>
  BY DEF SaveTrace, Steps
<1>3. CASE anRow' = anRow
  BY <1>2, <1>3, StillStep DEF Reported, Waiting, Working
<1>4. CASE anRow' = [anRow EXCEPT !.trace = r]
  <2>1. /\ anRow \in Rows /\ anCopy[r] \in Rows /\ r \in Runs
        /\ ResultsOf(anRow) /\ TraceOf(anRow) /\ ResultsOf(anCopy[r]) /\ TraceOf(anCopy[r])
    BY <1>1, RowsTyped DEF AnPoints
  <2>2. Onwards /\ AnTold'
    BY <1>1, <1>2, QuietStep DEF Reported
  <2>3. anAt' \in [AnRequests -> Steps] /\ anAt'[r] = "done"
    BY <1>1, <1>2, StepTaken
  <2>4. /\ anRow' \in Rows /\ anRow'.status = anRow.status /\ anRow'.error = anRow.error
        /\ anRow'.results = anRow.results /\ anRow'.count = anRow.count /\ anRow'.trace = r
    BY <1>4, <2>1 DEF Rows
  <2>5. PICK o \in Rows : o = anRow
    BY <2>1
  <2>6. ResultsOf(anRow)'
    <3>1. ResultsOf(o)
      BY <2>1, <2>5
    <3>2. ResultsOf(o)'
      BY <1>1, <2>2, <3>1, RowStays
    <3>3. QED
      BY <2>4, <2>5, <3>2 DEF ResultsOf
  <2>7. TraceOf(anRow)'
    <3>1. anStored[r] = anMade[r].events
      BY <1>1, <1>2 DEF AnTold
    <3>2. QED
      BY <1>2, <2>3, <2>4, <3>1 DEF TraceOf
  <2>8. \A q \in AnRequests : (ResultsOf(anCopy[q]) /\ TraceOf(anCopy[q]))'
    <3>1. SameTale(anCopy'[r], anCopy[r])
      BY <1>2 DEF SameTale
    <3>2. QED
      BY <1>1, <1>2, <2>1, <2>2, <3>1, CopiesStay
  <2>9. AnTypeOK'
    BY <1>1, <1>2, <2>3, <2>4 DEF AnTypeOK, Steps
  <2>10. AnStatus'
    BY <1>1, <1>2, <2>4, StatusStays DEF Waiting, Working
  <2>11. QED
    BY <2>2, <2>6, <2>7, <2>8, <2>9, <2>10 DEF AnInv, AnPoints
<1>5. QED
  BY <1>3, <1>4 DEF SaveTrace

LEMMA SummaryKeeps == AnInv /\ SummariseTrace => AnInv'
<1> SUFFICES ASSUME AnInv, SummariseTrace PROVE AnInv'
  OBVIOUS
<1>1. AnTypeOK /\ AnStatus /\ AnPoints /\ AnTold
  BY DEF AnInv
<1>2. UNCHANGED <<anRow, anAt, anCopy, anMade, anStored>>
  BY DEF SummariseTrace
<1>3. PICK t \in AnRequests :
          /\ t = anRow.trace /\ anAt[t] = "done" /\ anStored[t] = anMade[t].events
          /\ anStored[t] > 0 /\ anStored[t] \in 0..(AnFrames + 1)
          /\ anRollups' = anRollups \cup {[trace |-> t, events |-> anStored[t]]}
  <2>1. anRow.trace \in AnRequests
    BY <1>1 DEF AnTypeOK, Rows, Runs, SummariseTrace
  <2>2. QED
    BY <1>1, <2>1 DEF AnPoints, TraceOf, AnTypeOK, SummariseTrace
<1>4. PICK s : s = [trace |-> t, events |-> anStored[t]]
  OBVIOUS
<1>5. anStored[t] \in 1..(AnFrames + 1)
  BY <1>3, AnAssumption
<1>6. /\ s \in [trace : AnRequests, events : 1..(AnFrames + 1)]
      /\ s.trace = t /\ s.events = anStored[t]
  BY <1>4, <1>5
<1>7. AnTypeOK'
  BY <1>1, <1>2, <1>3, <1>4, <1>6 DEF AnTypeOK
<1>8. AnTold'
  BY <1>1, <1>2, <1>3, <1>4, <1>6 DEF AnTold
<1>9. AnPoints' /\ AnStatus'
  BY <1>1, <1>2 DEF AnPoints, AnStatus, ResultsOf, TraceOf, Someone
<1>10. QED
  BY <1>7, <1>8, <1>9 DEF AnInv

LEMMA AnInvStep == AnInv /\ [AnNext]_anVars => AnInv'
<1> SUFFICES ASSUME AnInv, [AnNext]_anVars PROVE AnInv'
  OBVIOUS
<1>1. ASSUME NEW r \in AnRequests, GetOrCreate(r) \/ SavePending(r) \/ Delay(r)
      PROVE  AnInv'
  BY <1>1, ViewKeeps
<1>2. ASSUME NEW r \in AnRequests, TaskSteps(r) PROVE AnInv'
  BY <1>2, LoadKeeps, RoutinesKeep, SavesKeep, CommentKeeps, TraceKeeps DEF TaskSteps
<1>3. ASSUME NEW r \in AnRequests, WorkerDies(r) PROVE AnInv'
  <2>1. /\ anAt[r] \notin {"done", "new"} /\ StepTo(r, "lost") /\ "lost" \in Steps
        /\ UNCHANGED <<anRow, anCopy, anMade, anStored, anRollups>>
    BY <1>3 DEF WorkerDies, Steps
  <2>2. QED
    BY <2>1, StillStep DEF Reported, Waiting, Working
<1>4. CASE SummariseTrace
  BY <1>4, SummaryKeeps
<1>5. CASE UNCHANGED anVars
  BY <1>5 DEF anVars, AnInv, AnTypeOK, AnStatus, AnPoints, AnTold, ResultsOf, TraceOf, Someone
<1>6. QED
  BY <1>1, <1>2, <1>3, <1>4, <1>5 DEF AnNext

=============================================================================

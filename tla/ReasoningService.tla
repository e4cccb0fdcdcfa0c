-------------------------- MODULE ReasoningService --------------------------
(***************************************************************************)
(* One inference request: _infer, _run_adapter, the timeout runner and the *)
(* fallback to the Azure adapter, which retries its endpoint.  A request   *)
(* runs an adapter at most twice, as call 1 (the model asked for) and call *)
(* 2 (the fallback); each call has a worker thread of its own, which goes  *)
(* on when the request stops waiting for it, and may never end.            *)
(***************************************************************************)
EXTENDS Naturals

CONSTANTS InRetries,   \* AZURE_REASONING_RETRIES
          InFallback   \* AZURE_REASONING_FALLBACK is on

ASSUME InAssumption == InRetries \in Nat /\ InFallback \in BOOLEAN

VARIABLES
    inPc,     \* where the request is
    inModel,  \* "local", "azure", or "fallback": what it asked for
    inCall,   \* the call it is making
    inWorker, \* call -> none | running | ok | unavailable | crash
    inTry,    \* call -> requests its worker sent to the endpoint
    inRecord, \* call -> status of its telemetry record
    inAnswer  \* 0, or the call whose result was sent; or an error

inVars == <<inPc, inModel, inCall, inWorker, inTry, inRecord, inAnswer>>

Calls == {1, 2}
Ended == {"ok", "unavailable", "crash"}

InTypeOK ==
    /\ inPc \in {"start", "get", "wait", "ended", "done"}
    /\ inModel \in {"local", "azure", "fallback"}
    /\ inCall \in Calls
    /\ inWorker \in [Calls -> {"none", "running"} \cup Ended]
    /\ inTry \in [Calls -> 0..(InRetries + 1)]
    /\ inRecord \in [Calls -> {"none", "ok", "timeout"}]
    /\ inAnswer \in {"none", "result_1", "result_2", "503", "500"}

InInit ==
    /\ inPc = "start"
    /\ inModel = "local"
    /\ inCall = 1
    /\ inWorker = [c \in Calls |-> "none"]
    /\ inTry = [c \in Calls |-> 0]
    /\ inRecord = [c \in Calls |-> "none"]
    /\ inAnswer = "none"

Infer ==
    /\ inPc = "start"
    /\ inModel' \in {"local", "azure", "fallback"}
    /\ inPc' = "get"
    /\ UNCHANGED <<inCall, inWorker, inTry, inRecord, inAnswer>>

\* A model that is not registered or cannot be loaded, or whose adapter is
\* not one: no call, no record.
ModelMissing ==
    /\ inPc = "get" /\ inCall = 1
    /\ inPc' = "ended"
    /\ \E r \in {"unavailable", "crash"} : inWorker' = [inWorker EXCEPT ![1] = r]
    /\ UNCHANGED <<inModel, inCall, inTry, inRecord, inAnswer>>

StartWorker ==
    /\ inPc = "get"
    /\ inWorker' = [inWorker EXCEPT ![inCall] = "running"]
    /\ inPc' = "wait"
    /\ UNCHANGED <<inModel, inCall, inTry, inRecord, inAnswer>>

\* A local adapter answers, says it cannot, or raises anything else.
LocalWorker(c) ==
    /\ inWorker[c] = "running" /\ c = 1 /\ inModel = "local"
    /\ \E r \in Ended : inWorker' = [inWorker EXCEPT ![c] = r]
    /\ UNCHANGED <<inPc, inModel, inCall, inTry, inRecord, inAnswer>>

\* One request to the Azure endpoint.  A 4xx is final, anything else is tried
\* again; a body of the wrong shape raises where nothing catches it.
AzureWorker(c) ==
    /\ inWorker[c] = "running" /\ (c = 2 \/ inModel # "local")
    /\ inTry' = [inTry EXCEPT ![c] = @ + 1]
    /\ \/ \E r \in Ended : inWorker' = [inWorker EXCEPT ![c] = r]
       \/ /\ inTry'[c] <= InRetries
          /\ UNCHANGED inWorker
    /\ UNCHANGED <<inPc, inModel, inCall, inRecord, inAnswer>>

Record(status) == inRecord' = [inRecord EXCEPT ![inCall] = status]

Join ==
    /\ inPc = "wait" /\ inWorker[inCall] \in Ended
    /\ inPc' = "ended"
    /\ Record("ok")
    /\ UNCHANGED <<inModel, inCall, inWorker, inTry, inAnswer>>

\* Variant of Timeout: the Azure adapter is trusted with its own timeouts.
TimeoutLocal ==
    /\ inPc = "wait" /\ inWorker[inCall] = "running"
    /\ inModel = "local"
    /\ inPc' = "ended"
    /\ Record("timeout")
    /\ UNCHANGED <<inModel, inCall, inWorker, inTry, inAnswer>>

\* REASONING_TIMEOUT_MS has passed; the worker is left to itself.
Timeout ==
    /\ inPc = "wait" /\ inWorker[inCall] = "running"
    /\ inPc' = "ended"
    /\ Record("timeout")
    /\ UNCHANGED <<inModel, inCall, inWorker, inTry, inAnswer>>

\* How the call ended as its caller saw it, late workers notwithstanding.
Outcome(c) == IF inRecord[c] = "timeout" THEN "unavailable" ELSE inWorker[c]

Finish(a) == inAnswer' = a /\ inPc' = "done" /\ UNCHANGED inCall

Respond ==
    /\ inPc = "ended"
    /\ LET o == Outcome(inCall) IN
       CASE o = "ok" -> Finish(IF inCall = 1 THEN "result_1" ELSE "result_2")
         [] o = "crash" -> Finish("500")
         [] o = "unavailable" ->
              IF inCall = 1 /\ InFallback /\ inModel # "fallback"
              THEN inCall' = 2 /\ inPc' = "get" /\ UNCHANGED inAnswer
              ELSE Finish("503")
    /\ UNCHANGED <<inModel, inWorker, inTry, inRecord>>

InNext ==
    \/ Infer \/ ModelMissing \/ StartWorker \/ Join \/ Timeout \/ Respond
    \/ \E c \in Calls : LocalWorker(c) \/ AzureWorker(c)

\* The request's own thread goes on and its timer fires; a worker need not.
InOwnSteps == StartWorker \/ Join \/ Timeout \/ Respond

InSpec == InInit /\ [][InNext]_inVars /\ WF_inVars(InOwnSteps)

\* A request is answered even when no adapter ever returns.
InferAnswered == inPc # "start" ~> inPc = "done"

\* An answer is the result of a call that the request waited for to its end.
AnswerOfItsCall ==
    /\ inAnswer = "result_1" => inRecord[1] = "ok" /\ inWorker[1] = "ok"
    /\ inAnswer = "result_2" => /\ inRecord[2] = "ok" /\ inWorker[2] = "ok"
                                /\ inRecord[1] # "ok" \/ inWorker[1] = "unavailable"
=============================================================================

------------------------------ MODULE AgentRun ------------------------------
(***************************************************************************)
(* core/azure/agents.py: one run of a Foundry agent, from the thread that  *)
(* is created for it to the answer that is read from it.  The service      *)
(* moves the run; the loop polls it, executes the tool calls it asks for   *)
(* on a pool of workers that all chat requests share, and gives up at a    *)
(* deadline or after too many rounds.  A tool call that overruns its time  *)
(* is abandoned: it keeps its worker, or its place in the pool's queue.    *)
(*                                                                         *)
(* A tool's output is "" when it is empty, "tool" otherwise, error texts   *)
(* included; what repeated failures add to it is wording.  Time is counted *)
(* in units of the loop's sleep.                                           *)
(***************************************************************************)
EXTENDS Naturals

CONSTANTS AgMaxRounds, \* _AGENT_MAX_TOOL_ROUNDS
          AgCallTime,  \* _TOOL_CALL_TIMEOUT_SECONDS
          AgWorkers,   \* threads of _TOOL_CALL_POOL
          AgMaxCalls,  \* bound: tool calls in one round
          AgMaxQueue   \* bound: abandoned calls that wait for a worker

ASSUME AgentAssumption ==
    /\ AgMaxRounds \in Nat /\ AgMaxCalls \in Nat /\ AgMaxQueue \in Nat
    /\ AgCallTime \in Nat \ {0} /\ AgWorkers \in Nat \ {0}

VARIABLES agPc,       \* where the loop is
          agTodo,     \* tool calls of the round not executed yet
          agRounds,   \* rounds of tool calls so far
          agExecutor, \* the run was given a tool executor
          agAnswer,   \* what the run would return now
          agClock,    \* time since the request began
          agDeadline, \* when the run must be given up
          agBusy,     \* workers of the pool that are not free
          agQueued    \* abandoned calls of this request in the pool's queue

agOwn == <<agPc, agTodo, agRounds, agExecutor, agAnswer, agDeadline>>
agVars == <<agOwn, agClock, agBusy, agQueued>>

AgInit ==
    /\ agPc = "idle" /\ agTodo = 0 /\ agRounds = 0 /\ agExecutor = FALSE /\ agAnswer = "none"
    /\ agClock = 0 /\ agDeadline = 0 /\ agBusy = 0 /\ agQueued = 0

\* Create the agent's thread, post the message, create the run.
BeginRun(deadline, executor) ==
    /\ agPc' \in {"poll", "raised"}
    /\ agTodo' = 0 /\ agRounds' = 0 /\ agAnswer' = "none" /\ agDeadline' = deadline
    /\ agExecutor' = executor
    /\ UNCHANGED <<agClock, agBusy, agQueued>>

\* Past the deadline the run is cancelled, and an error of that swallowed.
GiveUp ==
    /\ agPc = "poll" /\ agClock > agDeadline
    /\ agPc' = "read"
    /\ UNCHANGED <<agTodo, agRounds, agExecutor, agAnswer, agClock, agDeadline, agBusy, agQueued>>

\* Variant of Poll: a round that is one too many is executed all the same.
PollOn ==
    /\ agPc = "poll"
    /\ agClock' = agClock + 1
    /\ \/ \E n \in 1..AgMaxCalls :
            agPc' = "tools" /\ agTodo' = n /\ agRounds' = agRounds + 1
       \/ agPc' \in {"poll", "read", "raised"} /\ UNCHANGED <<agTodo, agRounds>>
    /\ UNCHANGED <<agExecutor, agAnswer, agDeadline, agBusy, agQueued>>

\* Sleep and look again: the run goes on, has settled, wants tool calls (none
\* at all is a reason to cancel it, as is one round too many), or the request
\* to the service fails.
Poll ==
    /\ agPc = "poll" /\ agClock <= agDeadline
    /\ agClock' = agClock + 1
    /\ \/ \E n \in 0..AgMaxCalls :
            /\ agRounds' = IF n = 0 THEN agRounds ELSE agRounds + 1
            /\ agTodo' = IF agRounds' > AgMaxRounds THEN 0 ELSE n
            /\ agPc' = IF agTodo' = 0 THEN "read" ELSE "tools"
       \/ agPc' \in {"poll", "read", "raised"} /\ UNCHANGED <<agTodo, agRounds>>
    /\ UNCHANGED <<agExecutor, agAnswer, agDeadline, agBusy, agQueued>>

Returned(output) ==
    /\ agTodo' = agTodo - 1
    /\ agAnswer' = IF output = "" THEN agAnswer ELSE output
    /\ UNCHANGED <<agPc, agRounds, agExecutor, agDeadline>>

\* Without an executor a call is not executed, and its output is empty.
CallSkipped ==
    /\ agPc = "tools" /\ agTodo > 0 /\ ~agExecutor
    /\ Returned("")
    /\ UNCHANGED <<agClock, agBusy, agQueued>>

\* A free worker executes the call and returns, or raises, in time.
CallReturns ==
    /\ agPc = "tools" /\ agTodo > 0 /\ agExecutor /\ agBusy < AgWorkers
    /\ \E output \in {"", "tool"} : Returned(output)
    /\ \E d \in {0, AgCallTime - 1} : agClock' = agClock + d
    /\ UNCHANGED <<agBusy, agQueued>>

\* The call is abandoned, with its worker, or in the queue when all workers
\* were taken; "Error: this tool call took longer" is its output.
CallTimesOut ==
    /\ agPc = "tools" /\ agTodo > 0 /\ agExecutor
    /\ Returned("tool")
    /\ agClock' = agClock + AgCallTime
    /\ IF agBusy < AgWorkers
       THEN agBusy' = agBusy + 1 /\ UNCHANGED agQueued
       ELSE /\ agQueued' = IF agQueued < AgMaxQueue THEN agQueued + 1 ELSE agQueued
            /\ UNCHANGED agBusy

\* Every call of the round has an output: submit them all.
SubmitOutputs ==
    /\ agPc = "tools" /\ agTodo = 0
    /\ agPc' \in {"poll", "raised"}
    /\ UNCHANGED <<agTodo, agRounds, agExecutor, agAnswer, agClock, agDeadline, agBusy, agQueued>>

\* The last message of the assistant, if it wrote one.
ReadAnswer ==
    /\ agPc = "read"
    /\ \/ agPc' = "ended" /\ agAnswer' \in {agAnswer, "reply"}
       \/ agPc' = "raised" /\ UNCHANGED agAnswer
    /\ UNCHANGED <<agTodo, agRounds, agExecutor, agClock, agDeadline, agBusy, agQueued>>

AgStep ==
    GiveUp \/ Poll \/ CallSkipped \/ CallReturns \/ CallTimesOut \/ SubmitOutputs \/ ReadAnswer

\* Another chat request takes a worker, and leaves it to a call that hangs.
WorkerTaken ==
    /\ agBusy < AgWorkers /\ agBusy' = agBusy + 1
    /\ UNCHANGED <<agOwn, agClock, agQueued>>

\* A worker's call returns after all: what waits in the queue is executed,
\* although nobody wants its result any more.
WorkerFreed ==
    /\ agBusy > 0
    /\ IF agQueued > 0 THEN agQueued' = agQueued - 1 /\ UNCHANGED agBusy
                       ELSE agBusy' = agBusy - 1 /\ UNCHANGED agQueued
    /\ UNCHANGED <<agOwn, agClock>>

AgTypeOK ==
    /\ agPc \in {"idle", "poll", "tools", "read", "ended", "raised"}
    /\ agTodo \in 0..AgMaxCalls /\ agRounds \in 0..(AgMaxRounds + 1)
    /\ agExecutor \in BOOLEAN /\ agAnswer \in {"none", "tool", "reply"}
    /\ agClock \in Nat /\ agDeadline \in Nat
    /\ agBusy \in 0..AgWorkers /\ agQueued \in 0..AgMaxQueue
=============================================================================

-------------------------- MODULE MissionExecutor --------------------------
(***************************************************************************)
(* Executor.run_mission (dvsa_api/mcp/executor.py) on one mission.         *)
(*                                                                         *)
(* The runner thread walks the task graph in waves: it marks every ready   *)
(* task "running", hands the wave to a thread pool and waits for all of    *)
(* it.  A pool worker runs _run_task: it tries the candidate agents in     *)
(* order, each up to MaxRetries + 1 times, calling the agent in a daemon   *)
(* thread with a deadline (run_with_timeout).  A call that overruns is     *)
(* abandoned, not stopped: it stays in `live` while the task is retried.   *)
(* An answer sets the node's result and status and may add follow-up tasks *)
(* to the graph.  Another thread may set the cancel flag at any moment,    *)
(* and the mission's deadline may pass at any moment.                      *)
(*                                                                         *)
(* Nothing checks what an agent answers: its status may be any of the      *)
(* executor's own, "pending" and "running" included.  A task whose         *)
(* deadline_ms is not positive is called without a deadline, and a         *)
(* negative backoff_ms makes the first retry raise out of run_mission.     *)
(***************************************************************************)
EXTENDS TaskGraph, Naturals, Sequences

CONSTANTS
    Tasks,           \* every task id a plan or an agent can name
    Templates,       \* planned graphs: records [ids, deps]
    MaxRetries,      \* task.max_retries, per task
    Priority,        \* task.priority, per task (lower is more urgent)
    MaxCandidates,   \* longest list _agent_candidates returns
    MaxConcurrency,  \* MCP_MAX_CONCURRENCY
    FollowupLists,   \* follow-up lists an answer may carry
    NoDeadline,      \* tasks whose deadline_ms is not positive
    AttemptBound,    \* node.attempts is counted up to this bound
    LiveBound        \* an abandoned call beyond these returns at once

\* A follow-up is an entry of an answer's list.  An entry that is not a dict
\* (ok = FALSE) makes _spawn_followups raise.
Followups == [id : Tasks, deps : SUBSET Tasks, ok : BOOLEAN]

ASSUME ExecutorAssumption ==
    /\ IsFiniteSet(Tasks)
    /\ MaxRetries \in [Tasks -> Nat]
    /\ Priority \in [Tasks -> Nat]
    /\ MaxCandidates \in Nat
    /\ MaxConcurrency \in Nat \ {0}
    /\ FollowupLists \subseteq Seq(Followups)
    /\ NoDeadline \subseteq Tasks
    /\ AttemptBound \in Nat \ {0}
    /\ LiveBound \in Nat
    /\ Templates \subseteq [ids : SUBSET Tasks, deps : [Tasks -> SUBSET Tasks]]

VARIABLES
    ids,        \* keys of TaskGraph._nodes
    deps,       \* node.task.depends_on
    status,     \* node.status
    error,      \* node.error, as the branch that wrote it
    attempts,   \* node.attempts
    results,    \* the status in node.result, "none" for None
    upstream,   \* the task's view of its dependencies' results
    phase,      \* where the task's worker is
    total,      \* length of the task's candidate list
    current,    \* index of the candidate being tried
    tries,      \* attempts made on that candidate
    calls,      \* attempts since a worker last took the task (history)
    spawn,      \* follow-ups of the answer still to be added
    live,       \* agent calls of the task still running, abandoned ones too
    pc,         \* where the runner is
    cancel,     \* the shared cancel event
    expired,    \* the mission deadline has passed
    badBackoff, \* mission.backoff_ms is negative: time.sleep raises
    outcome     \* the status run_mission returns

graph   == <<ids, deps>>
node    == <<status, error, attempts, results>>
worker  == <<upstream, phase, total, current, tries, calls, spawn, live>>
control == <<pc, outcome, badBackoff>>
signals == <<cancel, expired>>
vars    == <<ids, deps, status, error, attempts, results, upstream, phase,
             total, current, tries, calls, spawn, live, pc, cancel, expired,
             badBackoff, outcome>>

Errors   == {"none", "cancelled", "mission_timeout", "blocked", "exhausted"}
Phases   == {"idle", "queued", "attempt", "calling", "spawning", "raised"}
Active   == {t \in Tasks : phase[t] \in {"attempt", "calling", "spawning"}}
Outcomes == {"completed", "failed", "partial", "cancelled"}

Init ==
    /\ \E g \in Templates :
        /\ g.ids # {} /\ ValidGraph(g.ids, g.deps)
        /\ ids = g.ids
        /\ deps = [t \in Tasks |-> IF t \in g.ids THEN g.deps[t] ELSE {}]
    /\ status = [t \in Tasks |-> "pending"]
    /\ error = [t \in Tasks |-> "none"]
    /\ attempts = [t \in Tasks |-> 0]
    /\ results = [t \in Tasks |-> "none"]
    /\ upstream = [t \in Tasks |-> {}]
    /\ phase = [t \in Tasks |-> "idle"]
    /\ total = [t \in Tasks |-> 0]
    /\ current = [t \in Tasks |-> 1]
    /\ tries = [t \in Tasks |-> 0]
    /\ calls = [t \in Tasks |-> 0]
    /\ spawn = [t \in Tasks |-> <<>>]
    /\ live = [t \in Tasks |-> 0]
    /\ pc = "loop"
    /\ cancel \in BOOLEAN
    /\ expired = FALSE
    /\ badBackoff \in BOOLEAN
    /\ outcome = "none"
-----------------------------------------------------------------------------
(* The environment of a run: session_manager.send_command sets the cancel  *)
(* event, the clock passes the mission deadline, an abandoned call returns *)
(* and its answer is dropped.                                              *)

Cancel ==
    /\ ~cancel
    /\ cancel' = TRUE
    /\ UNCHANGED <<graph, node, worker, control, expired>>

Expire ==
    /\ ~expired
    /\ expired' = TRUE
    /\ UNCHANGED <<graph, node, worker, control, cancel>>

\* Variant of Abandoned: a late answer is taken for that of the current call.
AnyCall(t) == live[t]

Abandoned(t) == IF phase[t] = "calling" THEN live[t] - 1 ELSE live[t]

LateAnswer(t) ==
    /\ Abandoned(t) > 0
    /\ live' = [live EXCEPT ![t] = @ - 1]
    /\ UNCHANGED <<graph, node, upstream, phase, total, current, tries, calls,
                   spawn, control, signals>>
-----------------------------------------------------------------------------
(* The runner: one evaluation of the while loop of run_mission per action. *)

Ready == ReadyTasks(ids, deps, status)

\* Variants of FailRemaining: tasks that never started are forgotten; every
\* task that is not "completed" is failed, a delegated one too.
FailRunning(reason) ==
    LET Left == {t \in ids : status[t] = "running"} IN
    /\ status' = [t \in Tasks |-> IF t \in Left THEN "failed" ELSE status[t]]
    /\ error' = [t \in Tasks |-> IF t \in Left THEN reason ELSE error[t]]

FailNotCompleted(reason) ==
    LET Left == {t \in ids : status[t] # "completed"} IN
    /\ status' = [t \in Tasks |-> IF t \in Left THEN "failed" ELSE status[t]]
    /\ error' = [t \in Tasks |-> IF t \in Left THEN reason ELSE error[t]]

\* Executor._fail_remaining.
FailRemaining(reason) ==
    LET Left == {t \in ids : status[t] \in {"pending", "running"}} IN
    /\ status' = [t \in Tasks |-> IF t \in Left THEN "failed" ELSE status[t]]
    /\ error' = [t \in Tasks |-> IF t \in Left THEN reason ELSE error[t]]

LoopExit ==
    /\ pc = "loop"
    /\ GraphDone(ids, status) \/ cancel
    /\ pc' = "finish"
    /\ UNCHANGED <<graph, node, worker, signals, badBackoff, outcome>>

\* Variant of LoopTimeout: without the break.
TimeoutNoBreak ==
    /\ pc = "loop"
    /\ ~GraphDone(ids, status) /\ ~cancel
    /\ expired
    /\ FailRemaining("mission_timeout")
    /\ UNCHANGED <<graph, attempts, results, worker, signals, control>>

LoopTimeout ==
    /\ pc = "loop"
    /\ ~GraphDone(ids, status) /\ ~cancel
    /\ expired
    /\ FailRemaining("mission_timeout")
    /\ pc' = "finish"
    /\ UNCHANGED <<graph, attempts, results, worker, signals, badBackoff,
                   outcome>>

\* Variant of LoopBlocked: taken although tasks are ready.
BlockedTooSoon ==
    /\ pc = "loop"
    /\ ~GraphDone(ids, status) /\ ~cancel /\ ~expired
    /\ FailRemaining("blocked")
    /\ pc' = "finish"
    /\ UNCHANGED <<graph, attempts, results, worker, signals, badBackoff,
                   outcome>>

LoopBlocked ==
    /\ pc = "loop"
    /\ ~GraphDone(ids, status) /\ ~cancel /\ ~expired
    /\ Ready = {}
    /\ FailRemaining("blocked")
    /\ pc' = "finish"
    /\ UNCHANGED <<graph, attempts, results, worker, signals, badBackoff,
                   outcome>>

LoopWave ==
    /\ pc = "loop"
    /\ ~GraphDone(ids, status) /\ ~cancel /\ ~expired
    /\ Ready # {}
    /\ status' = [t \in Tasks |-> IF t \in Ready THEN "running" ELSE status[t]]
    /\ phase' = [t \in Tasks |-> IF t \in Ready THEN "queued" ELSE phase[t]]
    /\ pc' = "wave"
    /\ UNCHANGED <<graph, error, attempts, results, upstream, total, current,
                   tries, calls, spawn, live, signals, badBackoff, outcome>>

\* Variant of WaveEnd: the loop goes on as soon as one task of the wave ends.
FirstOfWave ==
    /\ pc = "wave"
    /\ \E t \in ids : phase[t] = "idle" /\ status[t] \in AnswerStatuses
    /\ pc' = "loop"
    /\ UNCHANGED <<graph, node, worker, signals, badBackoff, outcome>>

\* Every future of the wave has completed: the pool is left.
WaveEnd ==
    /\ pc = "wave"
    /\ \A t \in Tasks : phase[t] = "idle"
    /\ pc' = "loop"
    /\ UNCHANGED <<graph, node, worker, signals, badBackoff, outcome>>

\* A future holds an exception: the pool waits for the others, then
\* future.result() raises it out of run_mission.
WaveRaises ==
    /\ pc = "wave"
    /\ \A t \in Tasks : phase[t] \in {"idle", "raised"}
    /\ \E t \in Tasks : phase[t] = "raised"
    /\ pc' = "raised"
    /\ UNCHANGED <<graph, node, worker, signals, badBackoff, outcome>>

Finish ==
    /\ pc = "finish"
    /\ outcome' = MissionStatus(ids, status, cancel)
    /\ pc' = "done"
    /\ UNCHANGED <<graph, node, worker, signals, badBackoff>>
-----------------------------------------------------------------------------
(* A pool worker: _run_task.                                               *)

\* Variant of StartTask: the wave was submitted without being sorted.
StartUnsorted(t) ==
    /\ phase[t] = "queued"
    /\ Cardinality(Active) < MaxConcurrency
    /\ \E n \in 0 .. MaxCandidates : total' = [total EXCEPT ![t] = n]
    /\ upstream' = [upstream EXCEPT ![t] = {d \in deps[t] : results[d] # "none"}]
    /\ phase' = [phase EXCEPT ![t] = "attempt"]
    /\ UNCHANGED <<graph, node, current, tries, calls, spawn, live, control,
                   signals>>

\* A free pool thread takes the next task of the wave; the wave was
\* submitted in priority order.  The candidate list and the upstream results
\* are computed once, before the first attempt.
StartTask(t) ==
    /\ phase[t] = "queued"
    /\ Cardinality(Active) < MaxConcurrency
    /\ \A u \in Tasks : phase[u] = "queued" => Priority[t] <= Priority[u]
    /\ \E n \in 0 .. MaxCandidates : total' = [total EXCEPT ![t] = n]
    /\ upstream' = [upstream EXCEPT ![t] = {d \in deps[t] : results[d] # "none"}]
    /\ phase' = [phase EXCEPT ![t] = "attempt"]
    /\ UNCHANGED <<graph, node, current, tries, calls, spawn, live, control,
                   signals>>

\* _run_task returns: its locals are gone.
Leave(t) ==
    /\ phase' = [phase EXCEPT ![t] = "idle"]
    /\ upstream' = [upstream EXCEPT ![t] = {}]
    /\ total' = [total EXCEPT ![t] = 0]
    /\ current' = [current EXCEPT ![t] = 1]
    /\ tries' = [tries EXCEPT ![t] = 0]
    /\ calls' = [calls EXCEPT ![t] = 0]

GiveUp(t, reason) ==
    /\ status' = [status EXCEPT ![t] = "failed"]
    /\ error' = [error EXCEPT ![t] = reason]
    /\ Leave(t)
    /\ UNCHANGED <<graph, attempts, results, spawn, live, control, signals>>

\* No candidate is left.
Exhausted(t) ==
    /\ phase[t] = "attempt"
    /\ current[t] > total[t]
    /\ GiveUp(t, "exhausted")

\* The cancel flag is read at the top of every attempt.
CancelledAttempt(t) ==
    /\ phase[t] = "attempt"
    /\ current[t] <= total[t]
    /\ cancel
    /\ GiveUp(t, "cancelled")

CallAgent(t) ==
    /\ phase[t] = "attempt"
    /\ current[t] <= total[t]
    /\ ~cancel
    /\ attempts' = [attempts EXCEPT ![t] = IF @ < AttemptBound THEN @ + 1 ELSE @]
    /\ calls' = [calls EXCEPT ![t] = @ + 1]
    /\ tries' = [tries EXCEPT ![t] = @ + 1]
    /\ live' = [live EXCEPT ![t] = @ + 1]
    /\ phase' = [phase EXCEPT ![t] = "calling"]
    /\ UNCHANGED <<graph, status, error, results, upstream, total, current,
                   spawn, control, signals>>

NextCandidate(t) ==
    /\ current' = [current EXCEPT ![t] = @ + 1]
    /\ tries' = [tries EXCEPT ![t] = 0]
    /\ phase' = [phase EXCEPT ![t] = "attempt"]

\* The sleep before a retry, outside the try of _run_task.
Backoff(t) ==
    /\ phase' = [phase EXCEPT ![t] = IF badBackoff THEN "raised" ELSE "attempt"]
    /\ UNCHANGED <<current, tries>>

\* Variant of AfterFailure: one retry too many.
OneMoreRetry(t) ==
    IF tries[t] <= MaxRetries[t] + 1 THEN Backoff(t) ELSE NextCandidate(t)

\* After a timeout or an exception: the same agent again, or the next one.
AfterFailure(t) ==
    IF tries[t] <= MaxRetries[t] THEN Backoff(t) ELSE NextCandidate(t)

\* The agent answers in time: result, then status, as the agent put it, then
\* the follow-ups.
Answer(t, s, followups) ==
    /\ phase[t] = "calling"
    /\ status' = [status EXCEPT ![t] = s]
    /\ results' = [results EXCEPT ![t] = s]
    /\ spawn' = [spawn EXCEPT ![t] = followups]
    /\ live' = [live EXCEPT ![t] = @ - 1]
    /\ phase' = [phase EXCEPT ![t] = "spawning"]
    /\ UNCHANGED <<graph, error, attempts, upstream, total, current, tries,
                   calls, control, signals>>

\* The join times out: the call is abandoned while it runs on.  A call
\* without a deadline runs inline and is never given up.
TimeOut(t) ==
    /\ phase[t] = "calling" /\ t \notin NoDeadline
    /\ AfterFailure(t)
    /\ live' = [live EXCEPT ![t] = IF @ > LiveBound THEN @ - 1 ELSE @]
    /\ UNCHANGED <<graph, node, upstream, total, calls, spawn, control, signals>>

\* The agent raises, or answers something that is not a dict.
Raise(t) ==
    /\ phase[t] = "calling"
    /\ AfterFailure(t)
    /\ live' = [live EXCEPT ![t] = @ - 1]
    /\ UNCHANGED <<graph, node, upstream, total, calls, spawn, control, signals>>

\* AgentUnavailableError: not retried, the next candidate is tried.
Unavailable(t) ==
    /\ phase[t] = "calling"
    /\ NextCandidate(t)
    /\ live' = [live EXCEPT ![t] = @ - 1]
    /\ UNCHANGED <<graph, node, upstream, total, calls, spawn, control, signals>>

\* _spawn_followups adds one entry; a duplicate id is dropped.
SpawnFollowup(t) ==
    /\ phase[t] = "spawning" /\ spawn[t] # <<>>
    /\ LET f == Head(spawn[t]) IN
        /\ f.ok
        /\ IF f.id \in ids
           THEN UNCHANGED graph
           ELSE /\ ids' = ids \cup {f.id}
                /\ deps' = [deps EXCEPT ![f.id] = f.deps]
    /\ spawn' = [spawn EXCEPT ![t] = Tail(@)]
    /\ UNCHANGED <<node, upstream, phase, total, current, tries, calls, live,
                   control, signals>>

\* An entry that is not a dict raises inside the try of _run_task: the
\* attempt counts as failed although the node already holds the answer.
MalformedFollowup(t) ==
    /\ phase[t] = "spawning" /\ spawn[t] # <<>>
    /\ ~Head(spawn[t]).ok
    /\ AfterFailure(t)
    /\ spawn' = [spawn EXCEPT ![t] = <<>>]
    /\ UNCHANGED <<graph, node, upstream, total, calls, live, control, signals>>

TaskEnd(t) ==
    /\ phase[t] = "spawning" /\ spawn[t] = <<>>
    /\ Leave(t)
    /\ UNCHANGED <<graph, node, spawn, live, control, signals>>

\* An agent call ends for its caller: it answers, raises or times out.
CallEnds(t) ==
    \/ \E s \in AnswerStatuses, fs \in FollowupLists : Answer(t, s, fs)
    \/ TimeOut(t)
    \/ Raise(t)
    \/ Unavailable(t)

RunTask(t) ==
    \/ StartTask(t)
    \/ Exhausted(t)
    \/ CancelledAttempt(t)
    \/ CallAgent(t)
    \/ CallEnds(t)
    \/ SpawnFollowup(t)
    \/ MalformedFollowup(t)
    \/ TaskEnd(t)

RunMission ==
    \/ LoopExit
    \/ LoopTimeout
    \/ LoopBlocked
    \/ LoopWave
    \/ WaveEnd
    \/ WaveRaises
    \/ Finish

\* run_mission has returned or raised; the environment may still move.
Ended == pc \in {"done", "raised"}

Returned == Ended /\ UNCHANGED vars

Next ==
    \/ Cancel
    \/ Expire
    \/ \E t \in Tasks : LateAnswer(t)
    \/ RunMission
    \/ \E t \in Tasks : RunTask(t)
    \/ Returned

\* A call that has no deadline may hang for ever.
Unguarded(t) == t \in NoDeadline /\ phase[t] = "calling"

\* Threads keep running, a call with a deadline always ends for its caller
\* and the clock passes the mission's deadline; nothing makes an abandoned
\* call or one without a deadline return, or a cancel arrive.
Fairness ==
    /\ WF_vars(RunMission)
    /\ WF_vars(Expire)
    /\ \A t \in Tasks : WF_vars(~Unguarded(t) /\ RunTask(t))

Spec == Init /\ [][Next]_vars

FairSpec == Spec /\ Fairness
-----------------------------------------------------------------------------
(* Properties.                                                             *)

TypeOK ==
    /\ ids \subseteq Tasks
    /\ deps \in [Tasks -> SUBSET Tasks]
    /\ status \in [Tasks -> Statuses]
    /\ error \in [Tasks -> Errors]
    /\ attempts \in [Tasks -> Nat]
    /\ results \in [Tasks -> AnswerStatuses \cup {"none"}]
    /\ upstream \in [Tasks -> SUBSET Tasks]
    /\ phase \in [Tasks -> Phases]
    /\ total \in [Tasks -> 0 .. MaxCandidates]
    /\ current \in [Tasks -> Nat \ {0}]
    /\ tries \in [Tasks -> Nat]
    /\ calls \in [Tasks -> Nat]
    /\ spawn \in [Tasks -> Seq(Followups)]
    /\ live \in [Tasks -> Nat]
    /\ pc \in {"loop", "wave", "finish", "done", "raised"}
    /\ cancel \in BOOLEAN
    /\ expired \in BOOLEAN
    /\ badBackoff \in BOOLEAN
    /\ outcome \in Outcomes \cup {"none"}

\* An agent is only ever called for a task whose dependencies are all done,
\* and it is handed the result of every one of them (context.upstream).  A
\* dependency cannot be undone later, although an answer with a malformed
\* follow-up list puts a task that is already "completed" back to work, and one
\* that says "pending" puts its task back into a later wave.
AttemptedAfterDeps ==
    \A t \in Tasks :
        /\ attempts[t] > 0 => DepsDone(ids, deps, status, t)
        /\ phase[t] = "calling" => deps[t] \subseteq upstream[t]

\* Each time a worker takes a task it makes at most max_retries + 1 calls per
\* candidate agent, also when an answer is thrown away half-processed and the
\* task is tried again.  A task that was called is queued anew only when the
\* answer it holds says "pending": such an agent may be called without end.
AttemptBudget ==
    \A t \in Tasks :
        /\ calls[t] <= total[t] * (MaxRetries[t] + 1)
        /\ phase[t] = "queued" /\ attempts[t] > 0 => results[t] = "pending"

\* The pool takes a wave in priority order: no task waits in the queue while
\* a less urgent one is being worked on.
PriorityRespected ==
    \A t \in Active, u \in Tasks :
        phase[u] = "queued" => Priority[t] <= Priority[u]

\* A task failed as "blocked by failed dependency" was never attempted and
\* has a dependency that will never be done, with one exception: a task whose
\* agent answered "running" was attempted, had all it needed, and gets the same
\* error when nothing else is ready.
BlockedHasUnmetDependency ==
    \A t \in Tasks : error[t] = "blocked" =>
        IF DepsDone(ids, deps, status, t)
        THEN attempts[t] > 0 /\ results[t] = "running"
        ELSE attempts[t] = 0

\* A mission that was not cancelled leaves no task that looks as if it were
\* still to run, follow-ups added at the last moment included.
NothingLeftPending ==
    pc = "done" /\ outcome # "cancelled" =>
        \A t \in ids : status[t] \notin {"pending", "running"}

SettledStep ==
    \A t \in ids :
        phase[t] = "idle" /\ status[t] \in TerminalStatuses =>
            /\ status'[t] = status[t]
            /\ error'[t] = error[t]
            /\ attempts'[t] = attempts[t]

\* Once its worker has gone, a task that is completed, failed or delegated
\* keeps its status, its error and its count of attempts: not the next waves,
\* not a mission timeout, not an abandoned call that answers late.
SettledTasksStay == [][SettledStep]_vars

\* No call without a deadline hangs for ever.
NoHang == \A t \in NoDeadline : []<>~Unguarded(t)

\* run_mission returns or raises, whatever the agents answer or fail to
\* answer, unless a call that was given no deadline never comes back.
Termination == NoHang => <>Ended

\* A cancel that arrives before run_mission has computed its status makes the
\* mission end as cancelled, unless a call without a deadline never comes back
\* or a retry raises.
CancelIsReported ==
    NoHang => ((cancel /\ pc # "done") ~> (outcome = "cancelled" \/ pc = "raised"))

\* A task as the caller of run_mission sees it: "active" for as long as a
\* worker has it, whatever its status already says.  One that no worker has
\* and whose agent answered "pending" or "running" waits again.
SeenAs(ph, st) ==
    CASE ph # "idle" -> "active"
      [] ph = "idle" /\ st \in {"pending", "running"} -> "waiting"
      [] ph = "idle" /\ st \in DoneStatuses -> "done"
      [] ph = "idle" /\ st = "failed" -> "failed"
      [] OTHER -> "open"

TaskState == [t \in Tasks |-> SeenAs(phase[t], status[t])]

Mission == INSTANCE MissionRun WITH state <- TaskState

\* What a mission promises (MissionRun): a task is worked on only when its
\* dependencies are done, a wave ends before the next begins, the outcome
\* matches the tasks and is final.
ImplementsMissionRun == Mission!Spec
-----------------------------------------------------------------------------
(* What comments and docs of the repository say and the code does not do.  *)

\* planner.py:31 lists the statuses of a node (no "in_progress"), and
\* run_mission is to run a mission "to completion": a mission reported as
\* completed has only completed or delegated tasks.
CompletedMeansAllDone ==
    outcome = "completed" => \A t \in ids : status[t] \in DoneStatuses
=============================================================================

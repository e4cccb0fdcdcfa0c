----------------------------- MODULE TaskGraph -----------------------------
(***************************************************************************)
(* The task graph of a mission (dvsa_api/mcp/planner.py): what a planned   *)
(* graph looks like and the scheduling questions the executor asks of it.  *)
(* A graph is a set of task ids with, for each id, the ids it depends on   *)
(* and the status string its node currently holds.                         *)
(***************************************************************************)
EXTENDS FiniteSets

\* The statuses an agent may put in its answer.  Nothing checks it against
\* adapter_base.TASK_STATUSES: "pending" stands for "ready" as well, which the
\* graph treats alike, and "in_progress" for every value it does not know.
AnswerStatuses ==
    {"completed", "failed", "in_progress", "delegated", "pending", "running"}

\* The executor writes "running" and "failed" itself, and "ready" between two
\* lines of one thread (ready_tasks, then the first loop of _run_wave).
Statuses == AnswerStatuses

\* TaskGraph._is_done: the statuses that satisfy a dependency.
DoneStatuses == {"completed", "delegated"}

\* TaskGraph.is_done: the statuses of a task that needs no more work.
TerminalStatuses == {"completed", "failed", "delegated"}

\* What _assert_acyclic accepts: a set of tasks that all wait on one another
\* would contain, for each of its tasks, a dependency of that task.
Acyclic(ids, deps) ==
    \A S \in SUBSET ids : S # {} => \E t \in S : deps[t] \cap S = {}

\* TaskGraph.validate: every dependency is a task of the graph, no cycle.
ValidGraph(ids, deps) ==
    /\ \A t \in ids : deps[t] \subseteq ids
    /\ Acyclic(ids, deps)

DepsDone(ids, deps, status, t) ==
    \A d \in deps[t] : d \in ids /\ status[d] \in DoneStatuses

\* Variant of ReadyTasks: a failed dependency counts as done.
ReadyAfterSettled(ids, deps, status) ==
    {t \in ids : /\ status[t] = "pending"
                 /\ \A d \in deps[t] : d \in ids /\ status[d] \in TerminalStatuses}

\* TaskGraph.ready_tasks: the tasks of the next wave.
ReadyTasks(ids, deps, status) ==
    {t \in ids : status[t] = "pending" /\ DepsDone(ids, deps, status, t)}

GraphDone(ids, status) == \A t \in ids : status[t] \in TerminalStatuses

HasFailures(ids, status) == \E t \in ids : status[t] = "failed"

\* Variant of MissionStatus: the cancel flag is not looked at again.
StatusFromTasks(ids, status, cancel) ==
    IF HasFailures(ids, status) THEN "failed" ELSE "completed"

\* Executor._mission_status.
MissionStatus(ids, status, cancel) ==
    CASE cancel -> "cancelled"
      [] ~cancel /\ ~HasFailures(ids, status) -> "completed"
      [] ~cancel /\ HasFailures(ids, status) ->
            IF \E t \in ids : status[t] \in DoneStatuses
            THEN "partial" ELSE "failed"
=============================================================================

----------------------------- MODULE MissionRun -----------------------------
(***************************************************************************)
(* What a caller of run_mission may rely on, with the attempts, threads,   *)
(* timeouts and candidates of the executor left out.  A task waits, is     *)
(* worked on, and settles: done, failed, or "open" (its agent answered     *)
(* that the work is still in progress).  It waits again when its agent     *)
(* answers that it has not begun, or is still running.                     *)
(***************************************************************************)
EXTENDS FiniteSets

CONSTANT Tasks

VARIABLES
    ids,     \* the tasks of the mission
    deps,    \* what each depends on
    state,   \* waiting | active | done | failed | open
    outcome  \* none, or the status the mission ended with

mvars == <<ids, deps, state, outcome>>

Waiting == {t \in ids : state[t] = "waiting"}
Working == {t \in Tasks : state[t] = "active"}
Runnable(t) == \A d \in deps[t] : d \in ids /\ state[d] = "done"

MInit ==
    /\ ids \in SUBSET Tasks
    /\ deps \in [Tasks -> SUBSET Tasks]
    /\ state = [t \in Tasks |-> "waiting"]
    /\ outcome = "none"

\* A wave begins when nothing is being worked on; it only takes tasks whose
\* dependencies are done.
StartWave ==
    /\ outcome = "none"
    /\ Working = {}
    /\ \E wave \in SUBSET Waiting :
        /\ wave # {}
        /\ \A t \in wave : Runnable(t)
        /\ state' = [t \in Tasks |-> IF t \in wave THEN "active" ELSE state[t]]
    /\ UNCHANGED <<ids, deps, outcome>>

Settle ==
    /\ \E t \in Working, s \in {"done", "failed", "open", "waiting"} :
        state' = [state EXCEPT ![t] = s]
    /\ UNCHANGED <<ids, deps, outcome>>

\* Only a task that is being worked on adds tasks.
Grow ==
    /\ Working # {}
    /\ \E t \in Tasks \ ids, ds \in SUBSET Tasks :
        /\ ids' = ids \cup {t}
        /\ deps' = [deps EXCEPT ![t] = ds]
    /\ UNCHANGED <<state, outcome>>

\* The mission gives up on every task that still waits, and only then.
Abandon ==
    /\ outcome = "none"
    /\ Working = {} /\ Waiting # {}
    /\ state' = [t \in Tasks |-> IF t \in Waiting THEN "failed" ELSE state[t]]
    /\ UNCHANGED <<ids, deps, outcome>>

\* The outcome is final and, unless the mission was cancelled, every task has
\* settled and the outcome tells whether some failed and some are done.
Conclude ==
    /\ outcome = "none"
    /\ Working = {}
    /\ \/ outcome' = "cancelled"
       \/ /\ Waiting = {}
          /\ LET failed == {t \in ids : state[t] = "failed"}
                 done == {t \in ids : state[t] = "done"} IN
             \/ outcome' = "completed" /\ failed = {}
             \/ outcome' = "partial" /\ failed # {} /\ done # {}
             \/ outcome' = "failed" /\ failed # {} /\ done = {}
    /\ UNCHANGED <<ids, deps, state>>

MNext == StartWave \/ Settle \/ Grow \/ Abandon \/ Conclude

Spec == MInit /\ [][MNext]_mvars
=============================================================================

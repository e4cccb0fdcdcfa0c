----------------------- MODULE MissionExecutorProofs -----------------------
(***************************************************************************)
(* Proofs about MissionExecutor for every set of tasks, every planned      *)
(* graph and every value of the limits.                                    *)
(***************************************************************************)
EXTENDS MissionExecutor, TLAPS

\* A call that is being waited for is still running; a task some worker has
\* is in the graph.
WorkerOK ==
    /\ \A t \in Tasks : phase[t] = "calling" => live[t] > 0
    /\ \A t \in Tasks : phase[t] # "idle" => t \in ids

TypeInv == TypeOK /\ WorkerOK

LEMMA InitTypeInv == Init => TypeInv
<1> SUFFICES ASSUME Init PROVE TypeInv
  OBVIOUS
<1>1. ids \subseteq Tasks /\ deps \in [Tasks -> SUBSET Tasks]
  BY ExecutorAssumption DEF Init
<1>2. /\ status \in [Tasks -> Statuses]
      /\ error \in [Tasks -> Errors]
      /\ phase \in [Tasks -> Phases]
  BY DEF Init, Statuses, AnswerStatuses, Errors, Phases
<1>3. total \in [Tasks -> 0 .. MaxCandidates]
  BY ExecutorAssumption DEF Init
<1>4. spawn \in [Tasks -> Seq(Followups)]
  BY DEF Init
<1>5. /\ attempts \in [Tasks -> Nat] /\ tries \in [Tasks -> Nat]
      /\ calls \in [Tasks -> Nat] /\ results \in [Tasks -> AnswerStatuses \cup {"none"}]
      /\ live \in [Tasks -> Nat] /\ current \in [Tasks -> Nat \ {0}]
      /\ upstream \in [Tasks -> SUBSET Tasks]
  BY DEF Init
<1>6. /\ pc = "loop" /\ cancel \in BOOLEAN /\ badBackoff \in BOOLEAN
      /\ expired \in BOOLEAN /\ outcome = "none"
  BY DEF Init
<1>7. TypeOK
  BY <1>1, <1>2, <1>3, <1>4, <1>5, <1>6 DEF TypeOK
<1>8. WorkerOK
  BY DEF Init, WorkerOK
<1>9. QED
  BY <1>7, <1>8 DEF TypeInv

\* What a worker's action on t leaves alone.
LEMMA RunTaskFrame ==
  ASSUME TypeOK, NEW t \in Tasks, RunTask(t)
  PROVE  /\ phase[t] \in {"queued", "attempt", "calling", "spawning"}
         /\ UNCHANGED <<pc, outcome, badBackoff, cancel, expired>>
         /\ ids \subseteq ids'
         /\ \A u \in Tasks \ {t} :
                /\ phase'[u] = phase[u] /\ status'[u] = status[u]
                /\ error'[u] = error[u] /\ attempts'[u] = attempts[u]
                /\ results'[u] = results[u] /\ upstream'[u] = upstream[u]
                /\ total'[u] = total[u] /\ current'[u] = current[u]
                /\ tries'[u] = tries[u] /\ calls'[u] = calls[u]
<1>1. CASE StartTask(t)
  BY <1>1 DEF StartTask, graph, node, control, signals, TypeOK
<1>2. CASE Exhausted(t) \/ CancelledAttempt(t)
  BY <1>2 DEF Exhausted, CancelledAttempt, GiveUp, Leave, graph, control, signals, TypeOK
<1>3. CASE CallAgent(t)
  BY <1>3 DEF CallAgent, graph, control, signals, TypeOK
<1>4. CASE CallEnds(t) \/ MalformedFollowup(t)
  <2>1. CASE \E s \in AnswerStatuses, fs \in FollowupLists : Answer(t, s, fs)
    BY <2>1 DEF Answer, graph, control, signals, TypeOK
  <2>2. CASE TimeOut(t) \/ Raise(t) \/ Unavailable(t) \/ MalformedFollowup(t)
    <3>1. /\ AfterFailure(t) \/ NextCandidate(t)
          /\ phase[t] \in {"calling", "spawning"}
          /\ UNCHANGED <<graph, node, upstream, total, calls, control, signals>>
      BY <2>2 DEF TimeOut, Raise, Unavailable, MalformedFollowup
    <3>2. \A u \in Tasks \ {t} : /\ phase'[u] = phase[u]
                                 /\ current'[u] = current[u] /\ tries'[u] = tries[u]
      BY <3>1 DEF AfterFailure, NextCandidate, Backoff, TypeOK
    <3>3. QED
      BY <3>1, <3>2 DEF graph, node, control, signals
  <2>3. QED
    BY <1>4, <2>1, <2>2 DEF CallEnds
<1>5. CASE SpawnFollowup(t)
  BY <1>5 DEF SpawnFollowup, graph, node, control, signals
<1>6. CASE TaskEnd(t)
  BY <1>6 DEF TaskEnd, Leave, graph, node, control, signals, TypeOK
<1>7. QED
  BY <1>1, <1>2, <1>3, <1>4, <1>5, <1>6 DEF RunTask

LEMMA AfterFailureType ==
  ASSUME TypeOK, NEW t \in Tasks, AfterFailure(t) \/ NextCandidate(t)
  PROVE  /\ current' \in [Tasks -> Nat \ {0}] /\ tries' \in [Tasks -> Nat]
         /\ phase' \in [Tasks -> Phases]
         /\ phase'[t] \in {"attempt", "raised"}
         /\ \A u \in Tasks \ {t} : phase'[u] = phase[u]
<1>1. current[t] + 1 \in Nat \ {0}
  BY DEF TypeOK
<1>2. CASE Backoff(t)
  BY <1>2 DEF Backoff, TypeOK, Phases
<1>3. CASE NextCandidate(t)
  BY <1>1, <1>3 DEF NextCandidate, TypeOK, Phases
<1>4. QED
  BY <1>2, <1>3 DEF AfterFailure

LEMMA LeaveType ==
  ASSUME TypeInv, NEW t \in Tasks, Leave(t), ids' = ids, live' = live
  PROVE  /\ phase' \in [Tasks -> Phases] /\ upstream' \in [Tasks -> SUBSET Tasks]
         /\ total' \in [Tasks -> 0 .. MaxCandidates]
         /\ current' \in [Tasks -> Nat \ {0}] /\ tries' \in [Tasks -> Nat]
         /\ calls' \in [Tasks -> Nat]
         /\ WorkerOK'
<1>1. "idle" \in Phases /\ 0 \in 0 .. MaxCandidates
  BY ExecutorAssumption DEF Phases
<1>2. QED
  BY <1>1 DEF Leave, TypeInv, TypeOK, WorkerOK

\* The worker's actions on one task.
LEMMA RunTaskTypeInv ==
  ASSUME TypeInv, NEW t \in Tasks, RunTask(t)
  PROVE  TypeInv'
<1> USE DEF TypeInv
<1>1. CASE StartTask(t)
  <2>1. TypeOK'
    BY <1>1 DEF StartTask, Phases, TypeOK, graph, node, worker, control, signals
  <2>2. WorkerOK'
    BY <1>1 DEF StartTask, Phases, TypeOK, WorkerOK, graph, node, worker, control, signals
  <2>3. QED
    BY <2>1, <2>2 DEF TypeInv
<1>2. CASE Exhausted(t) \/ CancelledAttempt(t)
  <2>1. PICK reason \in {"exhausted", "cancelled"} : GiveUp(t, reason)
    BY <1>2 DEF Exhausted, CancelledAttempt
  <2>2. Leave(t) /\ UNCHANGED <<ids, deps, attempts, results, spawn, live, pc, outcome,
                               badBackoff, cancel, expired>>
    BY <2>1 DEF GiveUp, graph, control, signals
  <2>3. status' \in [Tasks -> Statuses] /\ error' \in [Tasks -> Errors]
    BY <2>1 DEF GiveUp, TypeOK, Statuses, AnswerStatuses, Errors
  <2>4. QED
    BY <2>2, <2>3, LeaveType DEF TypeOK
<1>4. CASE CallAgent(t)
  <2>1. TypeOK'
    <3>1. /\ attempts' = [attempts EXCEPT ![t] = IF @ < AttemptBound THEN @ + 1 ELSE @]
          /\ calls' = [calls EXCEPT ![t] = @ + 1] /\ tries' = [tries EXCEPT ![t] = @ + 1]
          /\ live' = [live EXCEPT ![t] = @ + 1] /\ phase' = [phase EXCEPT ![t] = "calling"]
          /\ UNCHANGED <<ids, deps, status, error, results, upstream, total, current, spawn>>
          /\ UNCHANGED <<pc, outcome, badBackoff, cancel, expired>>
      BY <1>4 DEF CallAgent, graph, control, signals
    <3>2. /\ attempts' \in [Tasks -> Nat] /\ tries' \in [Tasks -> Nat]
          /\ calls' \in [Tasks -> Nat] /\ live' \in [Tasks -> Nat]
      BY <3>1 DEF TypeOK
    <3>3. phase' \in [Tasks -> Phases]
      BY <3>1 DEF TypeOK, Phases
    <3>4. QED
      BY <3>1, <3>2, <3>3 DEF TypeOK
  <2>2. WorkerOK'
    BY <1>4 DEF CallAgent, Phases, TypeOK, WorkerOK, graph, node, worker, control, signals
  <2>3. QED
    BY <2>1, <2>2 DEF TypeInv
<1>5. ASSUME NEW s \in AnswerStatuses, NEW fs \in FollowupLists, Answer(t, s, fs)
      PROVE  TypeInv'
  <2>1. fs \in Seq(Followups) /\ s \in Statuses /\ live[t] - 1 \in Nat /\ t \in ids
    BY <1>5, ExecutorAssumption DEF Answer, TypeOK, WorkerOK, Statuses
  <2>2. TypeOK'
    BY <1>5, <2>1 DEF Answer, TypeOK, Phases, graph, control, signals
  <2>3. WorkerOK'
    BY <1>5 DEF Answer, TypeOK, WorkerOK, graph
  <2>4. QED
    BY <2>2, <2>3
<1>6. CASE TimeOut(t) \/ Raise(t) \/ Unavailable(t)
  <2>1. /\ AfterFailure(t) \/ NextCandidate(t)
        /\ phase[t] = "calling"
        /\ live' \in {live, [live EXCEPT ![t] = @ - 1]}
        /\ UNCHANGED <<ids, deps, status, error, attempts, results, upstream, total,
                       calls, spawn, pc, outcome, badBackoff, cancel, expired>>
    BY <1>6 DEF TimeOut, Raise, Unavailable, graph, node, control, signals, TypeOK
  <2>2. live' \in [Tasks -> Nat]
    <3>1. live[t] - 1 \in Nat
      BY <2>1 DEF TypeOK, WorkerOK
    <3>2. QED
      BY <2>1, <3>1 DEF TypeOK
  <2>3. /\ current' \in [Tasks -> Nat \ {0}] /\ tries' \in [Tasks -> Nat]
        /\ phase' \in [Tasks -> Phases]
    BY <2>1, AfterFailureType
  <2>4. TypeOK'
    BY <2>1, <2>2, <2>3 DEF TypeOK
  <2>5. WorkerOK'
    BY <2>1, AfterFailureType DEF TypeOK, WorkerOK
  <2>6. QED
    BY <2>4, <2>5
<1>9. CASE SpawnFollowup(t)
  <2> DEFINE f == Head(spawn[t])
  <2>1. f \in Followups /\ Tail(spawn[t]) \in Seq(Followups)
    BY <1>9 DEF SpawnFollowup, TypeOK
  <2>2. f.id \in Tasks /\ f.deps \in SUBSET Tasks
    BY <2>1 DEF Followups
  <2>3. ids \subseteq ids' /\ ids' \subseteq Tasks /\ deps' \in [Tasks -> SUBSET Tasks]
    BY <1>9, <2>2 DEF SpawnFollowup, TypeOK, graph
  <2>4. spawn' \in [Tasks -> Seq(Followups)]
    BY <1>9, <2>1 DEF SpawnFollowup, TypeOK
  <2>5. TypeOK'
    BY <1>9, <2>3, <2>4 DEF SpawnFollowup, TypeOK, node, control, signals
  <2>6. WorkerOK'
    BY <1>9, <2>3 DEF SpawnFollowup, WorkerOK
  <2>7. QED
    BY <2>5, <2>6
<1>10. CASE MalformedFollowup(t)
  <2>1. /\ AfterFailure(t) /\ phase[t] = "spawning"
        /\ spawn' = [spawn EXCEPT ![t] = <<>>]
        /\ UNCHANGED <<ids, deps, status, error, attempts, results, upstream, total,
                       calls, live, pc, outcome, badBackoff, cancel, expired>>
    BY <1>10 DEF MalformedFollowup, graph, node, control, signals
  <2>2. /\ current' \in [Tasks -> Nat \ {0}] /\ tries' \in [Tasks -> Nat]
        /\ phase' \in [Tasks -> Phases]
    BY <2>1, AfterFailureType
  <2>3. spawn' \in [Tasks -> Seq(Followups)]
    BY <2>1 DEF TypeOK
  <2>4. TypeOK'
    BY <2>1, <2>2, <2>3 DEF TypeOK
  <2>5. WorkerOK'
    BY <2>1, AfterFailureType DEF TypeOK, WorkerOK
  <2>6. QED
    BY <2>4, <2>5
<1>11. CASE TaskEnd(t)
  <2>1. Leave(t) /\ UNCHANGED <<ids, deps, status, error, attempts, results, spawn, live,
                               pc, outcome, badBackoff, cancel, expired>>
    BY <1>11 DEF TaskEnd, graph, node, control, signals
  <2>2. QED
    BY <2>1, LeaveType DEF TypeOK
<1>12. QED
  BY <1>1, <1>2, <1>4, <1>5, <1>6, <1>9, <1>10, <1>11
  DEF RunTask, CallEnds

\* The runner's actions.
LEMMA RunMissionTypeInv ==
  ASSUME TypeInv, RunMission
  PROVE  TypeInv'
<1> USE DEF TypeInv
<1> DEFINE Failed(reason) == FailRemaining(reason) =>
        status' \in [Tasks -> Statuses] /\ error' \in [Tasks -> Errors]
<1>1. \A reason \in Errors : Failed(reason)
  BY DEF FailRemaining, TypeOK, Statuses, AnswerStatuses
<1>2. CASE LoopExit \/ WaveEnd \/ WaveRaises
  BY <1>2 DEF LoopExit, WaveEnd, WaveRaises, TypeOK, WorkerOK, graph, node, worker, signals
<1>3. CASE LoopTimeout
  <2>1. FailRemaining("mission_timeout") /\ "mission_timeout" \in Errors
    BY <1>3 DEF LoopTimeout, Errors
  <2>2. QED
    BY <1>1, <1>3, <2>1
    DEF LoopTimeout, TypeOK, WorkerOK, graph, worker, signals
<1>4. CASE LoopBlocked
  <2>1. FailRemaining("blocked") /\ "blocked" \in Errors
    BY <1>4 DEF LoopBlocked, Errors
  <2>2. QED
    BY <1>1, <1>4, <2>1
    DEF LoopBlocked, TypeOK, WorkerOK, graph, worker, signals
<1>5. CASE LoopWave
  <2>1. Ready \subseteq ids
    BY DEF Ready, ReadyTasks
  <2>2. status' \in [Tasks -> Statuses] /\ phase' \in [Tasks -> Phases]
    BY <1>5 DEF LoopWave, TypeOK, Statuses, AnswerStatuses, Phases
  <2>3. TypeOK'
    BY <1>5, <2>2 DEF LoopWave, TypeOK, graph, signals
  <2>4. WorkerOK'
    BY <1>5, <2>1 DEF LoopWave, TypeOK, WorkerOK, graph
  <2>5. QED
    BY <2>3, <2>4
<1>6. CASE Finish
  <2>1. outcome' \in Outcomes
    BY <1>6 DEF Finish, MissionStatus, Outcomes, TypeOK
  <2>2. QED
    BY <1>6, <2>1 DEF Finish, TypeOK, WorkerOK, graph, node, worker, signals
<1>7. QED
  BY <1>2, <1>3, <1>4, <1>5, <1>6 DEF RunMission

LEMMA StepTypeInv == TypeInv /\ [Next]_vars => TypeInv'
<1> SUFFICES ASSUME TypeInv, [Next]_vars PROVE TypeInv'
  OBVIOUS
<1> USE DEF TypeInv
<1>1. CASE Cancel \/ Expire
  BY <1>1 DEF Cancel, Expire, TypeOK, WorkerOK, graph, node, worker, control
<1>2. ASSUME NEW t \in Tasks, LateAnswer(t) PROVE TypeInv'
  <2>1. live[t] - 1 \in Nat /\ (phase[t] = "calling" => live[t] - 1 > 0)
    BY <1>2 DEF LateAnswer, Abandoned, TypeOK
  <2>2. TypeOK'
    BY <1>2, <2>1 DEF LateAnswer, TypeOK, graph, node, control, signals
  <2>3. WorkerOK'
    BY <1>2, <2>1 DEF LateAnswer, TypeOK, WorkerOK, graph
  <2>4. QED
    BY <2>2, <2>3
<1>3. CASE UNCHANGED vars
  BY <1>3 DEF vars, TypeOK, WorkerOK
<1>4. QED
  BY <1>1, <1>2, <1>3, RunTaskTypeInv, RunMissionTypeInv DEF Next, Returned

\* The state of a run always has the types declared in MissionExecutor: no
\* interleaving of late answers with the calls that follow them drives the
\* count of running calls below zero, nothing outside the graph is worked on.
THEOREM TypeCorrect == Spec => []TypeOK
<1>1. TypeInv => TypeOK
  BY DEF TypeInv
<1>2. QED
  BY InitTypeInv, StepTypeInv, <1>1, PTL DEF Spec
-----------------------------------------------------------------------------
(* The order of the tasks.  AttemptedAfterDeps is not inductive: it says   *)
(* nothing of the moment a wave is formed.  OrderInv adds that waves do    *)
(* not overlap, that a task some worker has had its dependencies done and  *)
(* out of the workers' hands when its wave was formed, and that a done     *)
(* task holds a result.                                                    *)

DepsSettled(t) ==
    \A d \in deps[t] : d \in ids /\ status[d] \in DoneStatuses /\ phase[d] = "idle"

OutsideGraph ==
    \A t \in Tasks \ ids :
        status[t] = "pending" /\ phase[t] = "idle" /\ attempts[t] = 0

WaveBarrier ==
    /\ pc \notin {"wave", "raised"} => \A t \in Tasks : phase[t] = "idle"
    /\ pc = "raised" => \A t \in Tasks : phase[t] \in {"idle", "raised"}

DepsFirst ==
    \A t \in Tasks : phase[t] # "idle" \/ attempts[t] > 0 => DepsSettled(t)

Handed ==
    \A t \in Tasks :
        phase[t] \notin {"idle", "queued"} => deps[t] \subseteq upstream[t]

ResultsKept == \A t \in Tasks : status[t] \in DoneStatuses => results[t] # "none"

OrderInv == OutsideGraph /\ WaveBarrier /\ DepsFirst /\ Handed /\ ResultsKept

LEMMA InitOrderInv == Init => OrderInv
BY DEF Init, OrderInv, OutsideGraph, WaveBarrier, DepsFirst, Handed,
       ResultsKept, DoneStatuses

\* A worker's action leaves the settled dependencies of others alone.
LEMMA OthersSettled ==
  ASSUME TypeOK, NEW t \in Tasks, phase[t] # "idle",
         \A u \in Tasks \ {t} : status'[u] = status[u] /\ phase'[u] = phase[u],
         ids \subseteq ids',
         NEW u \in Tasks, deps'[u] = deps[u], DepsSettled(u)
  PROVE  DepsSettled(u)'
BY DEF DepsSettled, TypeOK

LEMMA RunTaskOrderInv ==
  ASSUME TypeInv, OrderInv, NEW t \in Tasks, RunTask(t)
  PROVE  OrderInv'
<1> USE DEF TypeInv
<1>0. /\ phase[t] \in {"queued", "attempt", "calling", "spawning"} /\ t \in ids
      /\ DepsSettled(t) /\ pc = "wave"
  BY RunTaskFrame DEF OrderInv, WaveBarrier, DepsFirst, TypeOK, WorkerOK
<1>1. \A u \in Tasks \ {t} :
        phase'[u] = phase[u] /\ status'[u] = status[u] /\ attempts'[u] = attempts[u]
        /\ upstream'[u] = upstream[u] /\ results'[u] = results[u]
  BY RunTaskFrame
<1>2. pc' = pc /\ ids \subseteq ids'
  BY RunTaskFrame
<1>3. \A u \in Tasks : u \in ids => deps'[u] = deps[u]
  <2>1. CASE UNCHANGED graph
    BY <2>1 DEF graph
  <2>2. CASE SpawnFollowup(t)
    BY <2>2 DEF SpawnFollowup, graph, TypeOK
  <2>3. QED
    BY <2>1, <2>2
    DEF RunTask, StartTask, Exhausted, CancelledAttempt, CallAgent, CallEnds,
        Answer, TimeOut, Raise, Unavailable, MalformedFollowup, TaskEnd, GiveUp
<1>4. OutsideGraph'
  BY <1>0, <1>1, <1>2 DEF OrderInv, OutsideGraph
<1>5. WaveBarrier'
  BY <1>0, <1>2 DEF WaveBarrier
<1>6. DepsFirst'
  <2> SUFFICES ASSUME NEW u \in Tasks, phase'[u] # "idle" \/ attempts'[u] > 0
               PROVE  DepsSettled(u)'
    BY DEF DepsFirst
  <2>1. DepsSettled(u) /\ u \in ids
    BY <1>0, <1>1 DEF OrderInv, OutsideGraph, DepsFirst, TypeOK, WorkerOK
  <2>2. QED
    BY <1>0, <1>1, <1>2, <1>3, <2>1, OthersSettled
<1>7. ResultsKept'
  <2>1. status'[t] \in DoneStatuses => results'[t] # "none"
    <3>1. CASE \E s \in AnswerStatuses, fs \in FollowupLists : Answer(t, s, fs)
      BY <3>1 DEF Answer, TypeOK, AnswerStatuses
    <3>2. CASE Exhausted(t) \/ CancelledAttempt(t)
      BY <3>2 DEF Exhausted, CancelledAttempt, GiveUp, TypeOK, DoneStatuses
    <3>3. CASE UNCHANGED <<status, results>>
      BY <3>3 DEF OrderInv, ResultsKept
    <3>4. QED
      BY <3>1, <3>2, <3>3 DEF RunTask, StartTask, CallAgent, CallEnds, TimeOut,
         Raise, Unavailable, SpawnFollowup, MalformedFollowup, TaskEnd, node
  <2>2. QED
    BY <1>1, <1>2, <2>1 DEF OrderInv, ResultsKept
<1>8. Handed'
  <2> SUFFICES ASSUME NEW u \in Tasks, phase'[u] \notin {"idle", "queued"}
               PROVE  deps'[u] \subseteq upstream'[u]
    BY DEF Handed
  <2>1. u \in ids
    BY <1>0, <1>1 DEF OrderInv, OutsideGraph
  <2>2. CASE u # t
    BY <1>1, <1>3, <2>1, <2>2 DEF OrderInv, Handed
  <2>3. CASE u = t /\ StartTask(t)
    <3>1. \A d \in deps[t] : results[d] # "none"
      BY <1>0 DEF DepsSettled, OrderInv, ResultsKept, TypeOK
    <3>2. QED
      BY <1>0, <1>3, <2>3, <3>1 DEF StartTask, TypeOK
  <2>4. CASE u = t /\ (Exhausted(t) \/ CancelledAttempt(t) \/ TaskEnd(t))
    BY <2>4 DEF Exhausted, CancelledAttempt, TaskEnd, GiveUp, Leave, TypeOK
  <2>5. CASE u = t /\ upstream' = upstream /\ phase[t] # "queued"
    BY <1>0, <1>3, <2>5 DEF OrderInv, Handed
  <2>6. QED
    BY <2>2, <2>3, <2>4, <2>5 DEF RunTask, CallAgent, CallEnds,
       Answer, TimeOut, Raise, Unavailable, SpawnFollowup, MalformedFollowup
<1>9. QED
  BY <1>4, <1>5, <1>6, <1>7, <1>8 DEF OrderInv

LEMMA FailRemainingKeepsDone ==
  ASSUME TypeOK, NEW reason, FailRemaining(reason)
  PROVE  /\ \A t \in Tasks : status[t] \in DoneStatuses => status'[t] = status[t]
         /\ \A t \in Tasks : status'[t] \in DoneStatuses => status[t] \in DoneStatuses
         /\ \A t \in Tasks \ ids : status'[t] = status[t]
BY DEF FailRemaining, TypeOK, DoneStatuses

LEMMA RunMissionOrderInv ==
  ASSUME TypeInv, OrderInv, RunMission
  PROVE  OrderInv'
<1> USE DEF TypeInv
<1>1. CASE LoopExit \/ WaveEnd \/ WaveRaises \/ Finish
  BY <1>1 DEF LoopExit, WaveEnd, WaveRaises, Finish, OrderInv, OutsideGraph, WaveBarrier,
     DepsFirst, DepsSettled, Handed, ResultsKept, graph, node, worker
<1>2. CASE LoopTimeout \/ LoopBlocked
  <2>1. /\ pc = "loop" /\ pc' = "finish"
        /\ UNCHANGED <<ids, deps, attempts, results, upstream, phase>>
    BY <1>2 DEF LoopTimeout, LoopBlocked, graph, worker
  <2>2. PICK reason : FailRemaining(reason)
    BY <1>2 DEF LoopTimeout, LoopBlocked
  <2>3. OutsideGraph' /\ WaveBarrier'
    BY <2>1, <2>2, FailRemainingKeepsDone DEF OrderInv, OutsideGraph, WaveBarrier
  <2>4. DepsFirst' /\ Handed' /\ ResultsKept'
    BY <2>1, <2>2, FailRemainingKeepsDone
    DEF OrderInv, DepsFirst, DepsSettled, Handed, ResultsKept, TypeOK
  <2>5. QED
    BY <2>3, <2>4 DEF OrderInv
<1>3. CASE LoopWave
  <2>1. /\ pc = "loop" /\ pc' = "wave"
        /\ status' = [t \in Tasks |-> IF t \in Ready THEN "running" ELSE status[t]]
        /\ phase' = [t \in Tasks |-> IF t \in Ready THEN "queued" ELSE phase[t]]
        /\ UNCHANGED <<ids, deps, attempts, results, upstream>>
    BY <1>3 DEF LoopWave, graph
  <2>2. \A t \in Ready : t \in ids /\ status[t] = "pending"
    BY DEF Ready, ReadyTasks
  <2>3. \A t \in Tasks : phase[t] = "idle"
    BY <2>1 DEF OrderInv, WaveBarrier
  <2>4. \A t \in Tasks : status[t] \in DoneStatuses =>
            t \notin Ready /\ status'[t] = status[t] /\ phase'[t] = "idle"
    BY <2>1, <2>2, <2>3 DEF DoneStatuses
  <2>5. \A t \in Ready : DepsSettled(t)
    BY <2>3 DEF Ready, ReadyTasks, DepsDone, DepsSettled, TypeOK
  <2>6. \A t \in Tasks : DepsSettled(t) => DepsSettled(t)'
    BY <2>1, <2>4 DEF DepsSettled, TypeOK
  <2>7. OutsideGraph' /\ WaveBarrier'
    BY <2>1, <2>2 DEF OrderInv, OutsideGraph, WaveBarrier
  <2>8. DepsFirst'
    BY <2>1, <2>3, <2>5, <2>6 DEF OrderInv, DepsFirst
  <2>9. Handed'
    BY <2>1, <2>3 DEF OrderInv, Handed
  <2>10. ResultsKept'
    BY <2>1, <2>4 DEF OrderInv, ResultsKept, DoneStatuses
  <2>11. QED
    BY <2>7, <2>8, <2>9, <2>10 DEF OrderInv
<1>4. QED
  BY <1>1, <1>2, <1>3 DEF RunMission

LEMMA StepOrderInv == TypeInv /\ OrderInv /\ [Next]_vars => OrderInv'
<1> SUFFICES ASSUME TypeInv, OrderInv, [Next]_vars PROVE OrderInv'
  OBVIOUS
<1>1. CASE UNCHANGED <<graph, node, upstream, phase, pc>>
  BY <1>1 DEF OrderInv, OutsideGraph, WaveBarrier, DepsFirst, DepsSettled,
              Handed, ResultsKept, graph, node
<1>2. QED
  BY <1>1, RunTaskOrderInv, RunMissionOrderInv
  DEF Next, Cancel, Expire, LateAnswer, Returned, vars, graph, node, worker, control

LEMMA Invariance == Spec => [](TypeInv /\ OrderInv)
BY InitTypeInv, InitOrderInv, StepTypeInv, StepOrderInv, PTL DEF Spec

\* For every set of tasks, every planned graph and every list of follow-ups:
\* an agent is called for a task only when each of its dependencies is done,
\* and with the result of each of them in its context.
THEOREM DependencyOrder == Spec => []AttemptedAfterDeps
<1>1. TypeInv /\ OrderInv => AttemptedAfterDeps
  BY DEF TypeInv, TypeOK, OrderInv, DepsFirst, Handed, DepsSettled,
         AttemptedAfterDeps, DepsDone
<1>2. QED
  BY Invariance, <1>1, PTL

\* No interleaving of waves, timeouts, cancels and late answers rewrites a
\* task that has settled.
THEOREM SettledForGood == Spec => SettledTasksStay
<1>1. TypeInv /\ [Next]_vars => [SettledStep]_vars
  <2> SUFFICES ASSUME TypeInv, Next, NEW t \in ids, phase[t] = "idle",
                      status[t] \in TerminalStatuses
               PROVE  status'[t] = status[t] /\ error'[t] = error[t]
                      /\ attempts'[t] = attempts[t]
    BY DEF SettledStep
  <2> USE DEF TypeInv
  <2>1. t \in Tasks /\ status[t] \notin {"pending", "running"}
    BY DEF TypeOK, TerminalStatuses
  <2>2. CASE UNCHANGED node
    BY <2>2 DEF node
  <2>3. CASE LoopTimeout \/ LoopBlocked
    BY <2>1, <2>3 DEF LoopTimeout, LoopBlocked, FailRemaining
  <2>4. CASE LoopWave
    BY <2>1, <2>4 DEF LoopWave, Ready, ReadyTasks
  <2>5. ASSUME NEW u \in Tasks, RunTask(u)
        PROVE  status'[t] = status[t] /\ error'[t] = error[t]
               /\ attempts'[t] = attempts[t]
    BY <2>1, <2>5, RunTaskFrame
  <2>6. QED
    BY <2>2, <2>3, <2>4, <2>5
    DEF Next, RunMission, Cancel, Expire, LateAnswer, LoopExit, WaveEnd, WaveRaises, Finish,
        Returned, vars, node
<1>2. QED
  BY Invariance, <1>1, PTL DEF Spec, SettledTasksStay
-----------------------------------------------------------------------------
(* MissionExecutor implements MissionRun.                                  *)

\* Where the runner is and what the tasks' statuses say then.
FlowInv ==
    /\ \A t \in Tasks : phase[t] = "idle" /\ status[t] = "running" => results[t] = "running"
    /\ \A t \in Tasks : phase[t] = "spawning" => status[t] = results[t]
    /\ \A t \in Tasks :
            phase[t] = "idle" /\ status[t] = "pending" /\ attempts[t] > 0
                => results[t] = "pending"
    /\ \A t \in Tasks : phase[t] = "queued" /\ attempts[t] > 0 => results[t] = "pending"
    /\ (pc = "finish" /\ ~cancel) \/ (pc = "done" /\ outcome # "cancelled") =>
            \A t \in ids : status[t] \notin {"pending", "running"}
    /\ outcome = "none" <=> pc # "done"

LEMMA InitFlowInv == Init => FlowInv
BY DEF Init, FlowInv

LEMMA StepFlowInv == TypeInv /\ OrderInv /\ FlowInv /\ [Next]_vars => FlowInv'
<1> SUFFICES ASSUME TypeInv, OrderInv, FlowInv, [Next]_vars PROVE FlowInv'
  OBVIOUS
<1> USE DEF TypeInv
<1>1. CASE UNCHANGED <<ids, status, results, attempts, phase, pc, outcome>>
           /\ (cancel => cancel')
  BY <1>1 DEF FlowInv
<1>2. ASSUME NEW t \in Tasks, RunTask(t) PROVE FlowInv'
  <2>1. pc = "wave" /\ pc' = "wave" /\ outcome' = outcome
    BY <1>2, RunTaskFrame DEF OrderInv, WaveBarrier, TypeOK
  <2>2. \A u \in Tasks \ {t} :
          /\ status'[u] = status[u] /\ phase'[u] = phase[u]
          /\ results'[u] = results[u] /\ attempts'[u] = attempts[u]
    BY <1>2, RunTaskFrame
  <2>3. CASE phase'[t] \notin {"idle", "queued", "spawning"}
    BY <2>1, <2>2, <2>3 DEF FlowInv
  <2>4. CASE Exhausted(t) \/ CancelledAttempt(t)
    <3>1. phase'[t] = "idle" /\ status'[t] = "failed"
      BY <2>4 DEF Exhausted, CancelledAttempt, GiveUp, Leave, TypeOK
    <3>2. QED
      BY <2>1, <2>2, <3>1 DEF FlowInv
  <2>5. CASE \E s \in AnswerStatuses, fs \in FollowupLists : Answer(t, s, fs)
    <3>1. phase'[t] = "spawning" /\ status'[t] = results'[t]
      BY <2>5 DEF Answer, TypeOK
    <3>2. QED
      BY <2>1, <2>2, <3>1 DEF FlowInv
  <2>6. CASE SpawnFollowup(t) \/ TaskEnd(t)
    <3>1. /\ phase[t] = "spawning" /\ phase'[t] \in {"spawning", "idle"}
          /\ status' = status /\ results' = results
      BY <2>6 DEF SpawnFollowup, TaskEnd, Leave, node, TypeOK
    <3>2. QED
      BY <2>1, <2>2, <3>1 DEF FlowInv
  <2>7. QED
    <3>1. CASE StartTask(t) \/ CallAgent(t)
      BY <2>3, <3>1 DEF StartTask, CallAgent, TypeOK
    <3>2. CASE TimeOut(t) \/ Raise(t) \/ Unavailable(t) \/ MalformedFollowup(t)
      <4>1. AfterFailure(t) \/ NextCandidate(t)
        BY <3>2 DEF TimeOut, Raise, Unavailable, MalformedFollowup
      <4>2. QED
        BY <2>3, <4>1, AfterFailureType
    <3>3. QED
      BY <1>2, <2>4, <2>5, <2>6, <3>1, <3>2 DEF RunTask, CallEnds
<1>3. CASE LoopExit
  BY <1>3 DEF LoopExit, GraphDone, TerminalStatuses, FlowInv, graph, node,
              worker, signals
<1>4. CASE LoopTimeout \/ LoopBlocked
  <2>1. /\ pc = "loop" /\ pc' = "finish"
        /\ UNCHANGED <<ids, phase, results, attempts, outcome>>
    BY <1>4 DEF LoopTimeout, LoopBlocked, graph, worker
  <2>2. \A t \in Tasks :
          status'[t] = IF t \in ids /\ status[t] \in {"pending", "running"}
                       THEN "failed" ELSE status[t]
    BY <1>4 DEF LoopTimeout, LoopBlocked, FailRemaining
  <2>3. \A t \in Tasks : phase[t] = "idle"
    BY <2>1 DEF OrderInv, WaveBarrier
  <2>4. \A t \in ids' : status'[t] \notin {"pending", "running"}
    BY <2>1, <2>2 DEF TypeOK
  <2>5. QED
    BY <2>1, <2>2, <2>3, <2>4 DEF FlowInv
<1>5. CASE LoopWave
  <2>1. /\ pc = "loop" /\ pc' = "wave" /\ UNCHANGED <<outcome, results, attempts>>
        /\ status' = [t \in Tasks |-> IF t \in Ready THEN "running" ELSE status[t]]
        /\ phase' = [t \in Tasks |-> IF t \in Ready THEN "queued" ELSE phase[t]]
    BY <1>5 DEF LoopWave
  <2>2. \A t \in Tasks : phase[t] = "idle" /\ (t \in Ready => status[t] = "pending")
    BY <2>1 DEF OrderInv, WaveBarrier, Ready, ReadyTasks
  <2>3. QED
    BY <2>1, <2>2 DEF FlowInv
<1>6. CASE WaveEnd \/ WaveRaises
  BY <1>6 DEF WaveEnd, WaveRaises, FlowInv, graph, node, worker
<1>7. CASE Finish
  <2>1. outcome' \in Outcomes /\ (cancel => outcome' = "cancelled")
    BY <1>7 DEF Finish, MissionStatus, Outcomes, TypeOK
  <2>2. QED
    BY <1>7, <2>1 DEF Finish, FlowInv, Outcomes, graph, node, worker, signals
<1>8. QED
  BY <1>1, <1>2, <1>3, <1>4, <1>5, <1>6, <1>7
  DEF Next, RunMission, Cancel, Expire, LateAnswer, Returned, vars, graph, node,
      worker, control, signals

LEMMA FullInvariance == Spec => [](TypeInv /\ OrderInv /\ FlowInv)
BY InitTypeInv, InitOrderInv, InitFlowInv, StepTypeInv, StepOrderInv,
   StepFlowInv, PTL DEF Spec

\* A mission that does not report "cancelled" leaves no task pending, for
\* every graph, every follow-up and every order of the threads.
THEOREM NoTaskForgotten == Spec => []NothingLeftPending
<1>1. FlowInv => NothingLeftPending
  BY DEF FlowInv, NothingLeftPending
<1>2. QED
  BY FullInvariance, <1>1, PTL

LEMMA RunTaskRefines ==
  ASSUME TypeInv, OrderInv, FlowInv, NEW t \in Tasks, RunTask(t)
  PROVE  [Mission!MNext]_(Mission!mvars)
<1> USE DEF TypeInv
<1>0. /\ t \in ids /\ outcome' = outcome
      /\ TaskState[t] = "active"
      /\ TaskState'[t] \in {"active", "done", "failed", "open", "waiting"}
  <2>1. phase[t] # "idle" /\ t \in ids /\ outcome' = outcome
    BY RunTaskFrame DEF WorkerOK
  <2>2. TaskState[t] = "active"
    BY <2>1 DEF TaskState, SeenAs
  <2>3. status'[t] \in AnswerStatuses
    BY RunTaskTypeInv DEF TypeOK, Statuses
  <2>4. TaskState'[t] \in {"active", "done", "failed", "open", "waiting"}
    BY <2>3 DEF TaskState, SeenAs, AnswerStatuses, DoneStatuses
  <2>5. QED
    BY <2>1, <2>2, <2>4
<1>1. \A u \in Tasks \ {t} : TaskState'[u] = TaskState[u]
  <2>1. \A u \in Tasks \ {t} : status'[u] = status[u] /\ phase'[u] = phase[u]
    BY RunTaskFrame
  <2>2. QED
    BY <2>1 DEF TaskState
<1>2. TaskState' = [TaskState EXCEPT ![t] = TaskState'[t]]
  BY <1>1 DEF TaskState
<1>3. CASE UNCHANGED graph
  <2>1. CASE TaskState'[t] = "active"
    <3>1. TaskState' = TaskState
      BY <1>0, <1>1, <2>1 DEF TaskState
    <3>2. QED
      BY <1>0, <1>3, <3>1 DEF Mission!mvars, graph
  <2>2. CASE TaskState'[t] # "active"
    <3>1. t \in Mission!Working
      BY <1>0 DEF Mission!Working
    <3>2. Mission!Settle
      BY <1>0, <1>2, <1>3, <2>2, <3>1 DEF Mission!Settle, graph
    <3>3. QED
      BY <3>2 DEF Mission!MNext
  <2>3. QED
    BY <2>1, <2>2
<1>4. CASE SpawnFollowup(t) /\ ~UNCHANGED graph
  <2> DEFINE f == Head(spawn[t])
  <2>1. f \in Followups
    BY <1>4 DEF SpawnFollowup, TypeOK
  <2>2. f.id \in Tasks \ ids /\ f.deps \in SUBSET Tasks
    BY <1>4, <2>1 DEF SpawnFollowup, Followups
  <2>3. ids' = ids \cup {f.id} /\ deps' = [deps EXCEPT ![f.id] = f.deps]
    BY <1>4 DEF SpawnFollowup
  <2>4. TaskState' = TaskState
    BY <1>4 DEF SpawnFollowup, node, TaskState
  <2>5. Mission!Working # {}
    BY <1>0 DEF Mission!Working
  <2>6. Mission!Grow
    BY <1>0, <2>2, <2>3, <2>4, <2>5 DEF Mission!Grow
  <2>7. QED
    BY <2>6 DEF Mission!MNext
<1>5. QED
  BY <1>3, <1>4
  DEF RunTask, StartTask, Exhausted, CancelledAttempt, CallAgent, CallEnds,
      Answer, TimeOut, Raise, Unavailable, MalformedFollowup, TaskEnd, GiveUp

\* How a task with no worker is seen.
LEMMA IdleTasks ==
  ASSUME TypeOK, \A t \in Tasks : phase[t] = "idle"
  PROVE  \A t \in Tasks :
            /\ TaskState[t] = "waiting" <=> status[t] \in {"pending", "running"}
            /\ TaskState[t] = "done" <=> status[t] \in DoneStatuses
            /\ TaskState[t] = "failed" <=> status[t] = "failed"
            /\ TaskState[t] # "active"
BY DEF TaskState, SeenAs, TypeOK, Statuses, AnswerStatuses, DoneStatuses

LEMMA RunMissionRefines ==
  ASSUME TypeInv, OrderInv, FlowInv, RunMission
  PROVE  [Mission!MNext]_(Mission!mvars)
<1> USE DEF TypeInv
<1>1. CASE LoopExit \/ WaveEnd \/ WaveRaises
  <2>1. TaskState' = TaskState /\ UNCHANGED <<ids, deps, outcome>>
    BY <1>1 DEF LoopExit, WaveEnd, WaveRaises, TaskState, graph, node, worker
  <2>2. QED
    BY <2>1 DEF Mission!mvars
<1>2. CASE ~(LoopExit \/ WaveEnd \/ WaveRaises)
  <2>1. \A t \in Tasks : phase[t] = "idle"
    BY <1>2 DEF RunMission, LoopTimeout, LoopBlocked, LoopWave, Finish,
                OrderInv, WaveBarrier
  <2>2. outcome = "none" /\ Mission!Working = {}
    BY <1>2, <2>1, IdleTasks DEF RunMission, LoopTimeout, LoopBlocked, LoopWave,
       Finish, FlowInv, Mission!Working
  <2>3. CASE LoopTimeout \/ LoopBlocked
    <3>1. UNCHANGED <<ids, deps, outcome, phase>>
      BY <2>3 DEF LoopTimeout, LoopBlocked, graph, worker
    <3>2. \A t \in Tasks :
            status'[t] = IF t \in ids /\ status[t] \in {"pending", "running"}
                         THEN "failed" ELSE status[t]
      BY <2>3 DEF LoopTimeout, LoopBlocked, FailRemaining
    <3>3. \A t \in Tasks :
            TaskState'[t] = IF t \in Mission!Waiting THEN "failed" ELSE TaskState[t]
      <4>1. SeenAs("idle", "failed") = "failed"
        BY DEF SeenAs, DoneStatuses
      <4>2. \A t \in Tasks : t \in Mission!Waiting
                               <=> t \in ids /\ status[t] \in {"pending", "running"}
        BY <2>1, IdleTasks DEF Mission!Waiting
      <4>3. QED
        BY <2>1, <3>1, <3>2, <4>1, <4>2 DEF TaskState
    <3>4. TaskState' = [t \in Tasks |->
                          IF t \in Mission!Waiting THEN "failed" ELSE TaskState[t]]
      BY <3>3 DEF TaskState
    <3>5. CASE Mission!Waiting = {}
      <4>1. TaskState' = TaskState
        BY <3>4, <3>5 DEF TaskState
      <4>2. QED
        BY <3>1, <4>1 DEF Mission!mvars
    <3>6. CASE Mission!Waiting # {}
      <4>1. Mission!Abandon
        BY <2>2, <3>1, <3>4, <3>6 DEF Mission!Abandon
      <4>2. QED
        BY <4>1 DEF Mission!MNext
    <3>7. QED
      BY <3>5, <3>6
  <2>4. CASE LoopWave
    <3>1. UNCHANGED <<ids, deps, outcome>> /\ Ready # {}
      BY <2>4 DEF LoopWave, graph
    <3>2. TaskState' = [t \in Tasks |-> IF t \in Ready THEN "active" ELSE TaskState[t]]
      <4>1. \A t \in Tasks :
              /\ status'[t] = IF t \in Ready THEN "running" ELSE status[t]
              /\ phase'[t] = IF t \in Ready THEN "queued" ELSE phase[t]
        BY <2>4 DEF LoopWave
      <4>2. SeenAs("queued", "running") = "active"
        BY DEF SeenAs
      <4>3. \A t \in Tasks :
              SeenAs(phase'[t], status'[t]) = IF t \in Ready THEN "active" ELSE TaskState[t]
        BY <4>1, <4>2 DEF TaskState
      <4>4. QED
        BY <4>3 DEF TaskState
    <3>3. Ready \in SUBSET Mission!Waiting
      BY <2>1, IdleTasks DEF Ready, ReadyTasks, Mission!Waiting, TypeOK
    <3>4. \A t \in Ready : Mission!Runnable(t)
      BY <2>1, IdleTasks DEF Ready, ReadyTasks, DepsDone, Mission!Runnable, TypeOK
    <3>5. Mission!StartWave
      BY <2>2, <3>1, <3>2, <3>3, <3>4 DEF Mission!StartWave
    <3>6. QED
      BY <3>5 DEF Mission!MNext
  <2>5. CASE Finish
    <3>1. UNCHANGED <<ids, deps>> /\ TaskState' = TaskState
          /\ outcome' = MissionStatus(ids, status, cancel)
      BY <2>5 DEF Finish, graph, node, worker, TaskState
    <3>2. CASE cancel
      BY <2>2, <3>1, <3>2 DEF MissionStatus, Mission!Conclude, Mission!MNext
    <3>3. CASE ~cancel
      <4>1. Mission!Waiting = {}
        BY <2>1, <2>5, <3>3, IdleTasks DEF Finish, FlowInv, Mission!Waiting, TypeOK
      <4>2. HasFailures(ids, status) <=> {t \in ids : TaskState[t] = "failed"} # {}
        BY <2>1, IdleTasks DEF HasFailures, TypeOK
      <4>3. (\E t \in ids : status[t] \in DoneStatuses)
              <=> {t \in ids : TaskState[t] = "done"} # {}
        BY <2>1, IdleTasks DEF TypeOK
      <4>4. Mission!Conclude
        BY <2>2, <3>1, <3>3, <4>1, <4>2, <4>3 DEF MissionStatus, Mission!Conclude
      <4>5. QED
        BY <4>4 DEF Mission!MNext
    <3>4. QED
      BY <3>2, <3>3
  <2>6. QED
    BY <1>2, <2>3, <2>4, <2>5 DEF RunMission
<1>3. QED
  BY <1>1, <1>2

\* Every run of the executor, with its attempts, timeouts, late answers and
\* malformed answers, looks from outside like a run of MissionRun.
THEOREM ExecutorImplementsMissionRun == Spec => ImplementsMissionRun
<1>1. Init => Mission!MInit
  <2> SUFFICES ASSUME Init PROVE Mission!MInit
    OBVIOUS
  <2>1. TypeInv
    BY InitTypeInv
  <2>2. SeenAs("idle", "pending") = "waiting"
    BY DEF SeenAs, DoneStatuses
  <2>3. \A t \in Tasks : phase[t] = "idle" /\ status[t] = "pending"
    BY DEF Init
  <2>4. TaskState = [t \in Tasks |-> "waiting"]
    BY <2>2, <2>3 DEF TaskState
  <2>5. QED
    BY <2>1, <2>4 DEF Init, Mission!MInit, TypeInv, TypeOK
<1>2. TypeInv /\ OrderInv /\ FlowInv /\ [Next]_vars
        => [Mission!MNext]_(Mission!mvars)
  <2> SUFFICES ASSUME TypeInv, OrderInv, FlowInv, [Next]_vars
               PROVE  [Mission!MNext]_(Mission!mvars)
    OBVIOUS
  <2>1. CASE UNCHANGED <<graph, status, phase, outcome>>
    BY <2>1 DEF Mission!mvars, TaskState, graph
  <2>2. QED
    BY <2>1, RunTaskRefines, RunMissionRefines
    DEF Next, Cancel, Expire, LateAnswer, Returned, vars, graph, node, worker,
        control
<1>3. QED
  BY FullInvariance, <1>1, <1>2, PTL DEF Spec, ImplementsMissionRun, Mission!Spec
-----------------------------------------------------------------------------
(* The calls of a task.  AttemptBudget is not inductive: it does not say   *)
(* that a worker that may still call has budget left.  BudgetInv splits    *)
(* the calls into those of the candidates already given up, each at most   *)
(* max_retries + 1, and the tries of the current one.                      *)

\* The calls the first c - 1 candidates of a task may have used.
Allowance(t, c) == (c - 1) * (MaxRetries[t] + 1)

BudgetByPhase(t) ==
    /\ phase[t] \in {"idle", "queued"} => calls[t] = 0 /\ tries[t] = 0 /\ current[t] = 1
    /\ phase[t] = "attempt" =>
            /\ calls[t] <= Allowance(t, current[t]) + tries[t]
            /\ tries[t] <= MaxRetries[t]
            /\ current[t] <= total[t] \/ (current[t] = total[t] + 1 /\ tries[t] = 0)
    /\ phase[t] \in {"calling", "spawning", "raised"} =>
            /\ calls[t] <= Allowance(t, current[t]) + tries[t]
            /\ tries[t] <= MaxRetries[t] + 1
            /\ current[t] <= total[t]

BudgetInv == \A t \in Tasks : BudgetByPhase(t)

LEMMA AllowanceStep ==
  ASSUME NEW t \in Tasks, NEW c \in Nat \ {0}
  PROVE  /\ Allowance(t, c) \in Nat
         /\ Allowance(t, 1) = 0
         /\ Allowance(t, c + 1) = Allowance(t, c) + MaxRetries[t] + 1
         /\ Allowance(t, c + 1) = c * (MaxRetries[t] + 1)
<1>1. MaxRetries[t] \in Nat
  BY ExecutorAssumption
<1>2. \A m \in Nat, k \in Nat : k * (m + 1) \in Nat /\ (k + 1) * (m + 1) = k * (m + 1) + m + 1
  OBVIOUS
<1>3. c - 1 \in Nat /\ c = (c - 1) + 1 /\ (c + 1) - 1 = c
  OBVIOUS
<1>4. QED
  BY <1>1, <1>2, <1>3 DEF Allowance

LEMMA AllowanceGrows ==
  ASSUME NEW t \in Tasks, NEW c \in Nat \ {0}, NEW n \in Nat \ {0}, c <= n
  PROVE  Allowance(t, c) <= Allowance(t, n)
<1>1. MaxRetries[t] \in Nat
  BY ExecutorAssumption
<1>2. \A m \in Nat, i \in Nat, j \in Nat : i <= j => i * (m + 1) <= j * (m + 1)
  OBVIOUS
<1>3. c - 1 \in Nat /\ n - 1 \in Nat /\ c - 1 <= n - 1
  OBVIOUS
<1>4. QED
  BY <1>1, <1>2, <1>3 DEF Allowance

LEMMA InitBudgetInv == Init => BudgetInv
BY DEF Init, BudgetInv, BudgetByPhase

\* A failed call leaves the worker with budget for the next, or with none to
\* make.
LEMMA AfterFailureBudget ==
  ASSUME TypeOK, NEW t \in Tasks, phase[t] \in {"calling", "spawning"},
         BudgetByPhase(t), AfterFailure(t) \/ NextCandidate(t),
         calls'[t] = calls[t], total'[t] = total[t]
  PROVE  BudgetByPhase(t)'
<1>1. /\ current[t] \in Nat \ {0} /\ tries[t] \in Nat /\ calls[t] \in Nat
      /\ total[t] \in Nat /\ MaxRetries[t] \in Nat
  BY ExecutorAssumption DEF TypeOK
<1>2. /\ calls[t] <= Allowance(t, current[t]) + tries[t]
      /\ tries[t] <= MaxRetries[t] + 1
      /\ current[t] <= total[t]
  BY DEF BudgetByPhase
<1>3. CASE Backoff(t) /\ tries[t] <= MaxRetries[t]
  <2>1. phase'[t] \in {"attempt", "raised"} /\ current'[t] = current[t] /\ tries'[t] = tries[t]
    BY <1>3 DEF Backoff, TypeOK
  <2>2. QED
    BY <1>1, <1>2, <1>3, <2>1 DEF BudgetByPhase, Allowance
<1>4. CASE NextCandidate(t)
  <2>1. current'[t] = current[t] + 1 /\ tries'[t] = 0 /\ phase'[t] = "attempt"
    BY <1>4 DEF NextCandidate, TypeOK
  <2>2. /\ Allowance(t, current[t] + 1) = Allowance(t, current[t]) + MaxRetries[t] + 1
        /\ Allowance(t, current[t]) \in Nat
    BY <1>1, AllowanceStep
  <2>3. calls'[t] <= Allowance(t, current[t] + 1) + 0
    BY <1>1, <1>2, <2>2
  <2>4. current[t] + 1 <= total[t] \/ (current[t] + 1 = total[t] + 1 /\ 0 = 0)
    BY <1>1, <1>2
  <2>5. QED
    BY <1>1, <2>1, <2>3, <2>4 DEF BudgetByPhase, Allowance
<1>5. QED
  BY <1>3, <1>4 DEF AfterFailure

LEMMA RunTaskBudgetInv ==
  ASSUME TypeInv, BudgetInv, NEW t \in Tasks, RunTask(t)
  PROVE  BudgetInv'
<1> USE DEF TypeInv
<1>1. \A u \in Tasks \ {t} : BudgetByPhase(u)'
  BY RunTaskFrame DEF BudgetInv, BudgetByPhase, Allowance
<1>2. /\ current[t] \in Nat \ {0} /\ tries[t] \in Nat /\ calls[t] \in Nat
      /\ total[t] \in Nat /\ MaxRetries[t] \in Nat
  BY ExecutorAssumption DEF TypeOK
<1>3. BudgetByPhase(t)
  BY DEF BudgetInv
<1>4. CASE StartTask(t)
  <2>1. /\ phase[t] = "queued" /\ phase'[t] = "attempt" /\ total'[t] \in Nat
        /\ current'[t] = current[t] /\ tries'[t] = tries[t] /\ calls'[t] = calls[t]
    BY <1>4, ExecutorAssumption DEF StartTask, TypeOK
  <2>2. Allowance(t, 1) = 0
    BY AllowanceStep
  <2>3. calls[t] = 0 /\ tries[t] = 0 /\ current[t] = 1
    BY <1>3, <2>1 DEF BudgetByPhase
  <2>4. /\ phase'[t] = "attempt" /\ calls'[t] = 0 /\ tries'[t] = 0 /\ current'[t] = 1
        /\ 0 <= Allowance(t, 1) + 0 /\ 0 <= MaxRetries[t]
        /\ 1 <= total'[t] \/ 1 = total'[t] + 1
    BY <1>2, <2>1, <2>2, <2>3
  <2>5. BudgetByPhase(t)'
    BY <2>4 DEF BudgetByPhase, Allowance
  <2>6. QED
    BY <1>1, <2>5 DEF BudgetInv
<1>5. CASE Exhausted(t) \/ CancelledAttempt(t) \/ TaskEnd(t)
  <2>1. phase'[t] = "idle" /\ calls'[t] = 0 /\ tries'[t] = 0 /\ current'[t] = 1
    BY <1>5 DEF Exhausted, CancelledAttempt, TaskEnd, GiveUp, Leave, TypeOK
  <2>2. QED
    BY <1>1, <2>1 DEF BudgetInv, BudgetByPhase
<1>6. CASE CallAgent(t)
  <2>1. /\ phase[t] = "attempt" /\ phase'[t] = "calling" /\ current[t] <= total[t]
        /\ calls'[t] = calls[t] + 1 /\ tries'[t] = tries[t] + 1
        /\ current'[t] = current[t] /\ total'[t] = total[t]
    BY <1>6 DEF CallAgent, TypeOK
  <2>2. Allowance(t, current[t]) \in Nat
    BY <1>2, AllowanceStep
  <2>3. /\ calls[t] + 1 <= Allowance(t, current[t]) + (tries[t] + 1)
        /\ tries[t] + 1 <= MaxRetries[t] + 1
    BY <1>2, <1>3, <2>1, <2>2 DEF BudgetByPhase
  <2>4. BudgetByPhase(t)'
    BY <2>1, <2>3 DEF BudgetByPhase, Allowance
  <2>5. QED
    BY <1>1, <2>4 DEF BudgetInv
<1>7. CASE TimeOut(t) \/ Raise(t) \/ Unavailable(t) \/ MalformedFollowup(t)
  <2>1. /\ phase[t] \in {"calling", "spawning"}
        /\ AfterFailure(t) \/ NextCandidate(t)
        /\ calls'[t] = calls[t] /\ total'[t] = total[t]
    BY <1>7 DEF TimeOut, Raise, Unavailable, MalformedFollowup
  <2>2. BudgetByPhase(t)'
    BY <1>3, <2>1, AfterFailureBudget
  <2>3. QED
    BY <1>1, <2>2 DEF BudgetInv
<1>8. CASE SpawnFollowup(t)
           \/ \E s \in AnswerStatuses, fs \in FollowupLists : Answer(t, s, fs)
  <2>1. /\ phase[t] \in {"calling", "spawning"} /\ phase'[t] = "spawning"
        /\ UNCHANGED <<calls, tries, current, total>>
    BY <1>8 DEF Answer, SpawnFollowup, TypeOK
  <2>2. BudgetByPhase(t)'
    BY <1>3, <2>1 DEF BudgetByPhase, Allowance
  <2>3. QED
    BY <1>1, <2>2 DEF BudgetInv
<1>9. QED
  BY <1>4, <1>5, <1>6, <1>7, <1>8 DEF RunTask, CallEnds

LEMMA StepBudgetInv == TypeInv /\ OrderInv /\ BudgetInv /\ [Next]_vars => BudgetInv'
<1> SUFFICES ASSUME TypeInv, OrderInv, BudgetInv, [Next]_vars
             PROVE  BudgetInv'
  OBVIOUS
<1>1. CASE UNCHANGED <<phase, calls, total, current, tries>>
  BY <1>1 DEF BudgetInv, BudgetByPhase, Allowance
<1>2. CASE LoopWave
  <2>1. /\ UNCHANGED <<calls, total, current, tries>>
        /\ \A t \in Tasks : phase'[t] = phase[t]
                             \/ (phase[t] = "idle" /\ phase'[t] = "queued")
    <3>1. \A t \in Tasks : phase[t] = "idle"
      BY <1>2 DEF LoopWave, OrderInv, WaveBarrier
    <3>2. QED
      BY <1>2, <3>1 DEF LoopWave
  <2>2. \A t \in Tasks : BudgetByPhase(t)'
    BY <2>1 DEF BudgetInv, BudgetByPhase, Allowance
  <2>3. QED
    BY <2>2 DEF BudgetInv
<1>3. QED
  BY <1>1, <1>2, RunTaskBudgetInv
  DEF Next, RunMission, Cancel, Expire, LateAnswer, LoopExit, LoopTimeout, LoopBlocked,
      WaveEnd, WaveRaises, Finish, Returned, vars, worker

\* Whenever a worker takes a task it calls an agent at most max_retries + 1
\* times per candidate: timeouts, exceptions, unavailable agents and answers
\* thrown away in the middle, in any order, share one budget.  And a task that
\* was called is only queued again because its agent answered "pending".
THEOREM AttemptsAreBounded == Spec => []AttemptBudget
<1>1. TypeInv /\ FlowInv /\ BudgetInv => AttemptBudget
  <2> SUFFICES ASSUME TypeInv, BudgetInv, NEW t \in Tasks
               PROVE  calls[t] <= total[t] * (MaxRetries[t] + 1)
    BY DEF AttemptBudget, FlowInv
  <2>1. /\ current[t] \in Nat \ {0} /\ tries[t] \in Nat /\ calls[t] \in Nat
        /\ total[t] \in Nat /\ MaxRetries[t] \in Nat /\ phase[t] \in Phases
    BY ExecutorAssumption DEF TypeInv, TypeOK
  <2>2. /\ Allowance(t, total[t] + 1) = total[t] * (MaxRetries[t] + 1)
        /\ Allowance(t, total[t] + 1) \in Nat
    <3>1. total[t] + 1 \in Nat \ {0} /\ (total[t] + 1) - 1 = total[t]
      BY <2>1
    <3>2. Allowance(t, total[t] + 1) \in Nat
      BY <3>1, AllowanceStep
    <3>3. QED
      BY <3>1, <3>2 DEF Allowance
  <2>3. /\ Allowance(t, current[t] + 1) = Allowance(t, current[t]) + MaxRetries[t] + 1
        /\ Allowance(t, current[t]) \in Nat
    BY <2>1, AllowanceStep
  <2>4. BudgetByPhase(t)
    BY DEF BudgetInv
  <2>5. CASE phase[t] \in {"queued", "idle"}
    BY <2>1, <2>2, <2>4, <2>5 DEF BudgetByPhase
  <2>6. CASE current[t] <= total[t] /\ calls[t] <= Allowance(t, current[t]) + tries[t]
             /\ tries[t] <= MaxRetries[t] + 1
    <3>1. Allowance(t, current[t] + 1) <= Allowance(t, total[t] + 1)
      BY <2>1, <2>6, AllowanceGrows
    <3>2. QED
      BY <2>1, <2>2, <2>3, <2>6, <3>1
  <2>7. CASE current[t] = total[t] + 1 /\ tries[t] = 0
             /\ calls[t] <= Allowance(t, current[t]) + tries[t]
    BY <2>1, <2>2, <2>7
  <2>8. QED
    <3>1. CASE phase[t] = "attempt"
      BY <2>1, <2>4, <2>6, <2>7, <3>1 DEF BudgetByPhase
    <3>2. CASE phase[t] \in {"calling", "spawning", "raised"}
      BY <2>1, <2>4, <2>6, <3>2 DEF BudgetByPhase
    <3>3. QED
      BY <2>1, <2>5, <3>1, <3>2 DEF Phases
<1>2. QED
  BY InitTypeInv, InitOrderInv, InitFlowInv, InitBudgetInv, StepTypeInv, StepOrderInv,
     StepFlowInv, StepBudgetInv, <1>1, PTL DEF Spec
-----------------------------------------------------------------------------
(* The order of a wave.  PriorityRespected needs the barrier between waves *)
(* (OrderInv): a wave is queued when no task is being worked on, and from  *)
(* then on the queue only shrinks.                                         *)

LEMMA StepPriority ==
  TypeInv /\ OrderInv /\ PriorityRespected /\ [Next]_vars => PriorityRespected'
<1> SUFFICES ASSUME TypeInv, OrderInv, PriorityRespected, [Next]_vars
             PROVE  PriorityRespected'
  OBVIOUS
<1> USE DEF TypeInv
<1>1. CASE UNCHANGED phase
  BY <1>1 DEF PriorityRespected, Active
<1>2. CASE LoopWave
  <2>1. \A t \in Tasks : phase[t] = "idle"
    BY <1>2 DEF LoopWave, OrderInv, WaveBarrier
  <2>2. \A t \in Tasks : phase'[t] \in {"idle", "queued"}
    BY <1>2, <2>1 DEF LoopWave
  <2>3. QED
    BY <2>2 DEF PriorityRespected, Active
<1>3. ASSUME NEW t \in Tasks, RunTask(t) PROVE PriorityRespected'
  <2>1. \A u \in Tasks \ {t} : phase'[u] = phase[u]
    BY <1>3, RunTaskFrame
  <2>2. phase'[t] # "queued"
    <3>1. CASE TimeOut(t) \/ Raise(t) \/ Unavailable(t) \/ MalformedFollowup(t)
      <4>1. AfterFailure(t) \/ NextCandidate(t)
        BY <3>1 DEF TimeOut, Raise, Unavailable, MalformedFollowup
      <4>2. QED
        BY <4>1, AfterFailureType
    <3>2. QED
      BY <1>3, <3>1 DEF RunTask, StartTask, Exhausted, CancelledAttempt, CallAgent,
         CallEnds, Answer, SpawnFollowup, TaskEnd, GiveUp, Leave, TypeOK
  <2>3. CASE StartTask(t)
    <3>1. \A u \in Tasks : phase[u] = "queued" => Priority[t] <= Priority[u]
      BY <2>3 DEF StartTask
    <3>2. QED
      BY <2>1, <2>2, <3>1 DEF PriorityRespected, Active
  <2>4. CASE ~StartTask(t)
    <3>1. t \in Active
      BY <1>3, <2>4 DEF RunTask, Exhausted, CancelledAttempt, CallAgent,
         CallEnds, Answer, TimeOut, Raise, Unavailable, SpawnFollowup,
         MalformedFollowup, TaskEnd, Active
    <3>2. QED
      BY <2>1, <2>2, <3>1 DEF PriorityRespected, Active
  <2>5. QED
    BY <2>3, <2>4
<1>4. QED
  BY <1>1, <1>2, <1>3
  DEF Next, RunMission, Cancel, Expire, LateAnswer, LoopExit, LoopTimeout,
      LoopBlocked, WaveEnd, WaveRaises, Finish, Returned, vars, worker

\* A pool of any size takes a wave in the order of its priorities.
THEOREM UrgentFirst == Spec => []PriorityRespected
<1>1. Init => PriorityRespected
  BY DEF Init, PriorityRespected, Active
<1>2. QED
  BY InitTypeInv, InitOrderInv, StepTypeInv, StepOrderInv, StepPriority, <1>1, PTL
  DEF Spec
-----------------------------------------------------------------------------
(* What "blocked" means.  Only LoopBlocked writes it, when no task is      *)
(* ready, and the mission is over then: BlockedInv adds that the runner    *)
(* does not come back to its loop, so no dependency is done afterwards.    *)

BlockedInv ==
    \A t \in Tasks : error[t] = "blocked" =>
        /\ pc \in {"finish", "done"}
        /\ IF DepsDone(ids, deps, status, t)
           THEN attempts[t] > 0 /\ results[t] = "running"
           ELSE attempts[t] = 0

\* Who is being called, or has answered, was called.
AnsweredInv ==
    \A t \in Tasks :
        results[t] # "none" \/ phase[t] \in {"calling", "spawning"} => attempts[t] > 0

LEMMA StepAnsweredInv == TypeInv /\ AnsweredInv /\ [Next]_vars => AnsweredInv'
<1> SUFFICES ASSUME TypeInv, AnsweredInv, [Next]_vars PROVE AnsweredInv'
  OBVIOUS
<1> USE DEF TypeInv
<1>1. CASE UNCHANGED <<attempts, results, phase>>
  BY <1>1 DEF AnsweredInv
<1>2. CASE LoopWave
  BY <1>2 DEF LoopWave, AnsweredInv
<1>3. ASSUME NEW t \in Tasks, RunTask(t) PROVE AnsweredInv'
  <2>1. \A u \in Tasks \ {t} : /\ attempts'[u] = attempts[u] /\ results'[u] = results[u]
                               /\ phase'[u] = phase[u]
    BY <1>3, RunTaskFrame
  <2>2. CASE CallAgent(t)
    <3>1. attempts'[t] > 0
      BY <2>2, ExecutorAssumption DEF CallAgent, TypeOK
    <3>2. QED
      BY <2>1, <3>1 DEF AnsweredInv
  <2>3. CASE SpawnFollowup(t)
             \/ \E s \in AnswerStatuses, fs \in FollowupLists : Answer(t, s, fs)
    <3>1. attempts' = attempts /\ phase[t] \in {"calling", "spawning"}
      BY <2>3 DEF SpawnFollowup, Answer, node
    <3>2. QED
      BY <2>1, <3>1 DEF AnsweredInv
  <2>4. CASE /\ phase'[t] \notin {"calling", "spawning"}
             /\ UNCHANGED <<attempts, results>>
    BY <2>1, <2>4 DEF AnsweredInv
  <2>5. QED
    <3>1. CASE StartTask(t) \/ Exhausted(t) \/ CancelledAttempt(t) \/ TaskEnd(t)
      BY <2>4, <3>1 DEF StartTask, Exhausted, CancelledAttempt, TaskEnd, GiveUp,
         Leave, node, TypeOK
    <3>2. CASE TimeOut(t) \/ Raise(t) \/ Unavailable(t) \/ MalformedFollowup(t)
      <4>1. (AfterFailure(t) \/ NextCandidate(t)) /\ UNCHANGED node
        BY <3>2 DEF TimeOut, Raise, Unavailable, MalformedFollowup
      <4>2. QED
        BY <2>4, <4>1, AfterFailureType DEF node
    <3>3. QED
      BY <1>3, <2>2, <2>3, <3>1, <3>2 DEF RunTask, CallEnds
<1>4. QED
  BY <1>1, <1>2, <1>3
  DEF Next, RunMission, Cancel, Expire, LateAnswer, LoopExit, LoopTimeout, LoopBlocked,
      WaveEnd, WaveRaises, Finish, Returned, vars, node, worker

LEMMA StepBlockedInv ==
  TypeInv /\ OrderInv /\ FlowInv /\ AnsweredInv /\ BlockedInv /\ [Next]_vars => BlockedInv'
<1> SUFFICES ASSUME TypeInv, OrderInv, FlowInv, AnsweredInv, BlockedInv, [Next]_vars
             PROVE  BlockedInv'
  OBVIOUS
<1> USE DEF TypeInv
<1>1. CASE UNCHANGED <<ids, deps, status, error, attempts, results, pc>>
  BY <1>1 DEF BlockedInv, DepsDone
<1>2. ASSUME NEW t \in Tasks, RunTask(t) PROVE BlockedInv'
  <2>1. pc = "wave"
    BY <1>2, RunTaskFrame DEF OrderInv, WaveBarrier, TypeOK
  <2>2. \A u \in Tasks : error[u] # "blocked"
    BY <2>1 DEF BlockedInv
  <2>3. error'[t] # "blocked"
    BY <1>2, <2>2 DEF RunTask, StartTask, Exhausted, CancelledAttempt, CallAgent, CallEnds,
       Answer, TimeOut, Raise, Unavailable, SpawnFollowup, MalformedFollowup,
       TaskEnd, GiveUp, node, TypeOK
  <2>4. QED
    BY <1>2, <2>2, <2>3, RunTaskFrame DEF BlockedInv
<1>3. CASE LoopExit \/ LoopWave \/ WaveEnd \/ WaveRaises
  <2>1. \A u \in Tasks : error[u] # "blocked"
    BY <1>3 DEF LoopExit, LoopWave, WaveEnd, WaveRaises, BlockedInv
  <2>2. UNCHANGED error
    BY <1>3 DEF LoopExit, LoopWave, WaveEnd, WaveRaises, node
  <2>3. QED
    BY <2>1, <2>2 DEF BlockedInv
<1>4. CASE LoopTimeout
  <2>1. \A u \in Tasks : error[u] # "blocked"
    BY <1>4 DEF LoopTimeout, BlockedInv
  <2>2. \A u \in Tasks : error'[u] \in {error[u], "mission_timeout"}
    BY <1>4 DEF LoopTimeout, FailRemaining
  <2>3. QED
    BY <2>1, <2>2 DEF BlockedInv
<1>5. CASE LoopBlocked
  <2>1. /\ pc = "loop" /\ pc' = "finish" /\ Ready = {} /\ FailRemaining("blocked")
        /\ UNCHANGED <<ids, deps, attempts, results>>
    BY <1>5 DEF LoopBlocked, graph
  <2>2. \A t \in Tasks : error[t] # "blocked" /\ phase[t] = "idle"
    BY <2>1 DEF BlockedInv, OrderInv, WaveBarrier
  <2>3. \A t \in Tasks :
          error'[t] = "blocked" => t \in ids /\ status[t] \in {"pending", "running"}
    BY <2>1, <2>2 DEF FailRemaining
  <2>4. \A t \in Tasks : DepsDone(ids, deps, status, t)' <=> DepsDone(ids, deps, status, t)
    BY <2>1, FailRemainingKeepsDone DEF DepsDone, TypeOK
  <2>5. \A t \in Tasks : attempts[t] > 0 => DepsDone(ids, deps, status, t)
    BY DEF OrderInv, DepsFirst, DepsSettled, DepsDone
  <2>6. \A t \in ids : status[t] = "pending" => ~DepsDone(ids, deps, status, t)
    BY <2>1 DEF Ready, ReadyTasks
  <2>7. \A t \in Tasks : status[t] = "running" => attempts[t] > 0 /\ results[t] = "running"
    BY <2>2 DEF FlowInv, AnsweredInv
  <2>8. \A t \in Tasks : attempts[t] \in Nat
    BY DEF TypeOK
  <2>9. QED
    BY <2>1, <2>3, <2>4, <2>5, <2>6, <2>7, <2>8 DEF BlockedInv
<1>6. CASE Finish
  <2>1. pc' = "done" /\ UNCHANGED <<ids, deps, status, error, attempts, results>>
    BY <1>6 DEF Finish, graph, node
  <2>2. QED
    BY <2>1 DEF BlockedInv, DepsDone
<1>7. QED
  BY <1>1, <1>2, <1>3, <1>4, <1>5, <1>6
  DEF Next, RunMission, Cancel, Expire, LateAnswer, Returned, vars, graph, node,
      control

\* A task reported as blocked was never handed to an agent, and one of its
\* dependencies failed, stayed open or does not exist; or it was handed to one
\* that answered "running", and nothing it needed was missing.
THEOREM BlockedIsTrue == Spec => []BlockedHasUnmetDependency
<1>1. Init => BlockedInv /\ AnsweredInv
  BY DEF Init, BlockedInv, AnsweredInv
<1>2. BlockedInv => BlockedHasUnmetDependency
  BY DEF BlockedInv, BlockedHasUnmetDependency
<1>3. QED
  BY InitTypeInv, InitOrderInv, InitFlowInv, StepTypeInv, StepOrderInv,
     StepFlowInv, StepAnsweredInv, StepBlockedInv, <1>1, <1>2, PTL DEF Spec
=============================================================================

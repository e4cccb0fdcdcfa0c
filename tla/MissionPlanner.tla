--------------------------- MODULE MissionPlanner ---------------------------
(***************************************************************************)
(* plan_mission: a template's tasks are added one by one, then the graph   *)
(* is validated: every dependency must exist, and Kahn's algorithm must    *)
(* reach every task.  A task is its id and its depends_on list, which may  *)
(* name a task twice.                                                      *)
(***************************************************************************)
EXTENDS Naturals, Sequences, FiniteSets, SequencesExt, TaskGraph

CONSTANTS PlLength,  \* bound: tasks of a template
          PlDepends  \* the depends_on lists a task may have

ASSUME PlAssumption == PlLength \in Nat /\ PlDepends \subseteq Seq(Nat)

VARIABLES
    plTasks,   \* the template: a sequence of [id, deps]
    plNodes,   \* how many of them are in the graph
    plIndeg,   \* id -> in-degree
    plQueue,   \* tasks of in-degree 0 still to be taken
    plSeen,    \* how many were taken
    plVerdict  \* none | adding | sorting | planned | rejected

plVars == <<plTasks, plNodes, plIndeg, plQueue, plSeen, plVerdict>>

PlIds == 1..PlLength

PlTypeOK ==
    /\ plNodes \in 0..PlLength
    /\ plIndeg \in [PlIds -> Nat]
    /\ plQueue \in Seq(PlIds)
    /\ plSeen \in 0..PlLength
    /\ plVerdict \in {"none", "adding", "sorting", "planned", "rejected"}

PlInit ==
    /\ plTasks = <<>>
    /\ plNodes = 0
    /\ plIndeg = [i \in PlIds |-> 0]
    /\ plQueue = <<>> /\ plSeen = 0
    /\ plVerdict = "none"

\* Ids are named in the order they first appear, which loses nothing.
Template ==
    /\ plVerdict = "none"
    /\ \E n \in 1..PlLength :
        plTasks' \in {ts \in [1..n -> [id : 1..n, deps : PlDepends]] :
            \A k \in 1..n : ts[k].id <= k}
    /\ plVerdict' = "adding"
    /\ UNCHANGED <<plNodes, plIndeg, plQueue, plSeen>>

Added == {plTasks[k].id : k \in 1..plNodes}

AddTask ==
    /\ plVerdict = "adding" /\ plNodes < Len(plTasks)
    /\ IF plTasks[plNodes + 1].id \in Added
       THEN plVerdict' = "rejected" /\ UNCHANGED plNodes
       ELSE plNodes' = plNodes + 1 /\ UNCHANGED plVerdict
    /\ UNCHANGED <<plTasks, plIndeg, plQueue, plSeen>>

DepsOf(i) == plTasks[CHOOSE k \in DOMAIN plTasks : plTasks[k].id = i].deps

\* The dictionary of in-degrees holds the ids in the order they were added.
InIdOrder(ids) ==
    CHOOSE s \in [1..Cardinality(ids) -> ids] :
        \A i, j \in DOMAIN s : i < j => s[i] < s[j]

Validate ==
    /\ plVerdict = "adding" /\ plNodes = Len(plTasks)
    /\ IF \A i \in Added : Range(DepsOf(i)) \subseteq Added
       THEN /\ plVerdict' = "sorting"
            /\ plIndeg' = [i \in PlIds |-> IF i \in Added THEN Len(DepsOf(i)) ELSE 0]
            /\ plQueue' = InIdOrder({i \in Added : DepsOf(i) = <<>>})
       ELSE plVerdict' = "rejected" /\ UNCHANGED <<plIndeg, plQueue>>
    /\ UNCHANGED <<plTasks, plNodes, plSeen>>

\* What taking a task adds to the queue.
Freed(indeg, before) == {i \in Added : indeg[i] = 0 /\ before[i] # 0}

\* The last of the queue is taken; a task that depends on it twice is counted
\* down once.
TakeTask ==
    LET tid == Last(plQueue)
        indeg == [i \in PlIds |->
            IF i \in Added /\ Contains(DepsOf(i), tid) THEN plIndeg[i] - 1 ELSE plIndeg[i]] IN
    /\ plVerdict = "sorting" /\ plQueue # <<>>
    /\ plSeen' = plSeen + 1
    /\ plIndeg' = indeg
    /\ plQueue' = Front(plQueue) \o InIdOrder(Freed(indeg, plIndeg))
    /\ UNCHANGED <<plTasks, plNodes, plVerdict>>

\* Variant of EndSort: the queue running dry is enough.
EndSortAlways ==
    /\ plVerdict = "sorting" /\ plQueue = <<>>
    /\ plVerdict' = "planned"
    /\ UNCHANGED <<plTasks, plNodes, plIndeg, plQueue, plSeen>>

EndSort ==
    /\ plVerdict = "sorting" /\ plQueue = <<>>
    /\ plVerdict' = IF plSeen = plNodes THEN "planned" ELSE "rejected"
    /\ UNCHANGED <<plTasks, plNodes, plIndeg, plQueue, plSeen>>

PlNext == Template \/ AddTask \/ Validate \/ TakeTask \/ EndSort

PlSpec == PlInit /\ [][PlNext]_plVars

(***************************************************************************)
(* What the executor takes for granted                                     *)
(***************************************************************************)
TemplateIds == {plTasks[k].id : k \in DOMAIN plTasks}

WellFormed ==
    /\ Cardinality(TemplateIds) = Len(plTasks)
    /\ ValidGraph(TemplateIds, [i \in TemplateIds |-> Range(DepsOf(i))])

\* A planned mission has no two tasks of one id, none that waits for a task
\* that is not there, and none that waits for itself: the graphs the executor
\* (MissionExecutor) starts from are all there are.
PlannedIsValid == plVerdict = "planned" => WellFormed

\* A valid template is planned, unless a task lists a dependency twice: that
\* is counted twice, paid once, and reported as a cycle.
ValidIsPlanned ==
    plVerdict = "rejected" =>
        ~WellFormed \/ \E i \in TemplateIds : ~IsInjective(DepsOf(i))

\* The planner takes the valid templates and no others, but for a doubled
\* dependency.
PlanSound == PlannedIsValid /\ ValidIsPlanned
=============================================================================

-------------------------- MODULE FoundrySessions --------------------------
(***************************************************************************)
(* AzureFoundrySessionManager                                              *)
(* (dvsa_api/reasoning/azure_session_manager.py) under concurrent requests.*)
(*                                                                         *)
(* A session is one shared object; the store only says whether its id is   *)
(* known.  Every request runs on its own thread; the store's lock covers a *)
(* single get, put, pop or count, so between two of them anything may      *)
(* happen: a heartbeat may put back a session that a teardown has popped,  *)
(* two creates may pass the same quota check, two inference calls may      *)
(* accrue their cost on the same old value.  Clients create sessions, beat,*)
(* infer and tear down; sweepers are the periodic job that reaps sessions. *)
(***************************************************************************)
EXTENDS Naturals, Sequences, FiniteSets

CONSTANTS
    Threads,     \* request threads and periodic jobs
    Sweepers,    \* the threads among them that only run sweep
    Sessions,    \* every session id that can be drawn
    NoSession,
    Owner,       \* user of a session, or Nobody
    Nobody,
    MaxActive,   \* FOUNDRY_MAX_ACTIVE_SESSIONS
    MaxPerUser,  \* FOUNDRY_MAX_ACTIVE_SESSIONS_PER_USER
    SoftLimit,   \* cost at which inference needs force
    MaxCost,     \* max_cost_usd
    CallCosts,   \* what one inference call may cost
    Forces,      \* the values of "force" that clients send
    Backends,    \* among "sdk", "terraform" and "dryrun"
    Stuck,       \* sessions whose resource group can never be deleted
    CostBound,   \* model bound of a session's cost
    Ageing       \* model bound: the sessions whose clocks may run out

ASSUME FoundryAssumption ==
    /\ IsFiniteSet(Threads) /\ Threads # {} /\ Sweepers \subseteq Threads
    /\ IsFiniteSet(Sessions) /\ NoSession \notin Sessions
    /\ MaxActive \in Nat /\ MaxPerUser \in Nat
    /\ SoftLimit \in Nat /\ MaxCost \in Nat \ {0} /\ CostBound \in Nat
    /\ CallCosts \subseteq Nat
    /\ Forces \subseteq BOOLEAN
    /\ Backends \subseteq {"sdk", "terraform", "dryrun"}
    /\ Stuck \subseteq Sessions /\ Ageing \subseteq Sessions

VARIABLES
    backend,  \* how the manager was configured; it does not change
    store,    \* ids in SessionStore._data
    order,    \* the same ids in the order of the dict
    issued,   \* ids drawn for a create that has passed the global quota
    status,   \* FoundrySession.status; "none" before the object exists
    cost,     \* usage.estimated_cost_usd
    expired,  \* sessions past expires_at
    idle,     \* sessions past the inactivity timeout
    res,      \* the session's cloud resources: none | partial | full
    keys,     \* sessions whose endpoint key is in the vault
    pc,       \* where each thread is
    sid,      \* the session it works on
    why,      \* reason of the teardown it runs
    seen,     \* the cost it read before adding to it
    todo      \* rest of the snapshot a sweep walks through

sessionVars == <<issued, status, cost, expired, idle>>
cloudVars   == <<res, keys>>
storeVars   == <<store, order>>
threadVars  == <<pc, sid, why, seen, todo>>
vars == <<backend, store, order, issued, status, cost, expired, idle, res, keys,
          pc, sid, why, seen, todo>>

Clients == Threads \ Sweepers

Creating == {"user", "group", "secret", "cleanup", "put"}
Tearing  == {"pop", "delete", "scrub", "reinsert"}
Labels   == {"free", "beat", "call", "accrue", "write", "stop", "over", "sweep"}
                \cup Creating \cup Tearing
Reasons  == {"none", "manual", "expired", "hard", "sweep"}

Init ==
    /\ backend \in Backends
    /\ store = {} /\ order = <<>>
    /\ issued = {}
    /\ status = [s \in Sessions |-> "none"]
    /\ cost = [s \in Sessions |-> 0]
    /\ expired = {} /\ idle = {}
    /\ res = [s \in Sessions |-> "none"]
    /\ keys = {}
    /\ pc = [p \in Threads |-> "free"]
    /\ sid = [p \in Threads |-> NoSession]
    /\ why = [p \in Threads |-> "none"]
    /\ seen = [p \in Threads |-> 0]
    /\ todo = [p \in Threads |-> <<>>]
-----------------------------------------------------------------------------
(* The store.                                                              *)

\* SessionStore.put: a key already in the dict keeps its place.
Put(s) ==
    /\ store' = store \cup {s}
    /\ order' = IF s \in store THEN order ELSE Append(order, s)

\* SessionStore.pop of a session that is there.
Remove(s) ==
    /\ store' = store \ {s}
    /\ \E i \in DOMAIN order :
        /\ order[i] = s
        /\ order' = SubSeq(order, 1, i - 1) \o SubSeq(order, i + 1, Len(order))

\* Moves of a thread: take up a session, go on with it, be done with it.
Take(p, s, l) ==
    /\ pc[p] = "free"
    /\ pc' = [pc EXCEPT ![p] = l]
    /\ sid' = [sid EXCEPT ![p] = s]

Goto(p, l) ==
    /\ pc' = [pc EXCEPT ![p] = l]
    /\ UNCHANGED <<sid, why, seen, todo>>

Leave(p) ==
    /\ pc' = [pc EXCEPT ![p] = "free"]
    /\ sid' = [sid EXCEPT ![p] = NoSession]
    /\ why' = [why EXCEPT ![p] = "none"]
    /\ seen' = [seen EXCEPT ![p] = 0]
    /\ todo' = [todo EXCEPT ![p] = <<>>]
-----------------------------------------------------------------------------
(* create_session.                                                         *)

\* Variant of CheckQuota: off by one.
CheckQuotaAtMost(p) ==
    /\ p \in Clients
    /\ Cardinality(store) <= MaxActive
    /\ \E s \in Sessions \ issued :
        /\ Take(p, s, "user")
        /\ issued' = issued \cup {s}
    /\ UNCHANGED <<storeVars, status, cost, expired, idle, cloudVars, why, seen,
                   todo>>

\* The global limit of _check_quota; the id is the one drawn later.
CheckQuota(p) ==
    /\ p \in Clients
    /\ Cardinality(store) < MaxActive
    /\ \E s \in Sessions \ issued :
        /\ Take(p, s, "user")
        /\ issued' = issued \cup {s}
    /\ UNCHANGED <<storeVars, status, cost, expired, idle, cloudVars, why, seen,
                   todo>>

\* The per-user limit, read after the global one.
CheckUser(p) ==
    /\ pc[p] = "user"
    /\ LET u == Owner[sid[p]] IN
        \/ u = Nobody
        \/ Cardinality({s \in store : Owner[s] = u}) < MaxPerUser
    /\ Goto(p, "group")
    /\ UNCHANGED <<storeVars, sessionVars, cloudVars>>

\* The user is at the limit, or the cost estimate exceeds the cap: nothing
\* has been created and no id was drawn.
RejectCreate(p) ==
    /\ pc[p] = "user"
    /\ issued' = issued \ {sid[p]}
    /\ Leave(p)
    /\ UNCHANGED <<storeVars, status, cost, expired, idle, cloudVars>>

\* ensure_resource_group, or terraform plan and apply with return code 0.
\* Only the other two backends go on to write the endpoint key.
MakeGroup(p) ==
    /\ pc[p] = "group"
    /\ res' = IF backend = "dryrun" THEN res ELSE [res EXCEPT ![sid[p]] = "full"]
    /\ Goto(p, IF backend = "terraform" THEN "put" ELSE "secret")
    /\ UNCHANGED <<storeVars, sessionVars, keys>>

\* ProvisioningError, with or without something left behind.
GroupFails(p) ==
    /\ pc[p] = "group"
    /\ backend # "dryrun"
    /\ \E left \in {"none", "partial"} : res' = [res EXCEPT ![sid[p]] = left]
    /\ Goto(p, "cleanup")
    /\ UNCHANGED <<storeVars, sessionVars, keys>>

\* "terraform init" is run with check=True: what it raises is not a
\* ProvisioningError and goes past the cleanup.
InitRaises(p) ==
    /\ pc[p] = "group"
    /\ backend = "terraform"
    /\ Leave(p)
    /\ UNCHANGED <<storeVars, sessionVars, cloudVars>>

MakeSecret(p) ==
    /\ pc[p] = "secret"
    /\ keys' = keys \cup {sid[p]}
    /\ Goto(p, "put")
    /\ UNCHANGED <<storeVars, sessionVars, res>>

\* The vault refuses; the write-through copy has been made.
SecretFails(p) ==
    /\ pc[p] = "secret"
    /\ keys' = keys \cup {sid[p]}
    /\ Goto(p, "cleanup")
    /\ UNCHANGED <<storeVars, sessionVars, res>>

\* delete_secret: what the vault answers is ignored.
DropKey(s) == keys' = keys \ {s} \/ keys' = keys

\* _best_effort_cleanup: only the sdk backend deletes the resource group.
Cleanup(p) ==
    /\ pc[p] = "cleanup"
    /\ res' = IF backend = "sdk" THEN [res EXCEPT ![sid[p]] = "none"] ELSE res
    /\ DropKey(sid[p])
    /\ Leave(p)
    /\ UNCHANGED <<storeVars, sessionVars>>

\* The delete of the group raises: swallowed, and the key is not reached.
CleanupFails(p) ==
    /\ pc[p] = "cleanup"
    /\ backend = "sdk"
    /\ Leave(p)
    /\ UNCHANGED <<storeVars, sessionVars, cloudVars>>

\* The object is built and stored; its clocks started before provisioning.
StoreSession(p) ==
    /\ pc[p] = "put"
    /\ Put(sid[p])
    /\ status' = [status EXCEPT ![sid[p]] = "active"]
    /\ Leave(p)
    /\ UNCHANGED <<issued, cost, expired, idle, cloudVars>>

CreateSession(p) ==
    \/ CheckQuota(p) \/ CheckUser(p) \/ RejectCreate(p)
    \/ MakeGroup(p) \/ GroupFails(p) \/ InitRaises(p)
    \/ MakeSecret(p) \/ SecretFails(p)
    \/ Cleanup(p) \/ CleanupFails(p)
    \/ StoreSession(p)
-----------------------------------------------------------------------------
(* heartbeat, and an inference call with its accounting.                   *)

\* get_session finds it ...
Beat(p, s) ==
    /\ p \in Clients
    /\ s \in store
    /\ Take(p, s, "beat")
    /\ UNCHANGED <<storeVars, sessionVars, cloudVars, why, seen, todo>>

\* ... and puts it back with a fresh clock, whatever happened in between.
BeatPut(p) ==
    /\ pc[p] = "beat"
    /\ idle' = idle \ {sid[p]}
    /\ Put(sid[p])
    /\ Leave(p)
    /\ UNCHANGED <<issued, status, cost, expired, cloudVars>>

\* check_can_infer lets the call through (it does not look at the status).
CheckCanInfer(p, s, force) ==
    /\ p \in Clients
    /\ s \in store \ expired
    /\ cost[s] < SoftLimit \/ force
    /\ cost[s] < CostBound
    /\ Take(p, s, "call")
    /\ UNCHANGED <<storeVars, sessionVars, cloudVars, why, seen, todo>>

\* check_can_infer finds the session past its TTL and tears it down.
InferExpired(p, s) ==
    /\ p \in Clients
    /\ s \in store \cap expired
    /\ Take(p, s, "pop")
    /\ why' = [why EXCEPT ![p] = "expired"]
    /\ UNCHANGED <<storeVars, sessionVars, cloudVars, seen, todo>>

\* The key cannot be read or the endpoint does not answer; or it answers and
\* the session is gone when record_usage looks it up.
CallFails(p) ==
    /\ pc[p] = "call"
    /\ Leave(p)
    /\ UNCHANGED <<storeVars, sessionVars, cloudVars>>

CallReturns(p) ==
    /\ pc[p] = "call"
    /\ sid[p] \in store
    /\ Goto(p, "accrue")
    /\ UNCHANGED <<storeVars, sessionVars, cloudVars>>

ReadCost(p) ==
    /\ pc[p] = "accrue"
    /\ seen' = [seen EXCEPT ![p] = cost[sid[p]]]
    /\ pc' = [pc EXCEPT ![p] = "write"]
    /\ UNCHANGED <<storeVars, sessionVars, cloudVars, sid, why, todo>>

\* Variant of WriteCost: a negative latency is not clamped.
WriteUnclamped(p, c) ==
    /\ pc[p] = "write"
    /\ cost' = [cost EXCEPT ![sid[p]] = seen[p] - c]
    /\ idle' = idle \ {sid[p]}
    /\ Put(sid[p])
    /\ Goto(p, "stop")
    /\ UNCHANGED <<issued, status, expired, cloudVars>>

WriteCost(p, c) ==
    /\ pc[p] = "write"
    /\ seen[p] + c <= CostBound
    /\ cost' = [cost EXCEPT ![sid[p]] = seen[p] + c]
    /\ idle' = idle \ {sid[p]}
    /\ Put(sid[p])
    /\ Goto(p, "stop")
    /\ UNCHANGED <<issued, status, expired, cloudVars>>

\* Variant of WithinLimit: off by one.
WithinLimitAtMost(p) ==
    /\ pc[p] = "stop"
    /\ cost[sid[p]] <= MaxCost
    /\ Leave(p)
    /\ UNCHANGED <<storeVars, sessionVars, cloudVars>>

WithinLimit(p) ==
    /\ pc[p] = "stop"
    /\ cost[sid[p]] < MaxCost
    /\ Leave(p)
    /\ UNCHANGED <<storeVars, sessionVars, cloudVars>>

HardStop(p) ==
    /\ pc[p] = "stop"
    /\ cost[sid[p]] >= MaxCost
    /\ why' = [why EXCEPT ![p] = "hard"]
    /\ pc' = [pc EXCEPT ![p] = "pop"]
    /\ UNCHANGED <<storeVars, sessionVars, cloudVars, sid, seen, todo>>

\* teardown_session has returned to record_usage.
OverBudget(p) ==
    /\ pc[p] = "over"
    /\ status' = [status EXCEPT ![sid[p]] = "over_budget"]
    /\ Leave(p)
    /\ UNCHANGED <<storeVars, issued, cost, expired, idle, cloudVars>>

UseSession(p) ==
    \/ \E s \in Sessions :
        \/ Beat(p, s) \/ InferExpired(p, s)
        \/ \E force \in Forces : CheckCanInfer(p, s, force)
    \/ BeatPut(p)
    \/ CallFails(p) \/ CallReturns(p)
    \/ ReadCost(p)
    \/ \E c \in CallCosts : WriteCost(p, c)
    \/ WithinLimit(p) \/ HardStop(p) \/ OverBudget(p)
-----------------------------------------------------------------------------
(* teardown_session and sweep.                                             *)

TeardownRequest(p, s) ==
    /\ p \in Clients
    /\ status[s] # "none"
    /\ Take(p, s, "pop")
    /\ why' = [why EXCEPT ![p] = "manual"]
    /\ UNCHANGED <<storeVars, sessionVars, cloudVars, seen, todo>>

Pop(p) ==
    /\ pc[p] = "pop"
    /\ sid[p] \in store
    /\ Remove(sid[p])
    /\ Goto(p, "delete")
    /\ UNCHANGED <<sessionVars, cloudVars>>

\* teardown_session returns to whoever called it.
Answered(p) ==
    \/ why[p] = "hard" /\ Goto(p, "over")
    \/ why[p] = "sweep" /\ Goto(p, "sweep")
    \/ why[p] \in {"manual", "expired"} /\ Leave(p)

AlreadyGone(p) ==
    /\ pc[p] = "pop"
    /\ sid[p] \notin store
    /\ Answered(p)
    /\ UNCHANGED <<storeVars, sessionVars, cloudVars>>

\* The resource group is deleted, or terraform destroy returns 0.
Delete(p) ==
    /\ pc[p] = "delete"
    /\ sid[p] \notin Stuck
    /\ res' = [res EXCEPT ![sid[p]] = "none"]
    /\ Goto(p, "scrub")
    /\ UNCHANGED <<storeVars, sessionVars, keys>>

\* terraform destroy returns another code, which is only noted.
DestroyFails(p) ==
    /\ pc[p] = "delete"
    /\ backend = "terraform"
    /\ Goto(p, "scrub")
    /\ UNCHANGED <<storeVars, sessionVars, cloudVars>>

\* terraform init raises, and not a TeardownError.
DestroyRaises(p) ==
    /\ pc[p] = "delete"
    /\ backend = "terraform"
    /\ Leave(p)
    /\ UNCHANGED <<storeVars, sessionVars, cloudVars>>

\* Variants of DeleteFails: the error is swallowed; the session is dropped.
DeleteIgnored(p) ==
    /\ pc[p] = "delete"
    /\ backend = "sdk"
    /\ Goto(p, "scrub")
    /\ UNCHANGED <<storeVars, sessionVars, cloudVars>>

DeleteDrops(p) ==
    /\ pc[p] = "delete"
    /\ backend = "sdk"
    /\ Leave(p)
    /\ UNCHANGED <<storeVars, sessionVars, cloudVars>>

\* delete_resource_group raises TeardownError.
DeleteFails(p) ==
    /\ pc[p] = "delete"
    /\ backend = "sdk"
    /\ Goto(p, "reinsert")
    /\ UNCHANGED <<storeVars, sessionVars, cloudVars>>

\* Variant of Reinsert: the session goes back to the front of the dict.
ReinsertFirst(p) ==
    /\ pc[p] = "reinsert"
    /\ store' = store \cup {sid[p]}
    /\ order' = IF sid[p] \in store THEN order ELSE <<sid[p]>> \o order
    /\ Leave(p)
    /\ UNCHANGED <<sessionVars, cloudVars>>

\* Back into the store for a retry; the error reaches the caller, which is
\* the end of a sweep.
Reinsert(p) ==
    /\ pc[p] = "reinsert"
    /\ Put(sid[p])
    /\ Leave(p)
    /\ UNCHANGED <<sessionVars, cloudVars>>

Scrub(p) ==
    /\ pc[p] = "scrub"
    /\ DropKey(sid[p])
    /\ status' = [status EXCEPT ![sid[p]] = "torn_down"]
    /\ Answered(p)
    /\ UNCHANGED <<storeVars, issued, cost, expired, idle, res>>

Teardown(p) ==
    \/ \E s \in Sessions : TeardownRequest(p, s)
    \/ Pop(p) \/ AlreadyGone(p)
    \/ Delete(p) \/ DestroyFails(p) \/ DestroyRaises(p) \/ DeleteFails(p)
    \/ Reinsert(p) \/ Scrub(p)

\* sweep walks through a snapshot of the store.
SweepStart(p) ==
    /\ p \in Sweepers
    /\ pc[p] = "free"
    /\ todo' = [todo EXCEPT ![p] = order]
    /\ why' = [why EXCEPT ![p] = "sweep"]
    /\ pc' = [pc EXCEPT ![p] = "sweep"]
    /\ UNCHANGED <<storeVars, sessionVars, cloudVars, sid, seen>>

Reapable(s) == s \in expired \/ cost[s] >= MaxCost \/ s \in idle

SweepSkip(p) ==
    /\ pc[p] = "sweep"
    /\ todo[p] # <<>> /\ ~Reapable(Head(todo[p]))
    /\ todo' = [todo EXCEPT ![p] = Tail(@)]
    /\ UNCHANGED <<storeVars, sessionVars, cloudVars, pc, sid, why, seen>>

SweepReap(p) ==
    /\ pc[p] = "sweep"
    /\ todo[p] # <<>> /\ Reapable(Head(todo[p]))
    /\ sid' = [sid EXCEPT ![p] = Head(todo[p])]
    /\ todo' = [todo EXCEPT ![p] = Tail(@)]
    /\ pc' = [pc EXCEPT ![p] = "pop"]
    /\ UNCHANGED <<storeVars, sessionVars, cloudVars, why, seen>>

SweepEnd(p) ==
    /\ pc[p] = "sweep"
    /\ todo[p] = <<>>
    /\ Leave(p)
    /\ UNCHANGED <<storeVars, sessionVars, cloudVars>>

Sweep(p) == SweepStart(p) \/ SweepSkip(p) \/ SweepReap(p) \/ SweepEnd(p)
-----------------------------------------------------------------------------
(* Time: a session passes its TTL, or its inactivity timeout.              *)

Expire(s) ==
    /\ s \in (issued \cap Ageing) \ expired
    /\ expired' = expired \cup {s}
    /\ UNCHANGED <<storeVars, issued, status, cost, idle, cloudVars, threadVars>>

IdleOut(s) ==
    /\ s \in (issued \cap Ageing) \ idle
    /\ idle' = idle \cup {s}
    /\ UNCHANGED <<storeVars, issued, status, cost, expired, cloudVars,
                   threadVars>>

Next ==
    /\ \/ \E p \in Threads :
            CreateSession(p) \/ UseSession(p) \/ Teardown(p) \/ Sweep(p)
       \/ \E s \in Sessions : Expire(s) \/ IdleOut(s)
    /\ UNCHANGED backend

\* A request that has begun goes on; the periodic job keeps being started.
Proceed(p) ==
    /\ pc[p] # "free"
    /\ CreateSession(p) \/ UseSession(p) \/ Teardown(p) \/ Sweep(p)
    /\ UNCHANGED backend

StartSweep(p) == SweepStart(p) /\ UNCHANGED backend

DeleteOf(s) == (\E p \in Threads : sid[p] = s /\ Delete(p)) /\ UNCHANGED backend

\* The cloud does not refuse for ever to delete a group that can be deleted.
Fairness ==
    /\ \A p \in Threads : WF_vars(Proceed(p))
    /\ \A p \in Sweepers : WF_vars(StartSweep(p))
    /\ \A s \in Sessions : SF_vars(DeleteOf(s))

Spec == Init /\ [][Next]_vars

FairSpec == Spec /\ Fairness
-----------------------------------------------------------------------------
(* Properties.                                                             *)

TypeOK ==
    /\ backend \in {"sdk", "terraform", "dryrun"}
    /\ store \subseteq Sessions
    /\ order \in Seq(Sessions)
    /\ issued \subseteq Sessions
    /\ status \in [Sessions -> {"none", "active", "torn_down", "over_budget"}]
    /\ cost \in [Sessions -> Nat]
    /\ expired \subseteq Sessions /\ idle \subseteq Sessions
    /\ res \in [Sessions -> {"none", "partial", "full"}]
    /\ keys \subseteq Sessions
    /\ pc \in [Threads -> Labels]
    /\ sid \in [Threads -> Sessions \cup {NoSession}]
    /\ why \in [Threads -> Reasons]
    /\ seen \in [Threads -> Nat]
    /\ todo \in [Threads -> Seq(Sessions)]

Doing(s, labels) == \E p \in Threads : sid[p] = s /\ pc[p] \in labels

\* A session whose create succeeded never loses its resources from sight:
\* while they exist it is in the store, or a thread is busy deleting them and
\* will put it back if that fails.  (With the sdk backend.)
NeverOrphaned ==
    backend = "sdk" =>
        \A s \in Sessions : status[s] # "none" /\ res[s] # "none" =>
            s \in store \/ Doing(s, {"delete", "reinsert"})

StatusIsTrue ==
    backend = "sdk" =>
        \A s \in Sessions : status[s] = "torn_down" => res[s] = "none"

\* The step in which p's teardown_session returns a record that says
\* "torn_down", of a session it deleted or of one it did not find.
Told(p) == pc[p] \in {"pop", "scrub"} /\ pc'[p] \notin Tearing

AnswerIsTrue ==
    backend = "sdk" => \A p \in Threads : Told(p) =>
        \/ res'[sid[p]] = "none"
        \/ \E q \in Threads \ {p} :
            sid[q] = sid[p] /\ pc[q] \in {"delete", "reinsert"}

\* The status "torn_down" is only given to a session whose resources are gone,
\* also when a heartbeat or a second teardown came in between.  The answer
\* "torn_down" may come earlier: a teardown that does not find the session
\* gives it while another thread's delete is still under way, or has failed
\* and is about to put the session back; and only then.  (With the sdk
\* backend.)
TornDownMeansGone == [][StatusIsTrue' /\ AnswerIsTrue]_vars

\* The quota is checked long before the session is stored, and heartbeats and
\* failed teardowns store sessions again without a check; still the store
\* exceeds the limit by at most the other threads.
QuotaOvershoot ==
    Cardinality(store) <= MaxActive + Cardinality(Threads) - 1

\* However the accounting of concurrent calls interleaves, a session that has
\* cost as much as its cap is not used on unnoticed: somebody is about to check
\* or to tear it down, or has done so.  (Where no delete can fail: dryrun.)
CapNoticed ==
    backend = "dryrun" =>
        \A s \in Sessions : cost[s] >= MaxCost =>
            \/ status[s] \in {"torn_down", "over_budget"}
            \/ Doing(s, {"stop", "over"} \cup Tearing)

\* A session past its TTL is reaped although the delete of other sessions
\* fails every time and ends every sweep: a failed session goes to the end
\* of the dict, so that the next sweep gets further.  (With the sdk backend.)
ReapedInTheEnd ==
    \A s \in Sessions \ Stuck :
        (backend = "sdk" /\ s \in store /\ s \in expired) ~> (res[s] = "none")
-----------------------------------------------------------------------------
(* What comments and docs of the repository say and the code does not do.  *)

\* azure_session_manager.py:478: check_can_infer guards the status.
InferOnlyActive ==
    [][\A p \in Threads : pc[p] = "free" /\ pc'[p] = "call" =>
        status[sid'[p]] = "active"]_vars
=============================================================================

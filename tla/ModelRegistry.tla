--------------------------- MODULE ModelRegistry ---------------------------
(***************************************************************************)
(* The registry of reasoning models: LazyRegistry again, and the policies  *)
(* that choose a model.  Latency and cost are the hints of the manifests.  *)
(***************************************************************************)
EXTENDS LazyRegistry

CONSTANTS MrLocal,   \* models that run in this process
          MrLatency, \* model -> latency hint
          MrCost     \* model -> cost hint

\* Only the order of the hints matters.
ASSUME MrAssumption ==
    /\ MrLatency \in [Range(RgOrder) -> Nat] /\ MrCost \in [Range(RgOrder) -> Nat]
    /\ {"none", "unavailable"} \cap Range(RgOrder) = {}

VARIABLES mrPolicy, \* thread -> the policy it was asked to apply; bound: one
          mrPick    \* thread -> what it chose last

mrVars == <<rgVars, mrPolicy, mrPick>>

MrPolicies == {"by_name", "privacy_first", "cost_optimized", "latency_optimized"}

MrTypeOK ==
    /\ RgTypeOK
    /\ mrPolicy \in [RgThreads -> MrPolicies \cup {NoName}]
    /\ mrPick \in [RgThreads -> RgNames \cup {NoName, "unavailable"}]

MrInit ==
    /\ RgInit
    /\ mrPolicy = [t \in RgThreads |-> NoName]
    /\ mrPick = [t \in RgThreads |-> NoName]

GetModel(t) ==
    /\ \E n \in RgNames : GetCached(t, n) \/ GetMade(t, n) \/ GetNothing(t, n)
    /\ UNCHANGED <<mrPolicy, mrPick>>

DiscoverModels(t) ==
    /\ ScanKnown(t) \/ ScanRead(t) \/ ScanPublish(t) \/ ScanEnd(t)
    /\ UNCHANGED <<mrPolicy, mrPick>>

\* select_model discovers, or finds that it was done, before it chooses.
AskFor(t) ==
    /\ List(t)
    /\ mrPolicy[t] = NoName
    /\ \E p \in MrPolicies : mrPolicy' = [mrPolicy EXCEPT ![t] = p]
    /\ UNCHANGED mrPick

\* The first under a criterion, ties broken by a second one and then by order.
Best(ms, first, second) ==
    CHOOSE m \in ms : \A n \in ms \ {m} :
        \/ first[m] < first[n]
        \/ first[m] = first[n] /\ second[m] <= second[n]

\* What privacy_first chooses from.
Pool(ms) == IF ms \cap MrLocal # {} THEN ms \cap MrLocal ELSE ms

Select(t) ==
    /\ rgAt[t] = "listed" /\ mrPolicy[t] # NoName
    /\ \/ /\ mrPolicy[t] = "by_name"
          /\ \E n \in RgNames :
              mrPick' = [mrPick EXCEPT ![t] = IF n \in rgFactories THEN n ELSE "unavailable"]
       \/ /\ mrPolicy[t] # "by_name"
          /\ mrPick' = [mrPick EXCEPT ![t] =
                 CASE rgKnown = {} -> "unavailable"
                   [] rgKnown # {} /\ mrPolicy[t] = "privacy_first" ->
                        Best(Pool(rgKnown), MrLatency, MrLatency)
                   [] rgKnown # {} /\ mrPolicy[t] = "cost_optimized" ->
                        Best(rgKnown, MrCost, MrLatency)
                   [] OTHER -> Best(rgKnown, MrLatency, MrCost)]
    /\ rgAt' = [rgAt EXCEPT ![t] = "idle"]
    /\ UNCHANGED <<rgFolders, rgTables, rgDone, rgScan, rgWant, rgRead, mrPolicy>>

MrNext ==
    \/ \E t \in RgThreads :
        \/ GetModel(t) \/ DiscoverModels(t) \/ AskFor(t) \/ Select(t)
        \/ Release(t) /\ rgAt[t] # "listed" /\ UNCHANGED <<mrPolicy, mrPick>>
    \/ \E n \in RgNames : DropIn(n) /\ UNCHANGED <<mrPolicy, mrPick>>

MrSpec == MrInit /\ [][MrNext]_mrVars

\* privacy_first never sends a scene to a remote model while a local one is
\* installed, not even when another thread is still discovering.
PrivacyKept ==
    \A t \in RgThreads :
        mrPolicy[t] = "privacy_first" /\ mrPick[t] \in RgNames /\ rgAt[t] = "idle"
            => mrPick[t] \in MrLocal \/ AtStart \cap MrLocal \subseteq RgBroken

\* A policy finds a model whenever a readable one is installed.
PolicyFindsModel ==
    \A t \in RgThreads :
        mrPick[t] = "unavailable" /\ mrPolicy[t] # "by_name" /\ rgAt[t] = "idle"
            => AtStart \subseteq RgBroken
=============================================================================

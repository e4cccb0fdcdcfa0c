---------------------------- MODULE LazyRegistry ----------------------------
(***************************************************************************)
(* The registry of agents and, line for line the same, of reasoning        *)
(* models: manifests found in folders, lazy factories, cached instances.   *)
(* One re-entrant lock guards the tables.  Discovery takes it per folder   *)
(* and reads files without it, unless get calls it with the lock held.     *)
(* A folder's name is the name in its manifest.                            *)
(***************************************************************************)
EXTENDS Naturals, Sequences, FiniteSets, SequencesExt

CONSTANTS RgThreads,
          RgOrder,     \* every folder there may be, in the order of its name
          RgBroken,    \* folders whose manifest cannot be read
          RgLate,      \* folders that are added while the process runs
          RgMax        \* bound: instances made

ASSUME RgAssumption ==
    RgMax \in Nat /\ RgOrder \in Seq(Range(RgOrder)) /\ IsInjective(RgOrder)

VARIABLES
    rgFolders,   \* folders on disk
    rgKnown,     \* names in _MANIFESTS
    rgFactories, \* names in _FACTORIES
    rgInstance,  \* name -> serial number of the cached instance, 0 for none
    rgMade,      \* instances made so far
    rgDone,      \* _DISCOVERED
    rgScan,      \* thread -> folders it has yet to look at
    rgAt,        \* thread -> idle | scan | read | listed, or how its get ended
    rgWant,      \* thread -> the name of its last get
    rgRead       \* thread -> the folder it is reading

rgVars == <<rgFolders, rgKnown, rgFactories, rgInstance, rgMade, rgDone, rgScan, rgAt, rgWant, rgRead>>
rgTables == <<rgKnown, rgFactories, rgInstance, rgMade>>

RgNames == Range(RgOrder)
AtStart == RgNames \ RgLate
NoName == "none"

RgTypeOK ==
    /\ rgFolders \subseteq RgNames
    /\ rgKnown \subseteq RgNames
    /\ rgKnown \subseteq rgFactories
    /\ rgInstance \in [RgNames -> 0..RgMax]
    /\ rgMade \in 0..RgMax
    /\ \A t \in RgThreads : rgScan[t] \in Seq(RgNames)
    /\ rgAt \in [RgThreads -> {"idle", "scan", "read", "listed", "unknown", "raised", "got"}]

RgInit ==
    /\ rgFolders = AtStart
    /\ rgKnown = {} /\ rgFactories = {}
    /\ rgInstance = [n \in RgNames |-> 0]
    /\ rgMade = 0
    /\ rgDone = FALSE
    /\ rgScan = [t \in RgThreads |-> <<>>]
    /\ rgAt = [t \in RgThreads |-> "idle"]
    /\ rgWant = [t \in RgThreads |-> NoName]
    /\ rgRead = [t \in RgThreads |-> NoName]

InOrder(m, n) == \E i, j \in DOMAIN RgOrder : i < j /\ RgOrder[i] = m /\ RgOrder[j] = n

\* The members of fs, sorted.
Listing(fs) ==
    CHOOSE s \in [1..Cardinality(fs) -> fs] :
        \A i, j \in DOMAIN s : i < j => InOrder(s[i], s[j])

\* A folder is added while the process runs.
DropIn(n) ==
    /\ n \notin rgFolders
    /\ rgFolders' = rgFolders \cup {n}
    /\ UNCHANGED <<rgTables, rgDone, rgScan, rgAt, rgWant, rgRead>>

(***************************************************************************)
(* get: under the lock from end to end                                     *)
(***************************************************************************)
GetCached(t, n) ==
    /\ rgAt[t] = "idle"
    /\ rgInstance[n] # 0
    /\ rgWant' = [rgWant EXCEPT ![t] = n]
    /\ rgAt' = [rgAt EXCEPT ![t] = "got"]
    /\ UNCHANGED <<rgFolders, rgTables, rgDone, rgScan, rgRead>>

\* Variant of Found: every folder is read again.
FoundAgain == rgFolders \ RgBroken

\* What a get discovers when the name has no factory: everything at once, as
\* the lock is already held, and nothing when the flag is up.
Found == IF rgDone THEN {} ELSE (rgFolders \ RgBroken) \ rgKnown

\* The factory is called under the lock; what it raises leaves no instance.
GetMade(t, n) ==
    LET found == IF n \in rgFactories THEN {} ELSE Found IN
    /\ rgAt[t] = "idle"
    /\ rgInstance[n] = 0 /\ rgMade < RgMax
    /\ n \in rgFactories \cup found
    /\ rgKnown' = rgKnown \cup found
    /\ rgFactories' = rgFactories \cup found
    /\ rgDone' = (rgDone \/ n \notin rgFactories)
    /\ \E loads \in BOOLEAN :
        /\ rgMade' = IF loads THEN rgMade + 1 ELSE rgMade
        /\ rgInstance' = [m \in RgNames |->
               IF m = n /\ loads THEN rgMade + 1
               ELSE IF m \in found THEN 0 ELSE rgInstance[m]]
        /\ rgAt' = [rgAt EXCEPT ![t] = IF loads THEN "got" ELSE "raised"]
    /\ rgWant' = [rgWant EXCEPT ![t] = n]
    /\ UNCHANGED <<rgFolders, rgScan, rgRead>>

GetNothing(t, n) ==
    /\ rgAt[t] = "idle"
    /\ rgInstance[n] = 0
    /\ n \notin rgFactories \cup Found
    /\ rgKnown' = rgKnown \cup Found
    /\ rgFactories' = rgFactories \cup Found
    /\ rgInstance' = [m \in RgNames |-> IF m \in Found THEN 0 ELSE rgInstance[m]]
    /\ rgDone' = TRUE
    /\ rgWant' = [rgWant EXCEPT ![t] = n]
    /\ rgAt' = [rgAt EXCEPT ![t] = "unknown"]
    /\ UNCHANGED <<rgFolders, rgMade, rgScan, rgRead>>

\* The caller goes on to its next call.
Release(t) ==
    /\ rgAt[t] \in {"got", "unknown", "raised", "listed"}
    /\ rgAt' = [rgAt EXCEPT ![t] = "idle"]
    /\ rgWant' = [rgWant EXCEPT ![t] = NoName]
    /\ UNCHANGED <<rgFolders, rgTables, rgDone, rgScan, rgRead>>

(***************************************************************************)
(* list: ensure_discovered first, without the lock                         *)
(***************************************************************************)
List(t) ==
    /\ rgAt[t] = "idle"
    /\ IF rgDone
       THEN rgAt' = [rgAt EXCEPT ![t] = "listed"] /\ UNCHANGED rgScan
       ELSE /\ rgAt' = [rgAt EXCEPT ![t] = "scan"]
            /\ rgScan' = [rgScan EXCEPT ![t] = Listing(rgFolders)]
    /\ UNCHANGED <<rgFolders, rgTables, rgDone, rgWant, rgRead>>

ScanKnown(t) ==
    /\ rgAt[t] = "scan" /\ rgScan[t] # <<>>
    /\ Head(rgScan[t]) \in rgKnown
    /\ rgScan' = [rgScan EXCEPT ![t] = Tail(@)]
    /\ UNCHANGED <<rgFolders, rgTables, rgDone, rgAt, rgWant, rgRead>>

ScanRead(t) ==
    /\ rgAt[t] = "scan" /\ rgScan[t] # <<>>
    /\ Head(rgScan[t]) \notin rgKnown
    /\ rgRead' = [rgRead EXCEPT ![t] =
           IF Head(rgScan[t]) \in RgBroken THEN NoName ELSE Head(rgScan[t])]
    /\ rgScan' = [rgScan EXCEPT ![t] = Tail(@)]
    /\ rgAt' = [rgAt EXCEPT ![t] = IF Head(rgScan[t]) \in RgBroken THEN "scan" ELSE "read"]
    /\ UNCHANGED <<rgFolders, rgTables, rgDone, rgWant>>

\* Variant of ScanPublish: the flag goes up with the first folder.
ScanPublishEarly(t) ==
    /\ rgAt[t] = "read"
    /\ rgKnown' = rgKnown \cup {rgRead[t]}
    /\ rgFactories' = rgFactories \cup {rgRead[t]}
    /\ rgInstance' = [rgInstance EXCEPT ![rgRead[t]] = 0]
    /\ rgDone' = TRUE
    /\ rgAt' = [rgAt EXCEPT ![t] = "scan"]
    /\ rgRead' = [rgRead EXCEPT ![t] = NoName]
    /\ UNCHANGED <<rgFolders, rgMade, rgScan, rgWant>>

ScanPublish(t) ==
    /\ rgAt[t] = "read"
    /\ rgKnown' = rgKnown \cup {rgRead[t]}
    /\ rgFactories' = rgFactories \cup {rgRead[t]}
    /\ rgInstance' = [rgInstance EXCEPT ![rgRead[t]] = 0]
    /\ rgAt' = [rgAt EXCEPT ![t] = "scan"]
    /\ rgRead' = [rgRead EXCEPT ![t] = NoName]
    /\ UNCHANGED <<rgFolders, rgMade, rgDone, rgScan, rgWant>>

ScanEnd(t) ==
    /\ rgAt[t] = "scan" /\ rgScan[t] = <<>>
    /\ rgDone' = TRUE
    /\ rgAt' = [rgAt EXCEPT ![t] = "listed"]
    /\ UNCHANGED <<rgFolders, rgTables, rgScan, rgWant, rgRead>>

RgStep(t, names) ==
    \/ \E n \in names : GetCached(t, n) \/ GetMade(t, n) \/ GetNothing(t, n)
    \/ List(t) \/ ScanKnown(t) \/ ScanRead(t) \/ ScanPublish(t) \/ ScanEnd(t)
    \/ Release(t)

RgNext ==
    \/ \E t \in RgThreads : RgStep(t, RgNames)
    \/ \E n \in RgNames : DropIn(n)

RgSpec == RgInit /\ [][RgNext]_rgVars

\* Whoever lists has every readable folder that was there from the start,
\* although another thread may be halfway through its own discovery and the
\* flag only says that some thread has ended one.
ListedIsComplete ==
    \A t \in RgThreads : rgAt[t] = "listed" => AtStart \ RgBroken \subseteq rgKnown

\* A get never reports an installed, readable name as unknown,
\* however many discoveries are under way.
InstalledFound ==
    \A t \in RgThreads : rgAt[t] = "unknown" => rgWant[t] \notin AtStart \ RgBroken

\* Once no thread is discovering, a cached instance stays: asking for a name
\* nobody has does not throw away the agents that are in use.
InstancesSettle ==
    [][(\A t \in RgThreads : rgAt[t] \notin {"scan", "read"})
          => \A n \in RgNames : rgInstance[n] # 0 => rgInstance'[n] = rgInstance[n]]_rgVars

=============================================================================

--------------------------- MODULE AgentRegistry ---------------------------
(***************************************************************************)
(* The agent registry of the mission executor: LazyRegistry and the        *)
(* selection of an agent for a capability.  Every agent here offers the    *)
(* capability asked for.                                                   *)
(***************************************************************************)
EXTENDS LazyRegistry

CONSTANTS ArForbidden, \* names the allow-list leaves out
          ArDraws      \* bound: choices made

ASSUME ArAssumption == ArDraws \in Nat

VARIABLES
    arNames,   \* thread -> the sorted candidates it will choose from
    arCounter, \* the capability's round robin counter
    arDrawn    \* agent -> how often round robin chose it

arVars == <<rgVars, arNames, arCounter, arDrawn>>

ArTypeOK ==
    /\ RgTypeOK
    /\ \A t \in RgThreads : arNames[t] \in Seq(RgNames)
    /\ arCounter \in 0..ArDraws

ArInit ==
    /\ RgInit
    /\ arNames = [t \in RgThreads |-> <<>>]
    /\ arCounter = 0
    /\ arDrawn = [n \in RgNames |-> 0]

\* Asking for a name that is not on the allow-list.
Refuse(t, n) ==
    /\ rgAt[t] = "idle" /\ n \in ArForbidden
    /\ rgWant' = [rgWant EXCEPT ![t] = n]
    /\ rgAt' = [rgAt EXCEPT ![t] = "raised"]
    /\ UNCHANGED <<rgFolders, rgTables, rgDone, rgScan, rgRead, arNames, arCounter, arDrawn>>

\* agents_for_capability, after its thread has discovered what there is.
Candidates(t) ==
    /\ rgAt[t] = "listed" /\ arNames[t] = <<>>
    /\ arNames' = [arNames EXCEPT ![t] = Listing(rgKnown \ ArForbidden)]
    /\ rgAt' = [rgAt EXCEPT ![t] = "idle"]
    /\ UNCHANGED <<rgFolders, rgTables, rgDone, rgScan, rgWant, rgRead, arCounter, arDrawn>>

\* The index is taken under the lock, the candidates were listed before.
RoundRobin(t) ==
    /\ arNames[t] # <<>> /\ arCounter < ArDraws
    /\ arDrawn' = [arDrawn EXCEPT ![arNames[t][1 + (arCounter % Len(arNames[t]))]] = @ + 1]
    /\ arCounter' = arCounter + 1
    /\ arNames' = [arNames EXCEPT ![t] = <<>>]
    /\ UNCHANGED rgVars

ArNext ==
    \/ /\ \/ \E t \in RgThreads : arNames[t] = <<>> /\ RgStep(t, RgNames \ ArForbidden)
          \/ \E n \in RgNames : DropIn(n)
       /\ UNCHANGED <<arNames, arCounter, arDrawn>>
    \/ \E t \in RgThreads :
        \/ \E n \in RgNames : arNames[t] = <<>> /\ Refuse(t, n)
        \/ Candidates(t) \/ RoundRobin(t)

ArSpec == ArInit /\ [][ArNext]_arVars

\* As long as no folder is added, round robin gives every allowed agent its
\* turn, whichever threads ask and however their discoveries overlap.
RoundRobinBalanced ==
    rgFolders = AtStart =>
        \A m, n \in (AtStart \ RgBroken) \ ArForbidden : arDrawn[m] <= arDrawn[n] + 1
=============================================================================

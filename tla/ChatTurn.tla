------------------------------ MODULE ChatTurn ------------------------------
(***************************************************************************)
(* core/azure/agents.py, synthesize_from_chat_agent: one chat turn.  The   *)
(* knowledge search, the function agent and the analyzer agent work one    *)
(* after the other and the Qwen agent beside them, all until the team's    *)
(* deadline; then one more agent run turns what they found into an answer, *)
(* until the deadline of the turn.  The agents' runs are those of AgentRun.*)
(***************************************************************************)
EXTENDS AgentRun, FiniteSets

CONSTANTS CtTurn,       \* _CHAT_TURN_MAX_SECONDS
          CtReserve,    \* _CONSOLIDATION_RESERVE_SECONDS
          CtSearchTimes \* bound: how long the knowledge search may take

ASSUME ChatAssumption ==
    CtTurn \in Nat /\ CtReserve \in Nat /\ CtSearchTimes \subseteq Nat

VARIABLES ctPc,      \* the member whose turn it is
          ctSources, \* the members' outputs
          ctQwen,    \* the Qwen agent's future
          ctAnswer   \* what the user is shown

ctVars == <<ctPc, ctSources, ctQwen, ctAnswer, agVars>>

Members == {"search", "functions", "analyzer", "qwen"}
TeamDeadline == CtTurn - (IF 2 * CtReserve <= CtTurn THEN CtReserve ELSE CtTurn \div 2)

CtInit ==
    /\ AgInit
    /\ ctPc = "search" /\ ctSources = [m \in Members |-> "none"]
    /\ ctQwen = "running" /\ ctAnswer = "nothing"

\* run_qwen_agent in its own thread: it answers, fails, or finds no frames or
\* no time; a worker that is never free leaves it running.
QwenSettles ==
    /\ ctQwen = "running" /\ ctQwen' \in {"none", "text"}
    /\ UNCHANGED <<ctPc, ctSources, ctAnswer, agVars>>

\* run_connected_agent: one call without a deadline; its failures are None.
Search ==
    /\ ctPc = "search" /\ agPc = "idle"
    /\ \E d \in CtSearchTimes : agClock' = agClock + d
    /\ \E text \in {"none", "text"} : ctSources' = [ctSources EXCEPT !["search"] = text]
    /\ ctPc' = "functions"
    /\ UNCHANGED <<ctQwen, ctAnswer, agOwn, agBusy, agQueued>>

After(m) == IF m = "functions" THEN "analyzer" ELSE "qwen"

\* A member is started while the team has time, otherwise skipped.
StartMember(m) ==
    /\ ctPc = m /\ agPc = "idle"
    /\ IF agClock < TeamDeadline
       THEN BeginRun(TeamDeadline, TRUE) /\ UNCHANGED ctPc
       ELSE ctPc' = After(m) /\ UNCHANGED agVars
    /\ UNCHANGED <<ctSources, ctQwen, ctAnswer>>

\* _source_text of the run's answer, an error text of its tools as well; an
\* answer like "None" is no text.
EndMember(m) ==
    /\ ctPc = m /\ agPc = "ended"
    /\ \E text \in {"none"} \cup (IF agAnswer = "none" THEN {} ELSE {"text"}) :
        ctSources' = [ctSources EXCEPT ![m] = text]
    /\ ctPc' = After(m) /\ agPc' = "idle"
    /\ UNCHANGED <<ctQwen, ctAnswer, agTodo, agRounds, agExecutor, agAnswer, agDeadline, agClock,
                   agBusy, agQueued>>

\* _collect_qwen: what it has answered, or None once the team's time is up.
CollectQwen ==
    /\ ctPc = "qwen"
    /\ \/ /\ ctQwen # "running"
          /\ ctSources' = [ctSources EXCEPT !["qwen"] = ctQwen]
          /\ UNCHANGED agClock
       \/ /\ ctQwen = "running"
          /\ agClock' = IF agClock < TeamDeadline THEN TeamDeadline ELSE agClock
          /\ UNCHANGED ctSources
    /\ ctPc' = "final"
    /\ UNCHANGED <<ctQwen, ctAnswer, agOwn, agBusy, agQueued>>

Evidence == {m \in Members : ctSources[m] = "text"}

\* _plain_summary of what the members found.
Summary == IF Evidence = {} THEN "apology" ELSE "summary"

\* The consolidation is skipped when the turn has no time left.  The run has a
\* tool executor only if the chat agent was not found and is created here.
StartFinal ==
    /\ ctPc = "final" /\ agPc = "idle"
    /\ IF agClock < CtTurn
       THEN (\E created \in BOOLEAN : BeginRun(CtTurn, created)) /\ UNCHANGED <<ctPc, ctAnswer>>
       ELSE ctPc' = "done" /\ ctAnswer' = Summary /\ UNCHANGED agVars
    /\ UNCHANGED <<ctSources, ctQwen>>

\* A run without a usable answer, or with the bundle for one, is replaced by the
\* summary.  Otherwise its answer is shown: its reply, or what its last tool
\* call came to when it wrote none.
Shown == CASE agAnswer = "reply" -> "narrative" [] agAnswer = "tool" -> "output" [] OTHER -> Summary

EndFinal ==
    /\ ctPc = "final" /\ agPc = "ended"
    /\ ctPc' = "done"
    /\ ctAnswer' \in {Summary, Shown}
    /\ UNCHANGED <<ctSources, ctQwen, agVars>>

\* No run's exception is caught: the turn raises it.
Raise ==
    /\ ctPc \notin {"done", "raised"} /\ agPc = "raised"
    /\ ctPc' = "raised"
    /\ UNCHANGED <<ctSources, ctQwen, ctAnswer, agVars>>

TurnSteps ==
    \/ Search \/ CollectQwen \/ StartFinal \/ EndFinal \/ Raise
    \/ \E m \in {"functions", "analyzer"} : StartMember(m) \/ EndMember(m)
    \/ ctPc \in {"functions", "analyzer", "final"} /\ AgStep
       /\ UNCHANGED <<ctPc, ctSources, ctQwen, ctAnswer>>

CtNext ==
    \/ TurnSteps \/ QwenSettles
    \/ (WorkerTaken \/ WorkerFreed) /\ UNCHANGED <<ctPc, ctSources, ctQwen, ctAnswer>>

\* The request's own thread goes on; agents, tools and workers need not.
CtSpec == CtInit /\ [][CtNext]_ctVars /\ WF_ctVars(TurnSteps)

CtTypeOK ==
    /\ AgTypeOK
    /\ ctPc \in Members \cup {"final", "done", "raised"}
    /\ ctSources \in [Members -> {"none", "text"}]
    /\ ctQwen \in {"running", "none", "text"}
    /\ ctAnswer \in {"nothing", "apology", "summary", "narrative", "output"}

\* How far past its deadline a run can get: its last round of tool calls.
Overrun == 1 + AgMaxCalls * AgCallTime

\* The members' overruns do not add up: whichever of them hung, the turn ends
\* within one round of tool calls of its deadline, or of the search's end.
TurnEndsInTime ==
    \A d \in CtSearchTimes :
        (\A e \in CtSearchTimes : e <= d) =>
            agClock <= Overrun + (IF d > CtTurn THEN d ELSE CtTurn)

\* Evidence that some member brought is shown, by itself or narrated, however
\* the consolidation ended.  The turn that creates the chat agent may lose it:
\* a run that is given up before it replies returns what its last tool call
\* came to, an error text as well, and that passes for the narrative.  A turn
\* that raises shows nothing.
EvidenceShown ==
    ctPc = "done" /\ Evidence # {} =>
        \/ ctAnswer \in {"summary", "narrative"}
        \/ ctAnswer = "output" /\ agExecutor

\* The user is answered, or told of an error, with every worker of the pool
\* hanging and every member silent.
TurnAnswered == ctPc # "search" ~> ctPc \in {"done", "raised"}

=============================================================================

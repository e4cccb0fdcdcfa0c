----------------------------- MODULE MCService ------------------------------
(***************************************************************************)
(* The components that serve callers - dvsa_api around the executor and    *)
(* the Foundry sessions, chat turns, analyses, the cloud runner, the       *)
(* streaming job - side by side.  They share no state here, so a behaviour *)
(* is about one of them, chosen at the start, and the others stand still.  *)
(***************************************************************************)
EXTENDS RateLimiter, MessageBus, AgentRegistry, ModelRegistry, ReasoningService,
        McpStdio, MissionPlanner, ChatTurn, AnalysisRuns, CloudRunner,
        StreamingInference, FoundryCalls, TLC

\* Folders, their models' hints, and the dependency lists of a template.
Folders == <<"a", "b", "c">>
Latencies == [a |-> 1, b |-> 2, c |-> 2]
Costs == [a |-> 2, b |-> 2, c |-> 1]
DependLists ==
    {<<>>, <<1, 1>>, <<1, 2>>, <<1, 3>>, <<2, 3>>} \cup {<<x>> : x \in 1..3}

VARIABLE part \* the component this behaviour is about

Parts == {"limiter", "bus", "agents", "models", "reasoning", "foundry", "stdio", "planner", "chat", "analyses", "runner", "streaming"}

Init ==
    /\ part \in Parts
    /\ RlInit
    /\ BusInit
    /\ ArInit
    /\ MrInit
    /\ InInit
    /\ FcInit
    /\ StInit
    /\ PlInit
    /\ CtInit
    /\ AnInit
    /\ RnInit
    /\ (part # "streaming" =>
           siConfig = [mode |-> "remote", endpoint |-> TRUE, key |-> TRUE])
    /\ SiInit

Next ==
    \/ part = "limiter" /\ RlNext
       /\ UNCHANGED <<part, busVars, rgVars, arNames, arCounter, arDrawn,
                      mrPolicy, mrPick, inVars, fcVars, stVars, plVars, ctVars,
                      anVars, rnVars, siVars>>
    \/ part = "bus" /\ BusNext
       /\ UNCHANGED <<part, rlVars, rgVars, arNames, arCounter, arDrawn,
                      mrPolicy, mrPick, inVars, fcVars, stVars, plVars, ctVars,
                      anVars, rnVars, siVars>>
    \/ part = "agents" /\ ArNext
       /\ UNCHANGED <<part, rlVars, busVars, mrPolicy, mrPick, inVars, fcVars,
                      stVars, plVars, ctVars, anVars, rnVars, siVars>>
    \/ part = "models" /\ MrNext
       /\ UNCHANGED <<part, rlVars, busVars, arNames, arCounter, arDrawn,
                      inVars, fcVars, stVars, plVars, ctVars, anVars, rnVars,
                      siVars>>
    \/ part = "reasoning" /\ InNext
       /\ UNCHANGED <<part, rlVars, busVars, rgVars, arNames, arCounter,
                      arDrawn, mrPolicy, mrPick, fcVars, stVars, plVars,
                      ctVars, anVars, rnVars, siVars>>
    \/ part = "foundry" /\ FcNext
       /\ UNCHANGED <<part, rlVars, busVars, rgVars, arNames, arCounter,
                      arDrawn, mrPolicy, mrPick, inVars, stVars, plVars,
                      ctVars, anVars, rnVars, siVars>>
    \/ part = "stdio" /\ StNext
       /\ UNCHANGED <<part, rlVars, busVars, rgVars, arNames, arCounter,
                      arDrawn, mrPolicy, mrPick, inVars, fcVars, plVars,
                      ctVars, anVars, rnVars, siVars>>
    \/ part = "planner" /\ PlNext
       /\ UNCHANGED <<part, rlVars, busVars, rgVars, arNames, arCounter,
                      arDrawn, mrPolicy, mrPick, inVars, fcVars, stVars,
                      ctVars, anVars, rnVars, siVars>>
    \/ part = "chat" /\ CtNext
       /\ UNCHANGED <<part, rlVars, busVars, rgVars, arNames, arCounter,
                      arDrawn, mrPolicy, mrPick, inVars, fcVars, stVars,
                      plVars, anVars, rnVars, siVars>>
    \/ part = "analyses" /\ AnNext
       /\ UNCHANGED <<part, rlVars, busVars, rgVars, arNames, arCounter,
                      arDrawn, mrPolicy, mrPick, inVars, fcVars, stVars,
                      plVars, ctVars, rnVars, siVars>>
    \/ part = "runner" /\ RnNext
       /\ UNCHANGED <<part, rlVars, busVars, rgVars, arNames, arCounter,
                      arDrawn, mrPolicy, mrPick, inVars, fcVars, stVars,
                      plVars, ctVars, anVars, siVars>>
    \/ part = "streaming" /\ SiNext
       /\ UNCHANGED <<part, rlVars, busVars, rgVars, arNames, arCounter,
                      arDrawn, mrPolicy, mrPick, inVars, fcVars, stVars,
                      plVars, ctVars, anVars, rnVars>>

Everything ==
    <<part, rlVars, busVars, rgVars, arNames, arCounter, arDrawn,
      mrPolicy, mrPick, inVars, fcVars, stVars, plVars, ctVars,
      anVars, rnVars, siVars>>

\* Every component's variables hold what their declarations say.
ServiceTypes ==
    /\ RlTypeOK /\ BusTypeOK /\ ArTypeOK /\ MrTypeOK /\ InTypeOK /\ StTypeOK
    /\ PlTypeOK /\ CtTypeOK /\ AnTypeOK /\ RnTypeOK /\ SiTypeOK /\ FcTypeOK
\* Discoveries that overlap do not show: the registries list, find, rotate
\* over and choose from all that is installed, and keep a private scene local.
RegistryServes ==
    /\ ListedIsComplete /\ InstalledFound /\ PolicyFindsModel
    /\ RoundRobinBalanced /\ PrivacyKept
\* An answer belongs to the request it is taken for: abandoned calls are not
\* mistaken for one, a notification only by the null line written when its
\* handling raises, and what a Foundry endpoint answers is charged to the session
\* of the caller who sees it, unless two accountings overlap.
AnswersOwn == AnswersMatch /\ AnswerOfItsCall /\ UsageIsOfAnswers
\* A chat turn is over soon after its budget, and shows what it found.
ChatKept == TurnEndsInTime /\ EvidenceShown
\* An analysis that reads completed has results that belong together.
AnalysesSound == AnalysesAddUp /\ TraceIsWhole
\* Callers are answered, with adapters that hang and handlers that raise; chat
\* turns and analyses come to an end; what the runner accepted is answered, and
\* so is every row that landed in the streaming job's input.
EveryoneAnswered ==
    /\ InferAnswered /\ RequestsAnswered /\ TurnAnswered /\ RunsSettle
    /\ TakenIsAnswered /\ LandedIsAnswered

Spec ==
    /\ Init /\ [][Next]_Everything
    /\ WF_inVars(part = "reasoning" /\ InOwnSteps)
    /\ WF_stVars(part = "stdio" /\ Serve)
    /\ WF_stVars(part = "stdio" /\ ReadLine)
    /\ WF_ctVars(part = "chat" /\ TurnSteps)
    /\ \A r \in AnRequests : WF_anVars(part = "analyses" /\ TaskSteps(r))
    /\ WF_rnVars(part = "runner" /\ RnServes)
    /\ WF_siVars(part = "streaming" /\ QuerySteps)
=============================================================================

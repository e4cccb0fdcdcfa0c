------------------------- MODULE AgentRegistration -------------------------
(***************************************************************************)
(* How a deployment registers the Foundry agents of a project              *)
(* (core/azure/foundry_provisioning.py and run of deploy.py), while other  *)
(* deployments, chat requests (agents.py) and people at the portal change  *)
(* the same agents.                                                        *)
(*                                                                         *)
(* There are two stores.  The versioned one has a sequence of versions per *)
(* agent name and is asked over REST, with retries while a permission is   *)
(* not effective yet.  The classic one, which the runtime uses, has agents *)
(* under their ids; here they all have the name of the one function agent. *)
(***************************************************************************)
EXTENDS Naturals, Sequences, FiniteSets

CONSTANTS RgDeploys,  \* deployments, each of which runs once
          RgChats,    \* threads that serve chat requests
          RgNames,    \* the agents' names; the tools of the first come from code
          RgSpecs,    \* definitions: [instructions, functions, schema]
          RgRuntime,  \* what the runtime's code gives the agent it makes
          RgEdits     \* bound: versions up to which people edit

VARIABLES rgVersions, \* name -> versions [spec, seen]; seen: how many its writer saw
          rgClassic,  \* agents of the classic store, by id: [spec, tool]
          rgDeploy,   \* deployment -> see RgWaiting
          rgChat,     \* chat thread -> id of the agent it found, 0 for none, RgResting
          rgKept      \* agents given a tool while no deployment was to write them back

rgVars == <<rgVersions, rgClassic, rgDeploy, rgChat, rgKept>>

RgAgents == {RgNames[n] : n \in DOMAIN RgNames}
RgEdited == [instructions |-> 0, functions |-> 0, schema |-> 0]
RgDefinitions == RgSpecs \cup {RgEdited, RgRuntime}

\* AGENTS is a list that is not empty; a definition is known by numbers that
\* stand for its parts; the server has a fixed number of threads.
ASSUME RegistrationAssumption ==
    /\ RgNames \in Seq(RgAgents) /\ RgNames # <<>>
    /\ RgDefinitions \subseteq [instructions : Nat, functions : Nat, schema : Nat]
    /\ IsFiniteSet(RgChats)

RgResting == [id |-> 0, searched |-> FALSE, instructions |-> 0]
\* only: the agents to sync; next: the one it is at; saw: versions at the last
\* GET; start: versions when it began; copy: the classic agents as listed.
RgWaiting == [pc |-> "new", spec |-> RgEdited, dry |-> FALSE, only |-> {}, next |-> 1, saw |-> 0,
            start |-> [n \in RgAgents |-> 0], copy |-> <<>>, at |-> 0, errors |-> FALSE]

RgInit ==
    /\ rgVersions = [n \in RgAgents |-> <<>>]
    /\ rgClassic = <<>>
    /\ rgDeploy = [d \in RgDeploys |-> RgWaiting]
    /\ rgChat = [c \in RgChats |-> RgResting]
    /\ rgKept = {}

RgPut(d, fields) == rgDeploy' = [rgDeploy EXCEPT ![d] = fields]

(***************************************************************************)
(* A deployment: the versioned store                                       *)
(***************************************************************************)
\* run, with the definitions its checkout has; --only may leave agents out.
DeployAgents(d) ==
    /\ rgDeploy[d].pc = "new"
    /\ \E spec \in RgSpecs : \E dry \in BOOLEAN : \E only \in SUBSET RgAgents :
          RgPut(d, [RgWaiting EXCEPT !.pc = "get", !.spec = spec, !.dry = dry, !.only = only,
                                 !.start = [n \in RgAgents |-> Len(rgVersions[n])]])
    /\ UNCHANGED <<rgVersions, rgClassic, rgChat, rgKept>>

\* The result of an agent is recorded; the next one, or the classic store.
NextAgent(d, failed) ==
    RgPut(d, [rgDeploy[d] EXCEPT
                  !.pc = IF rgDeploy[d].next = Len(RgNames) THEN "list" ELSE "get",
                  !.next = @ + 1, !.saw = 0, !.errors = @ \/ failed])

\* The agent a deployment is at, and whether it is one to sync.
Current(d) == RgNames[rgDeploy[d].next]
Wanted(d) == Current(d) \in rgDeploy[d].only

SkipAgent(d) ==
    /\ rgDeploy[d].pc = "get" /\ ~Wanted(d)
    /\ NextAgent(d, FALSE)
    /\ UNCHANGED <<rgVersions, rgClassic, rgChat, rgKept>>

\* _request: an error status, or no answer to a request that was not executed.
\* Of 401 and 403 it is the last: the ones before are retried, since a fresh
\* permission may not be effective yet, and only take time.
RequestFails(d) ==
    /\ rgDeploy[d].pc \in {"get", "post"} /\ Wanted(d)
    /\ NextAgent(d, TRUE)
    /\ UNCHANGED <<rgVersions, rgClassic, rgChat, rgKept>>

\* Is the latest version of an agent the definition wanted?
SameAsLatest(versions, spec) == versions # <<>> /\ versions[Len(versions)].spec = spec

\* sync_agents: nothing to do, a dry run, or a version to be posted.
GetAgent(d) ==
    /\ rgDeploy[d].pc = "get" /\ Wanted(d)
    /\ LET versions == rgVersions[Current(d)]
       IN  IF SameAsLatest(versions, rgDeploy[d].spec) \/ rgDeploy[d].dry
           THEN NextAgent(d, FALSE)
           ELSE RgPut(d, [rgDeploy[d] EXCEPT !.pc = "post", !.saw = Len(versions)])
    /\ UNCHANGED <<rgVersions, rgClassic, rgChat, rgKept>>

\* create_agent_version, whose answer may not arrive.
PostVersion(d) ==
    /\ rgDeploy[d].pc = "post"
    /\ rgVersions' = [rgVersions EXCEPT ![Current(d)] =
                          Append(@, [spec |-> rgDeploy[d].spec, seen |-> rgDeploy[d].saw])]
    /\ \E lost \in BOOLEAN : NextAgent(d, lost)
    /\ UNCHANGED <<rgClassic, rgChat, rgKept>>

(***************************************************************************)
(* A deployment: the classic store                                         *)
(***************************************************************************)
\* All agents are listed at once; the function agent's are gone through, if it
\* is one to sync.
ListAgents(d) ==
    /\ rgDeploy[d].pc = "list"
    /\ \/ RgPut(d, [rgDeploy[d] EXCEPT !.pc = "update", !.at = 1,
                        !.copy = IF RgNames[1] \in rgDeploy[d].only THEN rgClassic ELSE <<>>])
       \/ RgPut(d, [rgDeploy[d] EXCEPT !.pc = "done", !.errors = TRUE])
    /\ UNCHANGED <<rgVersions, rgClassic, rgChat, rgKept>>

\* Instructions and the names of the functions are compared, not their schema.
InSync(agent, spec) ==
    agent.spec.instructions = spec.instructions /\ agent.spec.functions = spec.functions

UpdateAgent(d) ==
    /\ rgDeploy[d].pc = "update" /\ rgDeploy[d].at <= Len(rgDeploy[d].copy)
    /\ LET id == rgDeploy[d].at
           agent == rgDeploy[d].copy[id]
           Go(failed) == RgPut(d, [rgDeploy[d] EXCEPT !.at = @ + 1, !.errors = @ \/ failed])
       IN  \/ /\ InSync(agent, rgDeploy[d].spec) \/ rgDeploy[d].dry
              /\ Go(FALSE) /\ UNCHANGED rgClassic
           \/ /\ ~InSync(agent, rgDeploy[d].spec) /\ ~rgDeploy[d].dry
              /\ \/ Go(TRUE) /\ UNCHANGED rgClassic
                 \/ /\ Go(FALSE)
                    /\ rgClassic' = [rgClassic EXCEPT ![id] =
                                        [spec |-> rgDeploy[d].spec, tool |-> agent.tool]]
    /\ UNCHANGED <<rgVersions, rgChat, rgKept>>

\* The report, of which main makes its exit code.
DeployReports(d) ==
    /\ rgDeploy[d].pc = "update" /\ rgDeploy[d].at > Len(rgDeploy[d].copy)
    /\ RgPut(d, [rgDeploy[d] EXCEPT !.pc = "done", !.copy = <<>>, !.at = 0])
    /\ UNCHANGED <<rgVersions, rgClassic, rgChat, rgKept>>

(***************************************************************************)
(* The runtime and the portal                                              *)
(***************************************************************************)
\* _find_agent: the first of the name.
FindAgent(c) ==
    /\ ~rgChat[c].searched
    /\ rgChat' = [rgChat EXCEPT ![c] =
           [id |-> IF rgClassic = <<>> THEN 0 ELSE 1, searched |-> TRUE,
            instructions |-> IF rgClassic = <<>> THEN 0 ELSE rgClassic[1].spec.instructions]]
    /\ UNCHANGED <<rgVersions, rgClassic, rgDeploy, rgKept>>

\* _run_function_agent: created when none was found, else given the
\* instructions of the code when it had others.
UseAgent(c) ==
    /\ rgChat[c].searched
    /\ rgChat' = [rgChat EXCEPT ![c] = RgResting]
    /\ rgClassic' =
           IF rgChat[c].id = 0 THEN Append(rgClassic, [spec |-> RgRuntime, tool |-> FALSE])
           ELSE IF rgChat[c].instructions # RgRuntime.instructions
           THEN [rgClassic EXCEPT ![1].spec.instructions = RgRuntime.instructions]
           ELSE rgClassic
    /\ UNCHANGED <<rgVersions, rgDeploy, rgKept>>

\* Somebody saves a version at the portal.
EditVersion(n) ==
    /\ Len(rgVersions[n]) < RgEdits
    /\ ~SameAsLatest(rgVersions[n], RgEdited)
    /\ rgVersions' = [rgVersions EXCEPT ![n] = Append(@, [spec |-> RgEdited, seen |-> Len(@)])]
    /\ UNCHANGED <<rgClassic, rgDeploy, rgChat, rgKept>>

\* A deployment is going to write its copy of an agent back.
WillWrite(d, id) ==
    /\ rgDeploy[d].pc = "update" /\ ~rgDeploy[d].dry
    /\ id \in rgDeploy[d].at..Len(rgDeploy[d].copy)
    /\ ~InSync(rgDeploy[d].copy[id], rgDeploy[d].spec)

\* Somebody gives an agent another tool.
AddTool(id) ==
    /\ ~rgClassic[id].tool
    /\ rgClassic' = [rgClassic EXCEPT ![id].tool = TRUE]
    /\ rgKept' = IF \E d \in RgDeploys : WillWrite(d, id) THEN rgKept ELSE rgKept \cup {id}
    /\ UNCHANGED <<rgVersions, rgDeploy, rgChat>>

RgNext ==
    \/ \E d \in RgDeploys :
           \/ DeployAgents(d) \/ SkipAgent(d) \/ RequestFails(d) \/ GetAgent(d) \/ PostVersion(d)
           \/ ListAgents(d) \/ UpdateAgent(d) \/ DeployReports(d)
    \/ \E c \in RgChats : FindAgent(c) \/ UseAgent(c)
    \/ \E n \in RgAgents : EditVersion(n)
    \/ \E id \in DOMAIN rgClassic : AddTool(id)
-----------------------------------------------------------------------------
RgTypeOK ==
    /\ \A n \in RgAgents : \A v \in DOMAIN rgVersions[n] : rgVersions[n][v].spec \in RgDefinitions
    /\ \A d \in RgDeploys :
           /\ rgDeploy[d].pc \in {"new", "get", "post", "list", "update", "done"}
    /\ rgKept \subseteq DOMAIN rgClassic

\* "Idempotently register": a deployment does not post what is registered,
\* unless another version came between its look and its post.
NoIdleVersion ==
    \A n \in RgAgents : \A v \in 2..Len(rgVersions[n]) :
        rgVersions[n][v].spec = rgVersions[n][v - 1].spec => rgVersions[n][v].seen < v - 1

\* A deployment that reports no error found or left each definition it was to
\* sync as the latest version of its agent at some time while it ran.
ReportedIsRegistered ==
    \A d \in RgDeploys : rgDeploy[d].pc = "done" /\ ~rgDeploy[d].errors /\ ~rgDeploy[d].dry =>
        \A n \in rgDeploy[d].only : \E v \in DOMAIN rgVersions[n] :
            /\ v >= rgDeploy[d].start[n]
            /\ rgVersions[n][v].spec = rgDeploy[d].spec

\* A tool that somebody gives an agent stays, unless a deployment that listed
\* the agents before is still to write this one back: that one loses it,
\* though sync_classic_agents says of every tool that is not a function that
\* it is preserved as-is.  There are no more agents of the one name than chat
\* threads that could all find none.
ClassicAgentsKept ==
    /\ \A id \in rgKept : rgClassic[id].tool
    /\ Len(rgClassic) <= Cardinality(RgChats)

\* sync_agents and sync_classic_agents register what they report, once, and
\* leave alone what people made of the agents before they listed them.
AgentsRegistered == NoIdleVersion /\ ReportedIsRegistered /\ ClassicAgentsKept
=============================================================================

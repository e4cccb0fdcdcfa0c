---------------------------- MODULE SearchIndex ----------------------------
(***************************************************************************)
(* The search indexes and global resources behind the sessions             *)
(* (core/azure/session.py, provisioning.py, terraform.py, naming.py) and   *)
(* the deployment step that rebuilds the shared index (deploy.py).         *)
(* Sessions are created, ingest, ask and are torn down while a deployment  *)
(* checks, counts, drops and rebuilds; the worker may restart and forget   *)
(* its registry.  A document is the session that wrote it.                 *)
(***************************************************************************)
EXTENDS Naturals, FiniteSets

CONSTANTS
    AzSessions,     \* session ids
    AzSlug,         \* the slug of each; ids may share one (case, punctuation, 40 characters)
    AzConfigs,      \* settings: [ready, isolation], see azConfig
    AzRequests,     \* how sessions are requested: [isolation, mode, global], "" for a default
    AzResources     \* number of global resources (six in the code)

\* index_name puts "-s-" between the shared index's name and a slug, so no
\* session's own index is the shared one.
ASSUME AzAssumption == AzResources \in Nat /\ \A s \in AzSessions : AzSlug[s] # "base"

VARIABLES
    azConfig,       \* [ready, isolation]: is there a subscription, the default isolation
    azSchema,       \* index name -> "none", "old" (cannot be updated in place) or "new"
    azDocs,         \* index name -> documents
    azGlobal,       \* how many of the global resources exist, in their order
    azEnvs,         \* session -> environment this worker registered, or NoEnv
    azIngest,       \* ingestion under way: [session, index], "" when there is none
    azAgent,        \* does a knowledge agent reference the shared index?
    azDeploy,       \* deployment: [pc, recreate, report]
    azBefore,       \* while it runs, the documents the shared index had at its start
    azOwed          \* sessions that ingested into their own index, none of its slug torn down since

azVars == <<azConfig, azSchema, azDocs, azGlobal, azEnvs, azIngest, azAgent, azDeploy,
            azBefore, azOwed>>

NoEnv == [isolation |-> "none", mode |-> "none", global |-> FALSE]
NoIngest == [session |-> CHOOSE s \in AzSessions : TRUE, index |-> ""]
Isolations == {"index", "filter"}
Modes == {"sdk", "terraform", "dryrun"}
Names == {"base"} \cup {AzSlug[s] : s \in AzSessions}
Environments == [isolation : Isolations, mode : Modes, global : BOOLEAN]

\* What the current schema is called here, against one the service cannot update.
Schema == "new"
\* index_name: the shared index under filter, else one per slug.
IndexName(s, isolation) == IF isolation = "filter" THEN "base" ELSE AzSlug[s]

\* A request's choice, or the default.
Or(choice, default) == IF choice = "" THEN default ELSE choice
\* get_provisioner: without a subscription the SDK backend is a dry run.
Provisioner(mode) == IF mode = "sdk" /\ ~azConfig.ready THEN "dryrun" ELSE mode
\* resolve_mode: what "auto" stands for.
AutoMode == IF azConfig.ready THEN "sdk" ELSE "dryrun"
\* The data plane of a backend; terraform delegates to one of the others.
Online(mode) == mode # "dryrun" /\ azConfig.ready

AzInit ==
    /\ azConfig \in AzConfigs
    /\ azSchema \in {[n \in Names |-> "none"], [[n \in Names |-> "none"] EXCEPT !["base"] = "old"]}
    /\ azDocs = [n \in Names |-> {}]
    /\ azGlobal = 0
    /\ azEnvs = [s \in AzSessions |-> NoEnv]
    /\ azIngest = NoIngest
    /\ azAgent = FALSE
    /\ azDeploy = [pc |-> "idle", recreate |-> FALSE, report |-> "none"]
    /\ azBefore = {}
    /\ azOwed = {}

(***************************************************************************)
(* Sessions                                                                *)
(***************************************************************************)
\* What an ensure can leave of an index: itself, or the current schema
\* unless the service rejects the update.
Ensured(n) == {azSchema[n]} \cup (IF azSchema[n] = "old" THEN {} ELSE {Schema})

\* A global resource fails: the request answers 502 and registers nothing.
CreateFails(s, q) ==
    /\ q.global /\ Provisioner(Or(q.mode, AutoMode)) = "sdk"
    /\ azGlobal' \in azGlobal..(AzResources - 1)
    /\ UNCHANGED <<azConfig, azSchema, azDocs, azEnvs, azIngest, azAgent, azDeploy, azBefore, azOwed>>

\* create_session_azure_environment: the SDK backend makes the global
\* resources, terraform runs one apply and a dry run only records; the index
\* is ensured on a best-effort basis and the environment registered.
CreateEnvironment(s, q) ==
    LET env == [isolation |-> Or(q.isolation, azConfig.isolation),
                mode |-> Provisioner(Or(q.mode, AutoMode)), global |-> q.global]
        n == IndexName(s, env.isolation)
    IN  /\ azGlobal' = IF q.global /\ env.mode = "sdk" THEN AzResources ELSE azGlobal
        /\ \E schema \in (IF Online(env.mode) THEN Ensured(n) ELSE {azSchema[n]}) :
               azSchema' = [azSchema EXCEPT ![n] = schema]
        /\ azEnvs' = [azEnvs EXCEPT ![s] = env]
        /\ UNCHANGED <<azConfig, azDocs, azIngest, azAgent, azDeploy, azBefore, azOwed>>

\* A saved video is ingested in the request that created its environment; a
\* dry run goes through the same steps and uploads nothing.
IngestVideo(s) ==
    /\ azIngest = NoIngest
    /\ azEnvs[s] # NoEnv /\ azEnvs[s].mode # "dryrun"
    /\ azIngest' = [session |-> s, index |-> IndexName(s, azEnvs[s].isolation)]
    /\ UNCHANGED <<azConfig, azSchema, azDocs, azGlobal, azEnvs, azAgent, azDeploy, azBefore, azOwed>>

\* index_frame, upload_frame_document: a frame is stored unless its index is
\* missing, which is logged; then there is another frame or the last is done.
Upload ==
    /\ azIngest # NoIngest
    /\ LET s == azIngest.session
           n == azIngest.index
       IN  \/ /\ azSchema[n] # "none"
              /\ azDocs' = [azDocs EXCEPT ![n] = @ \cup {s}]
              /\ azOwed' = IF n = "base" THEN azOwed ELSE azOwed \cup {s}
              /\ UNCHANGED azIngest
           \/ azIngest' = NoIngest /\ UNCHANGED <<azDocs, azOwed>>
    /\ UNCHANGED <<azConfig, azSchema, azGlobal, azEnvs, azAgent, azDeploy, azBefore>>

\* run_connected_agent: whatever the session's index, the knowledge agent
\* targets the index of the configuration and is made when missing.
Found(s) == s \in azDocs["base"]
Ask ==
    /\ azConfig.ready
    /\ \E s \in AzSessions : azEnvs[s] # NoEnv
    /\ azSchema["base"] # "none"
    /\ azAgent' = TRUE
    /\ UNCHANGED <<azConfig, azSchema, azDocs, azGlobal, azEnvs, azIngest, azDeploy, azBefore, azOwed>>

\* teardown_session_azure_environment: with the settings of the registered
\* environment, or the defaults when this worker has none; the session's own
\* index goes (deletes that fail are logged), the shared one stays.
Teardown(s) ==
    LET isolation == IF azEnvs[s] # NoEnv THEN azEnvs[s].isolation ELSE azConfig.isolation
        backend == IF azEnvs[s] # NoEnv THEN azEnvs[s].mode ELSE AutoMode
        n == IndexName(s, isolation)
    IN  /\ \/ /\ isolation # "filter"
              /\ Online(backend)
              /\ azSchema' = [azSchema EXCEPT ![n] = "none"]
              /\ azDocs' = [azDocs EXCEPT ![n] = {}]
           \/ UNCHANGED <<azSchema, azDocs>>
        /\ azEnvs' = [azEnvs EXCEPT ![s] = NoEnv]
        /\ azOwed' = {t \in azOwed : AzSlug[t] # AzSlug[s]}
        /\ UNCHANGED <<azConfig, azGlobal, azIngest, azAgent, azDeploy, azBefore>>

\* The worker restarts: its registry and its ingestion are gone.
Restart ==
    /\ azEnvs' = [s \in AzSessions |-> NoEnv]
    /\ azIngest' = NoIngest
    /\ UNCHANGED <<azConfig, azSchema, azDocs, azGlobal, azAgent, azDeploy, azBefore, azOwed>>

(***************************************************************************)
(* Deployment: ensure_base_index, one call to the service at a time        *)
(***************************************************************************)
DeployMoves(pc) ==
    /\ azDeploy' = [azDeploy EXCEPT !.pc = pc]
    /\ UNCHANGED <<azConfig, azGlobal, azEnvs, azIngest, azAgent, azBefore, azOwed>>
DeployEnds(report) ==
    /\ azDeploy' = [pc |-> "idle", recreate |-> FALSE, report |-> report]
    /\ azBefore' = {}
    /\ UNCHANGED <<azConfig, azGlobal, azEnvs, azIngest, azAgent, azOwed>>

\* A run with or without --recreate-index; a dry run only reports.
DeployStart(recreate) ==
    /\ azDeploy.pc = "idle"
    /\ azConfig.ready
    /\ azDeploy' = [pc |-> "ensure", recreate |-> recreate, report |-> "none"]
    /\ azBefore' = azDocs["base"]
    /\ UNCHANGED <<azConfig, azSchema, azDocs, azGlobal, azEnvs, azIngest, azAgent, azOwed>>

DeployEnsure ==
    /\ azDeploy.pc = "ensure"
    /\ \/ /\ Schema \in Ensured("base")
          /\ azSchema' = [azSchema EXCEPT !["base"] = Schema]
          /\ DeployEnds("ensured")
       \/ UNCHANGED azSchema /\ DeployMoves("count")
    /\ UNCHANGED azDocs

\* Variant of DeployCount: the flag is not looked at.
DeployCountAny ==
    /\ azDeploy.pc = "count"
    /\ IF azSchema["base"] = "none" THEN DeployEnds("error")
       ELSE DeployMoves("delete")
    /\ UNCHANGED <<azSchema, azDocs>>

\* An index that holds documents is left alone unless it is to be recreated;
\* one that cannot be counted is an error.
DeployCount ==
    /\ azDeploy.pc = "count"
    /\ \/ DeployEnds("error")
       \/ /\ azSchema["base"] # "none"
          /\ azDocs["base"] = {} \/ azDeploy.recreate
          /\ DeployMoves("delete")
    /\ UNCHANGED <<azSchema, azDocs>>

\* The service refuses to drop an index a knowledge agent references; the
\* report says that the run was blocked, and its result stays ok.
DeployDelete ==
    /\ azDeploy.pc = "delete"
    /\ \/ /\ UNCHANGED <<azSchema, azDocs>>
          /\ DeployEnds("error")
       \/ /\ ~azAgent
          /\ azSchema' = [azSchema EXCEPT !["base"] = "none"]
          /\ azDocs' = [azDocs EXCEPT !["base"] = {}]
          /\ DeployMoves("again")

DeployAgain ==
    /\ azDeploy.pc = "again"
    /\ \/ /\ azSchema' = [azSchema EXCEPT !["base"] = Schema]
          /\ DeployEnds("recreated")
       \/ UNCHANGED azSchema /\ DeployEnds("error")
    /\ UNCHANGED azDocs

AzNext ==
    \/ \E s \in AzSessions : \E q \in AzRequests : CreateEnvironment(s, q) \/ CreateFails(s, q)
    \/ \E s \in AzSessions : IngestVideo(s) \/ Teardown(s)
    \/ Upload \/ Ask \/ Restart
    \/ \E recreate \in BOOLEAN : DeployStart(recreate)
    \/ DeployEnsure \/ DeployCount \/ DeployDelete \/ DeployAgain

(***************************************************************************)
(* Properties                                                              *)
(***************************************************************************)
AzTypeOK ==
    /\ azConfig \in [ready : BOOLEAN, isolation : Isolations]
    /\ azSchema \in [Names -> {"none", "old", Schema}]
    /\ azDocs \in [Names -> SUBSET AzSessions]
    /\ azGlobal \in 0..AzResources
    /\ azEnvs \in [AzSessions -> Environments \cup {NoEnv}]
    /\ azIngest \in [session : AzSessions, index : Names \cup {""}]
    /\ azAgent \in BOOLEAN
    /\ azDeploy.pc \in {"idle", "ensure", "count", "delete", "again"}
    /\ azBefore \subseteq AzSessions /\ azOwed \subseteq AzSessions

\* Documents the shared index held when a deployment started outlive it,
\* whatever sessions do meanwhile, unless the run was told to recreate it; a
\* run that reports success left an index with the current schema
\* (ensure_base_index).  It is less than DeployDestroysNothing says.
DeployKeeps ==
    /\ ~azDeploy.recreate => azBefore \subseteq azDocs["base"]
    /\ azDeploy.report \in {"ensured", "recreated"} => azSchema["base"] = Schema
\* What a session ingested into its own index stays until a session of its
\* slug is torn down, itself or another whose id has the same slug, also one
\* this worker never heard of; and an environment that says the global
\* resources are provisioned was made with all of them in place.
SessionsKeep ==
    /\ \A s \in azOwed : s \in azDocs[AzSlug[s]]
    /\ \A s \in AzSessions :
           azEnvs[s].global /\ azEnvs[s].mode = "sdk" => azGlobal = AzResources
IndexKept == DeployKeeps /\ SessionsKeep

\* What deploy.py:53-54 says: an index that holds documents is left alone, "so a
\* deploy never destroys data" unless it was told to recreate the index.
DeployDestroysNothing ==
    [][azDocs["base"] \subseteq azDocs'["base"] \/ azDeploy.recreate]_azVars

\* What views.py:426 says of the chat: it answers over an account's indexed
\* frames, so a question about a session with frames finds them.
ChatFindsFrames == \A s \in AzSessions : (\E n \in Names : s \in azDocs[n]) => Found(s)
=============================================================================

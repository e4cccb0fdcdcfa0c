----------------------------- MODULE MCRecords ------------------------------
(***************************************************************************)
(* The components that compute and keep things - mission sessions, uploads *)
(* and their events, the agent kits, the custom detector, the routines,    *)
(* frames, indexes and agents of the apps - side by side.  They share no   *)
(* state, so a behaviour is about one of them, chosen at the start, and    *)
(* the others stand still.                                                 *)
(***************************************************************************)
EXTENDS MissionSessions, VideoUpload, EventStream, RunTracker, Orchestration,
        LocalHarness, TileDetector, ModelChoice, ObjectTracks, FrameTools,
        SurveyCorners, SearchIndex, AgentRegistration, FrameRoutines,
        CentroidTracks, TLC

\* Detections: two objects in an overlap of windows and of tiles, one better
\* than the other, and one elsewhere.
Seen(ts, x, w, conf) == [ts |-> ts, x |-> x, w |-> w, cls |-> 1, conf |-> conf]
Videos ==
    {{}, {Seen(8, 12, 8, 2)}, {Seen(0, 0, 8, 1), Seen(24, 40, 8, 1)},
     {Seen(8, 12, 8, 2), Seen(8, 14, 8, 3)},
     {Seen(12, 20, 8, 2), Seen(12, 22, 8, 2), Seen(12, 24, 8, 1)}}
Windows == {<<8, 12>>, <<9, 24>>}

\* Agent profiles: cautious, confirming and automatic ones.
Profile(max, gated, allowed) == [max |-> max, gated |-> gated, allowed |-> allowed]
Profiles ==
    {Profile(0, {"write_output"}, {}), Profile(1, {"write_output"}, {}),
     Profile(2, {"write_output"}, {}), Profile(2, {"write_output"}, {"write_output"}),
     Profile(2, {}, {})}

\* Detector configurations, and a catalog in the order of its ids.
Detector(tile, overlap, space) == [tile |-> tile, overlap |-> overlap, space |-> space]
Detectors ==
    {Detector(0, 0, "unit"), Detector(2, 2, "pixels"), Detector(3, 1, "unit"),
     Detector(4, 1, "pixels"), Detector(2, 0, "unit")}
Object(at, size, label) == [at |-> at, size |-> size, label |-> label]
Sights ==
    {{}, {Object(1, 2, "car")}, {Object(0, 1, "car"), Object(2, 1, "bus")},
     {Object(0, 2, "car"), Object(0, 3, "car")}, {Object(0, 1, "cow"), Object(0, 4, "car")}}
Model(classes, altitude, tiles, format) ==
    [classes |-> classes, task |-> "detection", altitude |-> altitude, tiles |-> tiles,
     format |-> format, extension |-> "onnx", labels |-> TRUE]
Catalog ==
    <<Model({"ship"}, "high", TRUE, "onnx"), Model({"van", "car", "bus"}, "medium", TRUE, "yolo"),
      Model({"car", "bus"}, "low", FALSE, "onnx")>>
Queries ==
    [classes : {c \in SUBSET {"van", "car", "bus", "ship"} : Cardinality(c) <= 3},
     task : {"", "detection"}, altitude : {"", "low", "high"}, size : {"", "large", "small"}]

\* Two accounts whose ids make one slug, and the ways sessions are asked for.
Slugs == [s1 |-> "a", s2 |-> "a"]
Requested(isolation, mode, global) == [isolation |-> isolation, mode |-> mode, global |-> global]
SessionRequests == {Requested("", "", TRUE), Requested("filter", "terraform", FALSE)}
Settings == {[ready |-> TRUE, isolation |-> "index"], [ready |-> FALSE, isolation |-> "index"]}

\* Two checkouts whose functions differ in a schema only, and the runtime.
Agent(instructions, functions, schema) ==
    [instructions |-> instructions, functions |-> functions, schema |-> schema]
Checkouts == {Agent(1, 1, 1), Agent(1, 1, 2)}
Runtime == Agent(9, 1, 1)
AgentNames == <<"fa", "sa">>

\* Frames with an object anywhere or two apart, and the plans of a routine.
At(at, size) == [at |-> at, size |-> size]
Scenes ==
    {{o} : o \in {i \in [at : 0..8, size : 1..5] : i.at + i.size <= 9}}
    \cup {{}, {At(0, 2), At(4, 3)}, {At(1, 3), At(6, 3)}, {At(3, 1), At(5, 4)}}
Plan(routine, step, max) == [routine |-> routine, step |-> step, max |-> max]
RoutinePlans ==
    {Plan("tiles", 1, 1), Plan("zones", 1, 2), Plan("parking", 2, 3), Plan("zones", 3, 2)}
Tilings == [tile : {3, 4}, overlap : {0, 2}] \cup {[tile |-> 4, overlap |-> 1], [tile |-> 12, overlap |-> 0]}
Zone(name, from, to) == [name |-> name, from |-> from, to |-> to]
ZoneLists ==
    {<<Zone("a", 0, 4), Zone("b", 4, 9)>>, <<Zone("a", 0, 5), Zone("a", 3, 9)>>}
SpotLists == {<<At(-2, 4), At(3, 3)>>, <<At(-3, 1), At(7, 4)>>}

\* Sinks, and what the analyses of a run found: detections, or an error first.
SinkSettings == {<<"db", "otel">>, <<"otel", "db">>}
Entry(count, model) == [count |-> count, model |-> model]
Findings == {<<Entry(0, TRUE)>>, <<Entry(-1, FALSE), Entry(1, FALSE)>>}

\* A tiled infer reads nothing another thread writes: one thread tiles.
OneTiles == dtConfig.tile # 0 => Cardinality({p \in DtThreads : dtFrame'[p] # 0}) <= 1

\* Where the tools run, requests by address only and ingestions stand still and
\* nothing fails: the extractions that write rows go on beside them.
ToolsRequests ==
    /\ \A r \in FsRaw \cup FsIngests : fsPc'[r] = "new"
    /\ fsFailed' = 0
\* A list of frames an agent gives, clusters of two images' features, and the
\* corners' frames that can be read.
FrameLists == {<<1, 0>>}
ClusterSizes == {<<2>>, <<2, 1>>}
Readable == {<<1, 2, 3, 4>>, <<2>>}

\* About the classic store one deployment is enough, which registers the first
\* agent; about the versions two, of which one may sync and leave out any agent.
OneDeployment ==
    /\ rgDeploy'["d2"] = rgDeploy["d2"] /\ rgDeploy'["d1"].only \subseteq {"fa"}
    /\ rgVersions'["sa"] = <<>>
TwoDeployments ==
    /\ rgDeploy'["d2"].only \subseteq {"fa"} /\ ~rgDeploy'["d2"].dry
    /\ UNCHANGED <<rgClassic, rgChat>>

VARIABLE part \* the component this behaviour is about

Parts == {"sessions", "upload", "events", "tracker", "orchestrator", "harness", "detector", "choice", "tracks", "frames", "tools", "corners", "index", "slugs", "registration", "versions", "routines", "centroids"}

Init ==
    /\ part \in Parts
    /\ MsInit
    /\ (part # "upload" => /\ vuOn = [screen |-> TRUE, tools |-> TRUE]
                             /\ vuClip = CHOOSE c \in Clips : TRUE)
    /\ VuInit
    /\ (part # "events" => evSinks = CHOOSE s \in EvSettings : TRUE)
    /\ EvInit
    /\ TkInit
    /\ (part # "orchestrator" =>
           /\ orPlan = [windows |-> 1, columns |-> 1, overlap |-> 0]
           /\ orEnd = 0 /\ orVideo = {} /\ orWidth = 48 /\ orAsked = <<>>)
    /\ OrInit
    /\ (part # "harness" => /\ lhProfile = Profile(2, {}, {})
                              /\ lhArgs = CHOOSE a \in LhArgs : TRUE)
    /\ LhInit
    /\ (part # "detector" => dtConfig = Detector(2, 0, "unit"))
    /\ DtInit
    /\ (part # "choice" => ccFiles = {})
    /\ CcInit
    /\ SoInit
    /\ FtInit
    /\ (\A r \in FsRequests :
           \/ part \in {"frames", "tools"} /\ r \in FsMixed
           \/ fsVideo[r] = CHOOSE v \in FsVideos : TRUE)
    /\ (part = "frames" \/ fsSource = fsVideo)
    /\ CoInit
    /\ AzInit
    /\ (part \notin {"index", "slugs"} =>
           azSchema["base"] = "none" /\ azConfig = CHOOSE c \in AzConfigs : TRUE)
    /\ RgInit
    /\ FrInit
    /\ (part # "routines" => /\ frPlan.routine = "tiles"
                                /\ frTiling = CHOOSE t \in FrTilings : TRUE)
    /\ CnInit

Next ==
    \/ part = "sessions" /\ MsNext
       /\ UNCHANGED <<part, vuVars, evVars, tkVars, orVars, lhVars, dtVars,
                      ccVars, soVars, ftVars, coVars, azVars, rgVars, frVars,
                      cnVars>>
    \/ part = "upload" /\ VuNext
       /\ UNCHANGED <<part, msVars, evVars, tkVars, orVars, lhVars, dtVars,
                      ccVars, soVars, ftVars, coVars, azVars, rgVars, frVars,
                      cnVars>>
    \/ part = "events" /\ EvNext
       /\ UNCHANGED <<part, msVars, vuVars, tkVars, orVars, lhVars, dtVars,
                      ccVars, soVars, ftVars, coVars, azVars, rgVars, frVars,
                      cnVars>>
    \/ part = "tracker" /\ TkNext
       /\ UNCHANGED <<part, msVars, vuVars, evVars, orVars, lhVars, dtVars,
                      ccVars, soVars, ftVars, coVars, azVars, rgVars, frVars,
                      cnVars>>
    \/ part = "orchestrator" /\ OrNext
       /\ UNCHANGED <<part, msVars, vuVars, evVars, tkVars, lhVars, dtVars,
                      ccVars, soVars, ftVars, coVars, azVars, rgVars, frVars,
                      cnVars>>
    \/ part = "harness" /\ LhNext
       /\ UNCHANGED <<part, msVars, vuVars, evVars, tkVars, orVars, dtVars,
                      ccVars, soVars, ftVars, coVars, azVars, rgVars, frVars,
                      cnVars>>
    \/ part = "detector" /\ DtNext /\ OneTiles
       /\ UNCHANGED <<part, msVars, vuVars, evVars, tkVars, orVars, lhVars,
                      ccVars, soVars, ftVars, coVars, azVars, rgVars, frVars,
                      cnVars>>
    \/ part = "choice" /\ CcNext
       /\ UNCHANGED <<part, msVars, vuVars, evVars, tkVars, orVars, lhVars,
                      dtVars, soVars, ftVars, coVars, azVars, rgVars, frVars,
                      cnVars>>
    \/ part = "tracks" /\ SoNext
       /\ UNCHANGED <<part, msVars, vuVars, evVars, tkVars, orVars, lhVars,
                      dtVars, ccVars, ftVars, coVars, azVars, rgVars, frVars,
                      cnVars>>
    \/ part = "frames" /\ FsNext /\ UNCHANGED <<ftSaved, ftOwn>>
       /\ UNCHANGED <<part, msVars, vuVars, evVars, tkVars, orVars, lhVars,
                      dtVars, ccVars, soVars, coVars, azVars, rgVars, frVars,
                      cnVars>>
    \/ part = "tools" /\ FtNext /\ ToolsRequests
       /\ UNCHANGED <<part, msVars, vuVars, evVars, tkVars, orVars, lhVars,
                      dtVars, ccVars, soVars, coVars, azVars, rgVars, frVars,
                      cnVars>>
    \/ part = "corners" /\ CoNext
       /\ UNCHANGED <<part, msVars, vuVars, evVars, tkVars, orVars, lhVars,
                      dtVars, ccVars, soVars, ftVars, azVars, rgVars, frVars,
                      cnVars>>
    \/ part = "index" /\ AzNext /\ azEnvs'["s2"] = azEnvs["s2"]
       /\ UNCHANGED <<part, msVars, vuVars, evVars, tkVars, orVars, lhVars,
                      dtVars, ccVars, soVars, ftVars, coVars, rgVars, frVars,
                      cnVars>>
    \/ part = "slugs" /\ AzNext /\ UNCHANGED azDeploy
       /\ UNCHANGED <<part, msVars, vuVars, evVars, tkVars, orVars, lhVars,
                      dtVars, ccVars, soVars, ftVars, coVars, rgVars, frVars,
                      cnVars>>
    \/ part = "registration" /\ RgNext /\ OneDeployment
       /\ UNCHANGED <<part, msVars, vuVars, evVars, tkVars, orVars, lhVars,
                      dtVars, ccVars, soVars, ftVars, coVars, azVars, frVars,
                      cnVars>>
    \/ part = "versions" /\ RgNext /\ TwoDeployments
       /\ UNCHANGED <<part, msVars, vuVars, evVars, tkVars, orVars, lhVars,
                      dtVars, ccVars, soVars, ftVars, coVars, azVars, frVars,
                      cnVars>>
    \/ part = "routines" /\ FrNext
       /\ UNCHANGED <<part, msVars, vuVars, evVars, tkVars, orVars, lhVars,
                      dtVars, ccVars, soVars, ftVars, coVars, azVars, rgVars,
                      cnVars>>
    \/ part = "centroids" /\ CnNext
       /\ UNCHANGED <<part, msVars, vuVars, evVars, tkVars, orVars, lhVars,
                      dtVars, ccVars, soVars, ftVars, coVars, azVars, rgVars,
                      frVars>>

Everything ==
    <<part, msVars, vuVars, evVars, tkVars, orVars, lhVars, dtVars,
      ccVars, soVars, ftVars, coVars, azVars, rgVars, frVars,
      cnVars>>

\* The variables of the component that moves hold what their declarations say.
RecordTypes ==
    /\ part = "sessions" => MsTypeOK
    /\ part = "upload" => VuTypeOK
    /\ part = "events" => EvTypeOK
    /\ part = "tracker" => TkTypeOK
    /\ part = "orchestrator" => OrTypeOK
    /\ part = "harness" => LhTypeOK
    /\ part = "detector" => DtTypeOK
    /\ part = "choice" => CcTypeOK
    /\ part = "tracks" => SoTypeOK
    /\ part \in {"frames", "tools"} => FtTypeOK
    /\ part = "corners" => CoTypeOK
    /\ part \in {"index", "slugs"} => AzTypeOK
    /\ part \in {"registration", "versions"} => RgTypeOK
    /\ part = "routines" => FrTypeOK
    /\ part = "centroids" => CnTypeOK
\* What an answer of the upload says is what is stored, and what is stored
\* was looked at.
UploadSound == part = "upload" => UploadsAddUp /\ StoredWasInspected
\* What is reported of an object is where it was seen: by the tracks, which
\* retire, by the routines that look at one frame, and by the centroid tracker.
TracksSound ==
    /\ part = "tracks" => TracksHonest /\ TracksRetire
    /\ part = "routines" => FramesSound
    /\ part = "centroids" => ObjectsCounted /\ NearestKept
\* Frames and corners are what those who ask for them take them for.
ImagesSound ==
    /\ part \in {"frames", "tools"} => ToolsHonest
    /\ part = "corners" => CornersKept
\* A deployment keeps what the index holds, and registers the agents it says
\* it did; sessions keep what they ingested.
DeploymentsSound ==
    /\ part \in {"index", "slugs"} => IndexKept
    /\ part \in {"registration", "versions"} => AgentsRegistered

Spec ==
    /\ Init /\ [][Next]_Everything
=============================================================================

----------------------------- MODULE FrameTools -----------------------------
(***************************************************************************)
(* The tools that hand frames to the agents of a chat: core/azure/         *)
(* analyzer.py, with the frames core/azure/agents.py lists for an agent    *)
(* and those core/azure/qwen_agent.py selects.  They run while videos are  *)
(* saved and requests extract and ingest frames (FrameStore).  A frame is  *)
(* named by its video's folder and its number, from 0; whether there is    *)
(* one of that number is storage's to say.                                 *)
(***************************************************************************)
EXTENDS FrameStore

CONSTANTS FtRuns,     \* agent runs, with one tool call each
          FtLimit,    \* curated_frame_urls' limit, the images Perplexity is sent (20)
          FtSelect,   \* MAX_FRAMES of the Qwen agent (4)
          FtLists,    \* frames_list an agent may give, as sequences of numbers
          FtNumbers,  \* frame numbers an agent may give; 0 counts as not given
          FtClusters, \* sizes of the groups two images' matches may make
          FtVision,   \* is Azure AI Vision configured?
          FtQwen      \* is the Qwen tool enabled?

ASSUME FrameToolsAssumption ==
    /\ FtLimit \in Nat \ {0} /\ FtSelect \in Nat \ {0} /\ FtNumbers \subseteq Nat
    /\ FtLists \subseteq Seq(Nat) /\ FtVision \in BOOLEAN /\ FtQwen \in BOOLEAN

VARIABLES ftSaved,  \* the account's videos, in the order of their keys
          ftRun,    \* per run: [pc, named, tool, video]
          ftList,   \* the frames it was listed
          ftWhole,  \* ... from the rows of a single request
          ftShown,  \* the frames its tool handed on: [as, video, frame]
          ftAnswer, \* what the tool answers
          ftCount   \* what is counted of an object in a scene

ftOwn == <<ftRun, ftList, ftWhole, ftShown, ftAnswer, ftCount>>
ftVars == <<ftSaved, ftOwn, fsVars>>

Tools == {"describe_frame", "ask_perplexity", "agentic_retrieval", "get_object_uri",
          "get_scene_uri", "count_matches", "qwen_agent"} \cup (IF FtQwen THEN {"ask_qwen_vlm"} ELSE {})
Uses == {"listed", "named", "counted", "guessed", "selected", "object", "scene"}
FrameRef(use, v, n) == [as |-> use, video |-> v, frame |-> n]
There(f) == f.frame < Len(fsBlobs[f.video])

FtTypeOK ==
    /\ FsTypeOK /\ ftSaved \in Seq(FsVideos) /\ ftWhole \in [FtRuns -> BOOLEAN]
    /\ ftCount \in [FtRuns -> Nat]
    /\ ftAnswer \in [FtRuns -> {"", "none", "text", "no_comment", "raised"}]
    /\ \A q \in FtRuns :
        /\ ftRun[q].pc \in {"new", "list", "ask", "resolve", "look", "frames", "query",
                            "object", "again", "scene", "compare", "select", "done"}
        /\ ftRun[q].named \in FsVideos \cup {"none"} /\ ftRun[q].tool \in Tools \cup {"none"}
        /\ ftRun[q].video \in FsVideos \cup {"none"}
        /\ \A f \in ftShown[q] \cup ToSet(ftList[q]) :
            f.as \in Uses /\ f.video \in FsVideos /\ f.frame \in Nat

FtInit ==
    /\ FsInit /\ ftSaved = <<>>
    /\ ftRun = [q \in FtRuns |-> [pc |-> "new", named |-> "none", tool |-> "none", video |-> "none"]]
    /\ ftList = [q \in FtRuns |-> <<>>] /\ ftWhole = [q \in FtRuns |-> TRUE]
    /\ ftShown = [q \in FtRuns |-> {}] /\ ftAnswer = [q \in FtRuns |-> ""]
    /\ ftCount = [q \in FtRuns |-> 0]

\* A video is saved; its key is the account's highest.
SaveVideo(v) ==
    /\ v \notin ToSet(ftSaved) /\ ftSaved' = Append(ftSaved, v)
    /\ UNCHANGED <<ftOwn, fsVars>>

\* The video a tool works on: the one it was given, if there is one, or the
\* account's last.
Resolved(named) ==
    IF named = "none" THEN (IF ftSaved = <<>> THEN "none" ELSE ftSaved[Len(ftSaved)])
    ELSE IF named \in ToSet(ftSaved) THEN named ELSE "none"

Goes(q, from, to) == ftRun[q].pc = from /\ ftRun' = [ftRun EXCEPT ![q].pc = to]
Shows(q, frames) == ftShown' = [ftShown EXCEPT ![q] = @ \cup frames]
Answers(q, from, answers) ==
    /\ Goes(q, from, "done") /\ \E a \in answers : ftAnswer' = [ftAnswer EXCEPT ![q] = a]

\* _run_function_agent: the run is about a video or, unnamed, about the last.
StartAgent(q) ==
    /\ ftRun[q].pc = "new"
    /\ \E v \in FsVideos \cup {"none"} :
        ftRun' = [ftRun EXCEPT ![q].pc = "list", ![q].named = v]
    /\ UNCHANGED <<ftSaved, ftList, ftWhole, ftShown, ftAnswer, ftCount, fsVars>>

\* curated_frame_urls: as many frames as the video has rows, up to the limit,
\* whatever is in storage.
ListFrames(q) ==
    /\ Goes(q, "list", "ask")
    /\ \E v \in {Resolved(ftRun[q].named), "none"} :
        LET rows == IF v = "none" THEN <<>> ELSE fsRows[v] IN
        /\ ftList' = [ftList EXCEPT ![q] =
                [n \in 1..Min({Len(rows), FtLimit}) |-> FrameRef("listed", v, n - 1)]]
        /\ ftWhole' = [ftWhole EXCEPT ![q] = Cardinality(ToSet(rows)) <= 1]
    /\ UNCHANGED <<ftSaved, ftShown, ftAnswer, ftCount, fsVars>>

\* The agent calls a tool by the run's video; describe_frame also with an
\* address of its list, which needs no video, and agentic_retrieval with
\* addresses for the object, the scene or both, as count_matches always is.
CallTool(q) ==
    /\ ftRun[q].pc = "ask"
    /\ \E t \in Tools :
        \/ /\ t # "count_matches"
           /\ ftRun' = [ftRun EXCEPT ![q].tool = t, ![q].pc =
                CASE t = "qwen_agent" -> "select" [] t = "ask_qwen_vlm" -> "query" [] OTHER -> "resolve"]
           /\ UNCHANGED ftShown
        \/ /\ t = "describe_frame" /\ \E n \in DOMAIN ftList[q] : Shows(q, {ftList[q][n]})
           /\ ftRun' = [ftRun EXCEPT ![q].tool = t, ![q].pc = "look"]
        \/ /\ t \in {"agentic_retrieval", "count_matches"}
           /\ \E uses \in {{"object"}, {"scene"}, {"object", "scene"}} : \E n \in DOMAIN ftList[q] :
               /\ t = "count_matches" => uses = {"object", "scene"}
               /\ Shows(q, {[ftList[q][n] EXCEPT !.as = use] : use \in uses})
               /\ ftRun' = [ftRun EXCEPT ![q].tool = t, ![q].pc =
                     IF "object" \notin uses THEN "resolve"
                     ELSE IF "scene" \notin uses THEN "again" ELSE "compare"]
    /\ UNCHANGED <<ftSaved, ftList, ftWhole, ftAnswer, ftCount, fsVars>>

\* get_sas_url_template and ask_perplexity look for the video once more; a
\* database that fails is a video that is not there.  agentic_retrieval does
\* so for the object and again for the scene.
ResolveVideo(q) ==
    /\ ftRun[q].pc \in {"resolve", "again"}
    /\ \E v \in {Resolved(ftRun[q].named), "none"} :
        IF v = "none" /\ ftRun[q].tool \in {"describe_frame", "ask_perplexity"}
        THEN /\ Answers(q, "resolve", {IF ftRun[q].tool = "describe_frame" THEN "text" ELSE "none"})
             /\ UNCHANGED ftShown
        ELSE /\ ftRun' = [ftRun EXCEPT ![q].video = v, ![q].pc =
                  CASE ftRun[q].tool = "describe_frame" -> "look"
                    [] ftRun[q].tool = "ask_perplexity" -> "frames"
                    [] ftRun[q].tool = "get_scene_uri" \/ ftRun[q].pc = "again" -> "scene"
                    [] OTHER -> "object"]
             /\ IF ftRun[q].tool = "describe_frame"
                THEN \E n \in FtNumbers : Shows(q, {FrameRef("named", v, n)})
                ELSE UNCHANGED ftShown
             /\ UNCHANGED ftAnswer
    /\ UNCHANGED <<ftSaved, ftList, ftWhole, ftCount, fsVars>>

\* describe_frame: Azure AI Vision opens the address, or without it a caption
\* is made up of the address alone.
Describe(q) ==
    /\ Answers(q, "look", IF ~FtVision THEN {"text"}
                          ELSE IF \A f \in ftShown[q] : There(f) THEN {"text", "raised"} ELSE {"raised"})
    /\ UNCHANGED <<ftSaved, ftList, ftWhole, ftShown, ftCount, fsVars>>

\* ask_perplexity: the first, middle and last of the frames it counts (until
\* one is missing or its request fails), those the agent listed, or without
\* either the numbers below the limit.
PickFrames(q) ==
    LET v == ftRun[q].video IN
    /\ Goes(q, "frames", "query")
    /\ \E list \in FtLists \cup {<<>>} : \E h \in 0..Len(fsBlobs[v]) :
        Shows(q, IF list # <<>> THEN {FrameRef("named", v, n) : n \in ToSet(SubSeq(list, 1, Min({Len(list), FtLimit})))}
                 ELSE IF h > 0 THEN {FrameRef("counted", v, n) : n \in {0, h \div 2, h - 1}}
                 ELSE {FrameRef("guessed", v, n) : n \in 0..(FtLimit - 1)})
    /\ UNCHANGED <<ftSaved, ftList, ftWhole, ftAnswer, ftCount, fsVars>>

\* perplexity_retrieval, ask_qwen_vlm: not configured or failed is no comment.
Query(q) ==
    /\ Answers(q, "query", {"text", "no_comment"})
    /\ UNCHANGED <<ftSaved, ftList, ftWhole, ftShown, ftCount, fsVars>>

\* get_object_uri: the scene-search agent cites a document of the account, and
\* the frame of its number is taken from the video's folder and clipped.
\* Nothing cited, no box or no such frame is no object; an agent that cannot be
\* asked, a citation that is no document's and one without a video are errors.
FindObject(q) ==
    LET v == ftRun[q].video
        after == IF ftRun[q].tool # "agentic_retrieval" THEN "done"
                 ELSE IF ftShown[q] = {} THEN "again" ELSE "compare"
    IN
    /\ ftRun[q].pc = "object"
    /\ \/ Goes(q, "object", after) /\ UNCHANGED <<ftShown, ftAnswer>>
       \/ Answers(q, "object", {"raised"}) /\ UNCHANGED ftShown
       \/ /\ v # "none" /\ Goes(q, "object", after) /\ UNCHANGED ftAnswer
          /\ \E n \in DOMAIN fsIndex :
              There(FrameRef("object", v, n - 1)) /\ Shows(q, {FrameRef("object", v, n - 1)})
       \/ /\ v # "none" /\ after = "done" /\ Goes(q, "object", after) /\ UNCHANGED ftAnswer
          /\ \E n \in FtNumbers \ {0} : Shows(q, {FrameRef("named", v, n)})
    /\ UNCHANGED <<ftSaved, ftList, ftWhole, ftCount, fsVars>>

\* get_scene_uri: likewise, the frame itself and unseen.
FindScene(q) ==
    LET v == ftRun[q].video
        after == IF ftRun[q].tool = "agentic_retrieval" THEN "compare" ELSE "done"
    IN
    /\ ftRun[q].pc = "scene"
    /\ \/ Goes(q, "scene", after) /\ UNCHANGED <<ftShown, ftAnswer>>
       \/ Answers(q, "scene", {"raised"}) /\ UNCHANGED ftShown
       \/ /\ v # "none" /\ Goes(q, "scene", after) /\ UNCHANGED ftAnswer
          /\ \E n \in DOMAIN fsIndex : Shows(q, {FrameRef("scene", v, n - 1)})
       \/ /\ v # "none" /\ after = "done" /\ Goes(q, "scene", after) /\ UNCHANGED ftAnswer
          /\ \E n \in FtNumbers \ {0} : Shows(q, {FrameRef("named", v, n)})
    /\ UNCHANGED <<ftSaved, ftList, ftWhole, ftCount, fsVars>>

\* count_multiple_matches: of the clusters the features that match make, the
\* members of the one labelled 1, the second.
Matches(clusters) == IF Len(clusters) < 2 THEN 0 ELSE clusters[2]

\* count_object_occurrences: a place matched only once is no occurrence, since
\* groupRectangles leaves out groups of one.
Occurrences(groups) == Cardinality({i \in DOMAIN groups : groups[i] > 1})

\* agentic_retrieval counts when it has an object and a scene; a download that
\* fails raises.
Compare(q) ==
    /\ \/ /\ {f.as : f \in ftShown[q]} # {"object", "scene"}
          /\ Answers(q, "compare", {"text"}) /\ UNCHANGED ftCount
       \/ /\ {f.as : f \in ftShown[q]} = {"object", "scene"}
          /\ Answers(q, "compare", {"raised"}) /\ UNCHANGED ftCount
       \/ /\ {f.as : f \in ftShown[q]} = {"object", "scene"} /\ \A f \in ftShown[q] : There(f)
          /\ Answers(q, "compare", {"text"})
          /\ \E c \in FtClusters : ftCount' = [ftCount EXCEPT ![q] =
                IF ftRun[q].tool = "count_matches" THEN Occurrences(c) ELSE Matches(c)]
    /\ UNCHANGED <<ftSaved, ftList, ftWhole, ftShown, fsVars>>

\* Python's round of a quotient: to the nearest, a half to the even one.
HalfEven(a, b) ==
    LET n == a \div b  r == 2 * (a % b)
    IN IF r > b \/ (r = b /\ n % 2 = 1) THEN n + 1 ELSE n

\* select_frames: the places in a list of n that a selection of k takes.
Selection(n, k) ==
    IF n <= k THEN [i \in 1..n |-> i]
    ELSE IF k = 1 THEN <<1>>
    ELSE [i \in 1..k |-> HalfEven((i - 1) * (n - 1), k - 1) + 1]

\* ask_qwen_agent: every frame of the selection is downloaded and sent; any
\* failure is no answer.
AskVision(q) ==
    LET chosen == {ftList[q][n] : n \in ToSet(Selection(Len(ftList[q]), FtSelect))} IN
    /\ Answers(q, "select", IF chosen # {} /\ \A f \in chosen : There(f)
                            THEN {"none", "text"} ELSE {"none"})
    /\ Shows(q, {[f EXCEPT !.as = "selected"] : f \in chosen})
    /\ UNCHANGED <<ftSaved, ftList, ftWhole, ftCount, fsVars>>

\* FrameStore's requests and ingestions are of videos that are saved.
StoreSteps ==
    /\ FsNext
    /\ \A r \in FsRequests : fsPc[r] = "new" /\ fsPc'[r] # "new" =>
            r \in FsRaw \/ fsVideo[r] \in ToSet(ftSaved)
    /\ UNCHANGED <<ftSaved, ftOwn>>

FtNext ==
    \/ StoreSteps
    \/ \E v \in FsVideos : SaveVideo(v)
    \/ \E q \in FtRuns :
        \/ StartAgent(q) \/ ListFrames(q) \/ CallTool(q) \/ ResolveVideo(q) \/ Describe(q)
        \/ PickFrames(q) \/ Query(q) \/ FindObject(q) \/ FindScene(q) \/ Compare(q)
        \/ AskVision(q)

FtSpec == FtInit /\ [][FtNext]_ftVars

\* The frames an agent is listed are in storage, unless two requests that
\* overlapped both left their rows; those ask_perplexity counted stay there
\* (curated_frame_urls, ask_perplexity).
ListedAreThere ==
    \A q \in FtRuns :
        /\ ftWhole[q] => \A n \in DOMAIN ftList[q] : There(ftList[q][n])
        /\ \A f \in ftShown[q] : f.as = "counted" => There(f)

\* Whatever is saved meanwhile, an agent asked about a video is only shown
\* frames of that video's folder, and one asked about none is shown those of
\* one folder by any tool but agentic_retrieval, which looks for the last
\* video twice.
OneVideo ==
    \A q \in FtRuns :
        LET videos == {f.video : f \in ftShown[q]} IN
        /\ ftRun[q].named # "none" => videos \subseteq {ftRun[q].named}
        /\ ftRun[q].tool # "agentic_retrieval" => Cardinality(videos) <= 1

\* Of a list of any length the Qwen agent is sent as many frames as it may be,
\* in order, with the first and the last ("evenly spaced items, always keeping
\* first and last"); what it answers about is in storage.
SelectionKept ==
    /\ \A n \in 1..FtLimit : \A k \in 2..FtSelect :
        LET chosen == Selection(n, k) IN
        /\ Len(chosen) = Min({n, k}) /\ chosen[1] = 1 /\ chosen[Len(chosen)] = n
        /\ \A i \in 2..Len(chosen) : chosen[i - 1] < chosen[i]
    /\ \A q \in FtRuns : ftRun[q].tool = "qwen_agent" /\ ftAnswer[q] = "text" =>
        \A f \in ftShown[q] : There(f)

\* An object is only counted in a scene when both are in storage.
CountedInScene ==
    \A q \in FtRuns : ftCount[q] > 0 =>
        \A use \in {"object", "scene"} : \E f \in ftShown[q] : f.as = use /\ There(f)

\* Frames, and what the tools make of them, are what they are taken for.
ToolsHonest == FramesHonest /\ ListedAreThere /\ OneVideo /\ SelectionKept /\ CountedInScene
=============================================================================

--------------------------- MODULE SurveyCorners ---------------------------
(***************************************************************************)
(* The corners of a survey: CornersAPIView of apps/videos/views.py with    *)
(* core/azure/survey_corners.py.  A request downloads a video, estimates   *)
(* the flight's track, and puts the frames nearest the track's corners     *)
(* into a folder, over those that are there.  The folder is that of the    *)
(* video's row, or 0 when there is none.                                   *)
(***************************************************************************)
EXTENDS Naturals, Sequences, FiniteSets, SequencesExt

CONSTANTS CoRequests, CoVideos, \* requests, and the videos they can be about
          CoSamples,            \* what videos give: numbers of usable sampled frames
          CoReadable            \* ... and which corners' frames can be read, in order

VARIABLES coSaved,             \* the rows of the account's videos, the latest last
          coPc, coRow, coFrom, \* per request: progress, its row, the video it downloads
          coTodo, coListed,    \* per request: labels to put, and those of its answer
          coBlobs              \* per folder: label -> the video the corner is of

coVars == <<coSaved, coPc, coRow, coFrom, coTodo, coListed, coBlobs>>

Labels == 1..4
ASSUME CornersAssumption ==
    /\ CoSamples \subseteq Nat
    /\ CoReadable \subseteq {SetToSortSeq(s, <) : s \in SUBSET Labels}
\* They are sequences of labels.
ASSUME ReadableAssumption == CoReadable \subseteq Seq(Labels)

CoTypeOK ==
    /\ coSaved \in Seq(CoVideos)
    /\ coPc \in [CoRequests -> {"new", "extract", "put", "done", "refused", "failed"}]
    /\ coRow \in [CoRequests -> CoVideos \cup {"0"}]
    /\ coFrom \in [CoRequests -> CoVideos \cup {"none"}]
    /\ \A r \in CoRequests : coTodo[r] \in Seq(Labels) /\ coListed[r] \subseteq Labels
    /\ coBlobs \in [CoVideos \cup {"0"} -> [Labels -> CoVideos \cup {"none"}]]

CoInit ==
    /\ coSaved = <<>> /\ coPc = [r \in CoRequests |-> "new"]
    /\ coRow = [r \in CoRequests |-> "0"] /\ coFrom = [r \in CoRequests |-> "none"]
    /\ coTodo = [r \in CoRequests |-> <<>>] /\ coListed = [r \in CoRequests |-> {}]
    /\ coBlobs = [f \in CoVideos \cup {"0"} |-> [l \in Labels |-> "none"]]

SaveRow(v) ==
    /\ v \notin ToSet(coSaved) /\ coSaved' = Append(coSaved, v)
    /\ UNCHANGED <<coPc, coRow, coFrom, coTodo, coListed, coBlobs>>

\* put: the row named, or without an address the latest; the video downloaded
\* is the address if there is one, even beside a row.
AskCorners(r) ==
    /\ coPc[r] = "new"
    /\ \E id, url \in CoVideos \cup {"none"} :
        LET row == IF id # "none" THEN (IF id \in ToSet(coSaved) THEN id ELSE "missing")
                   ELSE IF url # "none" \/ coSaved = <<>> THEN "0"
                   ELSE coSaved[Len(coSaved)]
            from == IF url # "none" THEN url ELSE IF row = "0" THEN "none" ELSE row
        IN  IF row = "missing" \/ from = "none"
            THEN coPc' = [coPc EXCEPT ![r] = "refused"] /\ UNCHANGED <<coRow, coFrom>>
            ELSE /\ coPc' = [coPc EXCEPT ![r] = "extract"]
                 /\ coRow' = [coRow EXCEPT ![r] = row]
                 /\ coFrom' = [coFrom EXCEPT ![r] = from]
    /\ UNCHANGED <<coSaved, coTodo, coListed, coBlobs>>

\* track_from_video: a position for each sampled frame that can be read.
Usable(track) == track >= 8

\* extract_corner_frames: the frames nearest the corners, bottom left first;
\* one that cannot be read is left out, too short a track is an error.
ExtractCorners(r) ==
    /\ coPc[r] = "extract"
    /\ \E track \in CoSamples :
        IF Usable(track)
        THEN /\ coPc' = [coPc EXCEPT ![r] = "put"]
             /\ \E readable \in CoReadable : coTodo' = [coTodo EXCEPT ![r] = readable]
        ELSE coPc' = [coPc EXCEPT ![r] = "failed"] /\ UNCHANGED coTodo
    /\ UNCHANGED <<coSaved, coRow, coFrom, coListed, coBlobs>>

\* Each corner is put over the one of its label; after the last is the answer.
PutCorner(r) ==
    /\ coPc[r] = "put"
    /\ IF coTodo[r] = <<>>
       THEN coPc' = [coPc EXCEPT ![r] = "done"] /\ UNCHANGED <<coTodo, coListed, coBlobs>>
       ELSE /\ coBlobs' = [coBlobs EXCEPT ![coRow[r]][Head(coTodo[r])] = coFrom[r]]
            /\ coListed' = [coListed EXCEPT ![r] = @ \cup {Head(coTodo[r])}]
            /\ coTodo' = [coTodo EXCEPT ![r] = Tail(@)]
            /\ UNCHANGED coPc
    /\ UNCHANGED <<coSaved, coRow, coFrom>>

\* A download or an upload fails: an error, what was put stays.
CornersFail(r) ==
    /\ coPc[r] \in {"extract", "put"}
    /\ coPc' = [coPc EXCEPT ![r] = "failed"]
    /\ coTodo' = [coTodo EXCEPT ![r] = <<>>]
    /\ UNCHANGED <<coSaved, coRow, coFrom, coListed, coBlobs>>

CoNext ==
    \/ \E v \in CoVideos : SaveRow(v)
    \/ \E r \in CoRequests :
        AskCorners(r) \/ ExtractCorners(r) \/ PutCorner(r) \/ CornersFail(r)

CoSpec == CoInit /\ [][CoNext]_coVars

\* The corners behind an answer are of the video they were asked of, whatever
\* other requests put or leave undone meanwhile, as long as each request that
\* names a row downloads that row's video and the folder without a row is used
\* for one video.
CornersKept ==
    \A r \in CoRequests :
        (\A s \in CoRequests : coRow[s] = coRow[r] /\ coFrom[s] # "none" => coFrom[s] = coFrom[r]) =>
            \A l \in coListed[r] : coBlobs[coRow[r]][l] = coFrom[r]
=============================================================================

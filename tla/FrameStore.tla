----------------------------- MODULE FrameStore -----------------------------
(***************************************************************************)
(* The frames of a video, in blob storage, in the database and in the      *)
(* search index: apps/videos/frame_extract.py and core/azure/blob.py,      *)
(* FrameExtractAPIView of apps/videos/views.py, and ingest_video of        *)
(* core/azure/session.py with core/azure/document.py.                      *)
(*                                                                         *)
(* Requests to extract the frames of a video race with each other and with *)
(* the ingestion that saving the video's row starts.  Whoever finds frames *)
(* in storage takes them; whoever finds none downloads the video, samples  *)
(* it and uploads the frames one by one.  A frame is known by the sampling *)
(* it comes from; any request to storage may fail.                         *)
(***************************************************************************)
EXTENDS Naturals, Sequences, FiniteSets, SequencesExt

CONSTANTS FsRequests, \* requests and ingestions
          FsIngests,  \* those that are ingestions
          FsRaw,      \* those that name a video by its address only
          FsMixed,    \* those that may name an address beside a video's row
          FsVideos,   \* videos of one account
          FsStrides,  \* strides a request may ask for
          FsSeconds,  \* bound: length of the videos
          FsFailures  \* bound: failed requests to storage

ASSUME FsAssumption ==
    /\ FsIngests \subseteq FsRequests /\ FsRaw \subseteq FsRequests \ FsIngests
    /\ FsMixed \subseteq FsRequests \ (FsIngests \cup FsRaw)
    /\ FsStrides \subseteq Nat \ {0} /\ FsSeconds \in Nat /\ FsFailures \in Nat
    /\ FsVideos \cap {"shared", "none"} = {}

VARIABLES fsPc, fsVideo,  \* per request: progress, and the video it asked for
          fsSource,       \* per request: the video it downloads
          fsBlobs,        \* per folder: the frames in storage, frame0.jpg first
          fsSample,       \* per request: the sampling it uploads, or none
          fsAnswer,       \* per request: the frames it has, as they were found
          fsRows,         \* per video: who wrote its ImageEntity rows
          fsIndex,        \* the account's index documents, by frame number
          fsFailed,       \* requests to storage or the database that failed so far
          fsAlone         \* requests that no other of the same video overlapped with
                          \* and that wrote the rows they meant to

fsVars == <<fsPc, fsVideo, fsSource, fsBlobs, fsSample, fsAnswer, fsRows, fsIndex, fsFailed, fsAlone>>

NoJob == [video |-> "none", stride |-> 0]
\* Stride 0 is every frame, which the ingestion takes.
Samplings == [video : FsVideos, stride : FsStrides \cup {0}]

FramesIn(s) == IF s.stride = 0 THEN FsSeconds + 2 ELSE (FsSeconds \div s.stride) + 1

\* The folder of a request: named after the row, even if it names an address
\* as well, or shared when there is no row.
Segment(r) == IF r \in FsRaw THEN "shared" ELSE fsVideo[r]
Folders == FsVideos \cup {"shared"}

FsTypeOK ==
    /\ fsPc \in [FsRequests -> {"new", "count", "download", "upload", "index", "rows",
                                "deleted", "done", "failed"}]
    /\ fsVideo \in [FsRequests -> FsVideos] /\ fsSource \in [FsRequests -> FsVideos]
    /\ \A f \in Folders : fsBlobs[f] \in Seq(Samplings)
    /\ fsSample \in [FsRequests -> Samplings \cup {NoJob}]
    /\ \A r \in FsRequests : fsAnswer[r] \in Seq(Samplings)
    /\ \A v \in FsVideos : fsRows[v] \in Seq(FsRequests)
    /\ \A n \in DOMAIN fsIndex : fsIndex[n] \in FsVideos
    /\ fsFailed \in 0..FsFailures /\ fsAlone \subseteq FsRequests

FsInit ==
    /\ fsPc = [r \in FsRequests |-> "new"] /\ fsVideo \in [FsRequests -> FsVideos]
    /\ fsSource \in [FsRequests -> FsVideos]
    /\ \A r \in FsRequests \ FsMixed : fsSource[r] = fsVideo[r]
    /\ fsBlobs = [f \in Folders |-> <<>>]
    /\ fsSample = [r \in FsRequests |-> NoJob] /\ fsAnswer = [r \in FsRequests |-> <<>>]
    /\ fsRows = [v \in FsVideos |-> <<>>] /\ fsIndex = <<>>
    /\ fsFailed = 0 /\ fsAlone = {}

Moves(r, from, to) == fsPc[r] = from /\ fsPc' = [fsPc EXCEPT ![r] = to]
SameVideo(r) == {q \in FsRequests \ {r} : fsVideo[q] = fsVideo[r]}

\* The request finds its video, an ingestion is called with it.
BeginRequest(r) ==
    /\ Moves(r, "new", "count")
    /\ LET others == {q \in SameVideo(r) : fsPc[q] # "new"}
           running == {q \in others : fsPc[q] \notin {"done", "failed"}}
       IN fsAlone' = (fsAlone \ others) \cup (IF running = {} THEN {r} ELSE {})
    /\ UNCHANGED <<fsVideo, fsSource, fsBlobs, fsSample, fsAnswer, fsRows, fsIndex, fsFailed>>

AfterFrames(r) == IF r \in FsIngests THEN "index" ELSE "rows"

\* get_uploaded_frames: count until the first blob that is missing, or whose
\* request fails; if there are any, they are the frames.
CountFrames(r) ==
    /\ fsPc[r] = "count"
    /\ \E n \in 0..Len(fsBlobs[Segment(r)]) :
        /\ n < Len(fsBlobs[Segment(r)]) => fsFailed < FsFailures
        /\ fsFailed' = IF n < Len(fsBlobs[Segment(r)]) THEN fsFailed + 1 ELSE fsFailed
        /\ fsPc' = [fsPc EXCEPT ![r] = IF n > 0 THEN AfterFrames(r) ELSE "download"]
        /\ fsAnswer' = [fsAnswer EXCEPT ![r] = SubSeq(fsBlobs[Segment(r)], 1, n)]
    /\ UNCHANGED <<fsVideo, fsSource, fsBlobs, fsSample, fsRows, fsIndex, fsAlone>>

\* Download and sample the video: every frame for an ingestion, else one every
\* stride seconds.  An address is what is downloaded, even beside a row.
Sample(r) ==
    /\ Moves(r, "download", "upload")
    /\ \E s \in (IF r \in FsIngests THEN {0} ELSE FsStrides) :
        fsSample' = [fsSample EXCEPT ![r] = [video |-> fsSource[r], stride |-> s]]
    /\ UNCHANGED <<fsVideo, fsSource, fsBlobs, fsAnswer, fsRows, fsIndex, fsFailed, fsAlone>>

\* Put one frame, over one of the same number, whoever it is from.
UploadFrame(r) ==
    LET n == Len(fsAnswer[r]) + 1
        blobs == fsBlobs[Segment(r)]
    IN
    /\ fsPc[r] = "upload" /\ n <= FramesIn(fsSample[r])
    /\ fsBlobs' = [fsBlobs EXCEPT ![Segment(r)] =
                     IF n <= Len(blobs) THEN [blobs EXCEPT ![n] = fsSample[r]]
                                        ELSE Append(blobs, fsSample[r])]
    /\ fsAnswer' = [fsAnswer EXCEPT ![r] = Append(@, fsSample[r])]
    /\ IF n = FramesIn(fsSample[r])
       THEN /\ fsPc' = [fsPc EXCEPT ![r] = AfterFrames(r)]
            /\ fsSample' = [fsSample EXCEPT ![r] = NoJob]
       ELSE UNCHANGED <<fsPc, fsSample>>
    /\ UNCHANGED <<fsVideo, fsSource, fsRows, fsIndex, fsFailed, fsAlone>>

\* A download or an upload fails, or the process dies: the request is over,
\* what it has uploaded stays.
StorageFails(r) ==
    /\ fsPc[r] \in {"download", "upload"} /\ fsFailed < FsFailures
    /\ fsPc' = [fsPc EXCEPT ![r] = "failed"] /\ fsFailed' = fsFailed + 1
    /\ fsSample' = [fsSample EXCEPT ![r] = NoJob]
    /\ UNCHANGED <<fsVideo, fsSource, fsBlobs, fsAnswer, fsRows, fsIndex, fsAlone>>

\* Variant of SyncDelete: the rows of the frames are added to what is there.
SyncDeleteNot(r) ==
    /\ fsPc[r] = "rows" /\ r \notin FsRaw
    /\ fsPc' = [fsPc EXCEPT ![r] = "deleted"]
    /\ UNCHANGED <<fsVideo, fsSource, fsBlobs, fsSample, fsAnswer, fsRows, fsIndex, fsFailed, fsAlone>>

\* _sync_image_entities: as many rows as frames are taken for the right ones;
\* otherwise all are deleted and, in another transaction, written anew.
SyncDelete(r) ==
    /\ fsPc[r] = "rows" /\ r \notin FsRaw
    /\ IF Len(fsRows[fsVideo[r]]) = Len(fsAnswer[r])
       THEN fsPc' = [fsPc EXCEPT ![r] = "done"] /\ UNCHANGED fsRows
       ELSE /\ fsPc' = [fsPc EXCEPT ![r] = "deleted"]
            /\ fsRows' = [fsRows EXCEPT ![fsVideo[r]] = <<>>]
    /\ UNCHANGED <<fsVideo, fsSource, fsBlobs, fsSample, fsAnswer, fsIndex, fsFailed, fsAlone>>

SyncCreate(r) ==
    /\ Moves(r, "deleted", "done")
    /\ fsRows' = [fsRows EXCEPT ![fsVideo[r]] = @ \o [n \in DOMAIN fsAnswer[r] |-> r]]
    /\ UNCHANGED <<fsVideo, fsSource, fsBlobs, fsSample, fsAnswer, fsIndex, fsFailed, fsAlone>>

\* The database refuses the deletion or the new rows: a warning.
SyncFails(r) ==
    /\ fsPc[r] \in {"rows", "deleted"} /\ r \notin FsRaw /\ fsFailed < FsFailures
    /\ fsPc' = [fsPc EXCEPT ![r] = "done"]
    /\ fsFailed' = fsFailed + 1 /\ fsAlone' = fsAlone \ {r}
    /\ UNCHANGED <<fsVideo, fsSource, fsBlobs, fsSample, fsAnswer, fsRows, fsIndex>>

\* A video without a row has no rows of frames.
SyncNothing(r) ==
    /\ r \in FsRaw /\ Moves(r, "rows", "done")
    /\ UNCHANGED <<fsVideo, fsSource, fsBlobs, fsSample, fsAnswer, fsRows, fsIndex, fsFailed, fsAlone>>

\* The ingestion writes one document a frame, under an id made of the account
\* and the frame's number.
IndexFrames(r) ==
    /\ Moves(r, "index", "done")
    /\ LET new == Len(fsAnswer[r]) IN
       fsIndex' = [n \in 1..(IF new > Len(fsIndex) THEN new ELSE Len(fsIndex)) |->
                     IF n <= new THEN fsVideo[r] ELSE fsIndex[n]]
    /\ UNCHANGED <<fsVideo, fsSource, fsBlobs, fsSample, fsAnswer, fsRows, fsFailed, fsAlone>>

FsNext == \E r \in FsRequests :
    \/ BeginRequest(r) \/ CountFrames(r) \/ Sample(r) \/ UploadFrame(r)
    \/ StorageFails(r) \/ SyncDelete(r) \/ SyncCreate(r) \/ SyncFails(r)
    \/ SyncNothing(r) \/ IndexFrames(r)

FsSpec == FsInit /\ [][FsNext]_fsVars

\* Frames that a request for a row's video is answered with, and that the
\* ingestion indexes as that video's, are of a video that a request for that
\* row, begun by now, was to download: the row's own unless one of them named
\* another address, and never one of a request for another row or for none.
FramesOfTheVideo ==
    \A r \in FsRequests \ FsRaw : \A n \in DOMAIN fsAnswer[r] :
        \E q \in FsRequests \ FsRaw :
            /\ fsPc[q] # "new" /\ fsVideo[q] = fsVideo[r]
            /\ fsSource[q] = fsAnswer[r][n].video

\* All frames of the sampling that its last frame comes from.
IsWhole(frames) == Len(frames) > 0 /\ Len(frames) = FramesIn(frames[Len(frames)])

\* A set of frames with some missing at its end is only taken for the whole
\* after storage failed or while somebody is uploading.
WholeUnlessDisturbed ==
    \A r \in FsRequests \ FsRaw :
        fsPc[r] = "done" /\ r \in fsAlone /\ fsFailed = 0 => IsWhole(fsAnswer[r])

\* Once a request that nobody disturbed is answered, its video has one row for
\* each frame of the answer, however badly earlier ones left them.
RowsHeal ==
    \A r \in FsRequests \ (FsRaw \cup FsIngests) :
        fsPc[r] = "done" /\ r \in fsAlone => Len(fsRows[fsVideo[r]]) = Len(fsAnswer[r])

FramesHonest == FramesOfTheVideo /\ WholeUnlessDisturbed /\ RowsHeal
=============================================================================

---------------------------- MODULE FramesProofs -----------------------------
(***************************************************************************)
(* What the frames extracted from videos, the tools that hand them to the  *)
(* agents and the corners of a survey promise, proved for any number of    *)
(* requests, videos and runs.  As in RecordsProofs each invariant is about *)
(* the variables of one component, and a step of another one leaves them   *)
(* alone.                                                                  *)
(***************************************************************************)
EXTENDS MCRecords, FiniteSetTheorems, SequenceTheorems, TLAPS

-----------------------------------------------------------------------------
(***************************************************************************)
(* The frames of a video                                                   *)
(***************************************************************************)
FsPlaces == {"new", "count", "download", "upload", "index", "rows", "deleted", "done", "failed"}

\* A request for the row of video v that is to download video w has begun.
Began(v, w) ==
    \E q \in FsRequests \ FsRaw : fsPc[q] # "new" /\ fsVideo[q] = v /\ fsSource[q] = w

\* What a request has was found in its folder or put there by it.
RequestKnows(r) ==
    /\ r \notin FsRaw => \A n \in 1..Len(fsAnswer[r]) : Began(fsVideo[r], fsAnswer[r][n].video)
    /\ Len(fsAnswer[r]) <= Len(fsBlobs[Segment(r)])
    /\ fsPc[r] \in {"new", "count", "download"} => Len(fsAnswer[r]) = 0
    /\ fsPc[r] = "upload" => /\ fsSample[r] \in Samplings /\ fsSample[r].video = fsSource[r]
                             /\ Len(fsAnswer[r]) < FramesIn(fsSample[r])
    /\ fsPc[r] = "index" => r \in FsIngests
    /\ fsPc[r] = "deleted" => r \notin FsRaw

\* The folder of a video holds what requests for its row downloaded.
OwnFrames(v) == \A n \in 1..Len(fsBlobs[v]) : Began(v, fsBlobs[v][n].video)

\* Rows are written by requests that are done, and those of one request are no
\* more than the frames in storage.
RowsKnown(v) ==
    /\ \A i \in 1..Len(fsRows[v]) :
        fsRows[v][i] \notin FsRaw /\ fsVideo[fsRows[v][i]] = v /\ fsPc[fsRows[v][i]] = "done"
    /\ (\A i, j \in 1..Len(fsRows[v]) : fsRows[v][i] = fsRows[v][j]) =>
            Len(fsRows[v]) <= Len(fsBlobs[v])

\* As long as nothing failed, a folder holds a whole sampling, or the request
\* that put the last of its frames is not through.
FolderWhole(v) ==
    \/ Len(fsBlobs[v]) = 0
    \/ IsWhole(fsBlobs[v])
    \/ \E q \in FsRequests \ FsRaw :
        fsPc[q] = "upload" /\ fsVideo[q] = v /\ Len(fsAnswer[q]) = Len(fsBlobs[v])

\* While a request is alone nobody else works on its video.
AloneKnows(r) ==
    /\ fsPc[r] # "new"
    /\ \A q \in SameVideo(r) : fsPc[q] \in {"new", "done", "failed"}
    /\ fsPc[r] = "deleted" => Len(fsRows[fsVideo[r]]) = 0
    /\ fsPc[r] = "done" /\ r \notin FsRaw \cup FsIngests =>
            Len(fsRows[fsVideo[r]]) = Len(fsAnswer[r])
    /\ fsFailed = 0 /\ r \notin FsRaw /\ fsPc[r] \in {"index", "rows", "deleted", "done"} =>
            IsWhole(fsAnswer[r])

FsShapes ==
    /\ fsPc \in [FsRequests -> FsPlaces] /\ fsVideo \in [FsRequests -> FsVideos]
    /\ fsSource \in [FsRequests -> FsVideos]
    /\ fsBlobs \in [Folders -> Seq(Samplings)]
    /\ fsSample \in [FsRequests -> Samplings \cup {NoJob}]
    /\ fsAnswer \in [FsRequests -> Seq(Samplings)]
    /\ fsRows \in [FsVideos -> Seq(FsRequests)]
    /\ fsFailed \in Nat /\ fsAlone \subseteq FsRequests

FsInv ==
    /\ FsShapes
    /\ \A r \in FsRequests : RequestKnows(r)
    /\ \A v \in FsVideos : OwnFrames(v)
    /\ \A v \in FsVideos : RowsKnown(v)
    /\ \A r \in fsAlone : AloneKnows(r)
    /\ fsFailed = 0 => \A v \in FsVideos : FolderWhole(v)

\* A sampling gives at least one frame.
LEMMA SomeFrames == \A s \in Samplings : FramesIn(s) \in Nat \ {0}
  <1> SUFFICES ASSUME NEW s \in Samplings PROVE FramesIn(s) \in Nat \ {0}
    OBVIOUS
  <1>1. PICK k \in FsStrides \cup {0} : k = s.stride
    BY DEF Samplings
  <1>2. FsSeconds \in Nat
    BY FsAssumption
  <1>3. CASE k = 0
    BY <1>1, <1>2, <1>3 DEF FramesIn
  <1>4. CASE k # 0
    <2>1. k \in Nat \ {0}
      BY <1>4, FsAssumption
    <2>2. FsSeconds \div k \in Nat
      BY <1>2, <2>1
    <2>3. QED
      BY <1>1, <2>1, <2>2 DEF FramesIn
  <1>5. QED
    BY <1>3, <1>4

\* Folders are those of videos and the shared one, which is nobody's.
LEMMA SegmentFacts ==
  ASSUME FsShapes, NEW r \in FsRequests
  PROVE  /\ Segment(r) \in Folders /\ fsVideo[r] \in FsVideos /\ fsVideo[r] \in Folders
         /\ Len(fsBlobs[Segment(r)]) \in Nat /\ Len(fsAnswer[r]) \in Nat
         /\ Len(fsRows[fsVideo[r]]) \in Nat
         /\ r \notin FsRaw => Segment(r) = fsVideo[r]
         /\ r \in FsRaw => Segment(r) \notin FsVideos
  <1>1. /\ Segment(r) \in Folders /\ fsVideo[r] \in FsVideos /\ fsVideo[r] \in Folders
        /\ r \notin FsRaw => Segment(r) = fsVideo[r]
        /\ r \in FsRaw => Segment(r) \notin FsVideos
    BY FsAssumption DEF FsShapes, Segment, Folders
  <1>2. fsBlobs[Segment(r)] \in Seq(Samplings) /\ fsAnswer[r] \in Seq(Samplings)
        /\ fsRows[fsVideo[r]] \in Seq(FsRequests)
    BY <1>1 DEF FsShapes
  <1>3. QED
    BY <1>1, <1>2, LenProperties

LEMMA FsInvInit == FsInit => FsInv
  <1> SUFFICES ASSUME FsInit PROVE FsInv
    OBVIOUS
  <1>1. FsShapes
    BY DEF FsInit, FsShapes, FsPlaces, NoJob
  <1>2. \A r \in FsRequests : RequestKnows(r)
    <2>1. SUFFICES ASSUME NEW r \in FsRequests PROVE RequestKnows(r)
      OBVIOUS
    <2>2. Segment(r) \in Folders
      BY <1>1, SegmentFacts
    <2>3. fsAnswer[r] = <<>> /\ fsPc[r] = "new" /\ fsBlobs[Segment(r)] = <<>>
      BY <2>2 DEF FsInit
    <2>4. QED
      BY <2>3 DEF RequestKnows
  <1>3. \A v \in FsVideos : fsBlobs[v] = <<>> /\ fsRows[v] = <<>>
    BY DEF FsInit, Folders
  <1>4. \A v \in FsVideos : OwnFrames(v) /\ RowsKnown(v) /\ FolderWhole(v)
    BY <1>3 DEF OwnFrames, RowsKnown, FolderWhole
  <1>5. fsAlone = {}
    BY DEF FsInit
  <1>6. QED
    BY <1>1, <1>2, <1>4, <1>5 DEF FsInv

\* Storage is never emptied, and a step of one request leaves what the others
\* have alone.
LEMMA OthersKnow ==
  ASSUME FsInv, FsShapes', NEW r \in FsRequests,
         fsVideo' = fsVideo, fsSource' = fsSource, fsPc'[r] # "new",
         \A q \in FsRequests \ {r} : /\ fsPc'[q] = fsPc[q] /\ fsSample'[q] = fsSample[q]
                                    /\ fsAnswer'[q] = fsAnswer[q],
         \A f \in Folders : Len(fsBlobs[f]) <= Len(fsBlobs'[f])
  PROVE  \A q \in FsRequests \ {r} : RequestKnows(q)'
  <1> SUFFICES ASSUME NEW q \in FsRequests \ {r} PROVE RequestKnows(q)'
    OBVIOUS
  <1>1. RequestKnows(q) /\ FsShapes
    BY DEF FsInv
  <1>2. Segment(q)' = Segment(q) /\ Segment(q) \in Folders
    BY <1>1, SegmentFacts DEF Segment
  <1>3. Len(fsBlobs[Segment(q)]) \in Nat /\ Len(fsAnswer[q]) \in Nat
    BY <1>1, SegmentFacts
  <1>4. Len(fsBlobs'[Segment(q)]) \in Nat
    BY <1>2, LenProperties DEF FsShapes
  <1>5. Len(fsAnswer'[q]) <= Len(fsBlobs'[Segment(q)])
    BY <1>1, <1>2, <1>3, <1>4 DEF RequestKnows
  <1>6. \A p \in FsRequests : fsPc[p] # "new" => fsPc'[p] # "new"
    OBVIOUS
  <1>7. q \notin FsRaw =>
            \A n \in 1..Len(fsAnswer'[q]) : Began(fsVideo[q], fsAnswer[q][n].video)'
    BY <1>1, <1>6 DEF RequestKnows, Began
  <1>8. QED
    BY <1>1, <1>2, <1>5, <1>7 DEF RequestKnows

LEMMA RowsStay ==
  ASSUME FsInv, FsShapes', fsRows' = fsRows, fsVideo' = fsVideo,
         \A q \in FsRequests : fsPc[q] = "done" => fsPc'[q] = "done",
         \A f \in Folders : Len(fsBlobs[f]) <= Len(fsBlobs'[f])
  PROVE  \A v \in FsVideos : RowsKnown(v)'
  <1> SUFFICES ASSUME NEW v \in FsVideos PROVE RowsKnown(v)'
    OBVIOUS
  <1>1. RowsKnown(v) /\ v \in Folders
    BY DEF FsInv, Folders
  <1>2. /\ fsRows[v] \in Seq(FsRequests) /\ fsBlobs[v] \in Seq(Samplings)
        /\ fsBlobs'[v] \in Seq(Samplings)
    BY <1>1 DEF FsInv, FsShapes
  <1>3. /\ Len(fsRows[v]) \in Nat /\ Len(fsBlobs[v]) \in Nat /\ Len(fsBlobs'[v]) \in Nat
        /\ \A i \in 1..Len(fsRows[v]) : fsRows[v][i] \in FsRequests
    BY <1>2, LenProperties, ElementOfSeq
  <1>4. Len(fsBlobs[v]) <= Len(fsBlobs'[v])
    BY <1>1
  <1>5. ASSUME \A i, j \in 1..Len(fsRows[v]) : fsRows[v][i] = fsRows[v][j]
        PROVE  Len(fsRows[v]) <= Len(fsBlobs'[v])
    <2>1. Len(fsRows[v]) <= Len(fsBlobs[v])
      BY <1>1, <1>5 DEF RowsKnown
    <2>2. QED
      BY <1>3, <1>4, <2>1
  <1>6. QED
    BY <1>1, <1>3, <1>5 DEF RowsKnown

\* Whoever is alone is of another video than a request that is at work.
LEMMA OthersAlone ==
  ASSUME FsInv, NEW r \in FsRequests, fsPc[r] \notin {"new", "done", "failed"},
         fsVideo' = fsVideo, fsAlone' \subseteq fsAlone, fsFailed' \in Nat, fsFailed <= fsFailed',
         \A q \in FsRequests \ {r} : fsPc'[q] = fsPc[q] /\ fsAnswer'[q] = fsAnswer[q],
         \A v \in FsVideos : v # fsVideo[r] => fsRows'[v] = fsRows[v]
  PROVE  \A q \in fsAlone' \ {r} : AloneKnows(q)'
  <1> SUFFICES ASSUME NEW q \in fsAlone' \ {r} PROVE AloneKnows(q)'
    OBVIOUS
  <1>1. q \in FsRequests /\ AloneKnows(q)
    BY DEF FsInv, FsShapes
  <1>2. fsVideo[q] # fsVideo[r] /\ fsVideo[q] \in FsVideos
    BY <1>1 DEF FsInv, FsShapes, AloneKnows, SameVideo
  <1>3. SameVideo(q)' = SameVideo(q) /\ SameVideo(q) \subseteq FsRequests \ {r}
    BY <1>2 DEF SameVideo
  <1>4. fsRows'[fsVideo[q]] = fsRows[fsVideo[q]]
    BY <1>2
  <1>5. fsFailed' = 0 => fsFailed = 0
    BY DEF FsInv, FsShapes
  <1>6. fsPc'[q] = fsPc[q] /\ fsAnswer'[q] = fsAnswer[q]
    BY <1>1
  <1>7. \A p \in SameVideo(q)' : fsPc'[p] \in {"new", "done", "failed"}
    BY <1>1, <1>3 DEF AloneKnows
  <1>8. QED
    BY <1>1, <1>4, <1>5, <1>6, <1>7 DEF AloneKnows

LEMMA FoldersStay ==
  ASSUME FsInv, fsBlobs' = fsBlobs, fsVideo' = fsVideo, fsSource' = fsSource,
         \A q \in FsRequests : fsPc[q] # "new" => fsPc'[q] # "new",
         fsFailed' = 0 => fsFailed = 0,
         \A q \in FsRequests : fsPc[q] = "upload" =>
            fsPc'[q] = "upload" /\ fsAnswer'[q] = fsAnswer[q]
  PROVE  /\ \A v \in FsVideos : OwnFrames(v)'
         /\ fsFailed' = 0 => \A v \in FsVideos : FolderWhole(v)'
  <1>1. \A v \in FsVideos : OwnFrames(v)'
    BY DEF FsInv, OwnFrames, Began
  <1>2. ASSUME fsFailed' = 0, NEW v \in FsVideos PROVE FolderWhole(v)'
    <2>1. FolderWhole(v)
      BY <1>2 DEF FsInv
    <2>2. QED
      BY <2>1 DEF FolderWhole, IsWhole, FramesIn
  <1>3. QED
    BY <1>1, <1>2

LEMMA FoldersSame ==
  ASSUME FsInv, fsBlobs' = fsBlobs
  PROVE  \A f \in Folders : Len(fsBlobs[f]) <= Len(fsBlobs'[f])
  <1>1. \A f \in Folders : Len(fsBlobs[f]) \in Nat
    BY LenProperties DEF FsInv, FsShapes
  <1>2. QED
    BY <1>1

\* A request begins: those that are through lose their solitude, and it has
\* its own if nobody is at work.
LEMMA BeginRequestKeeps ==
  ASSUME FsInv, NEW r \in FsRequests, BeginRequest(r)
  PROVE  FsInv'
  <1> DEFINE others == {q \in SameVideo(r) : fsPc[q] # "new"}
             running == {q \in others : fsPc[q] \notin {"done", "failed"}}
  <1>1. /\ fsPc[r] = "new" /\ fsPc' = [fsPc EXCEPT ![r] = "count"]
        /\ fsAlone' = (fsAlone \ others) \cup (IF running = {} THEN {r} ELSE {})
        /\ UNCHANGED <<fsVideo, fsSource, fsBlobs, fsSample, fsAnswer, fsRows, fsIndex, fsFailed>>
    BY DEF BeginRequest, Moves
  <1>2. FsShapes /\ FsShapes'
    BY <1>1 DEF FsInv, FsShapes, FsPlaces
  <1>3. \A q \in FsRequests \ {r} : fsPc'[q] = fsPc[q]
    BY <1>1, <1>2 DEF FsShapes
  <1>4. fsPc'[r] = "count"
    BY <1>1, <1>2 DEF FsShapes
  <1>5. \A q \in FsRequests \ {r} : RequestKnows(q)'
    BY <1>1, <1>2, <1>3, <1>4, FoldersSame, OthersKnow
  <1>6. RequestKnows(r)'
    <2>1. RequestKnows(r)
      BY DEF FsInv
    <2>2. QED
      BY <1>1, <1>4, <2>1 DEF RequestKnows, Segment
  <1>7. \A v \in FsVideos : RowsKnown(v)'
    BY <1>1, <1>2, <1>3, FoldersSame, RowsStay
  <1>8. /\ \A v \in FsVideos : OwnFrames(v)'
        /\ fsFailed' = 0 => \A v \in FsVideos : FolderWhole(v)'
    BY <1>1, <1>3, FoldersStay
  <1>9. ASSUME NEW q \in fsAlone' PROVE AloneKnows(q)'
    <2>1. SameVideo(q)' = SameVideo(q)
      BY <1>1 DEF SameVideo
    <2>2. CASE q = r
      <3>1. r \in fsAlone => AloneKnows(r)
        BY DEF FsInv
      <3>2. \A p \in SameVideo(r) : fsPc[p] \in {"new", "done", "failed"}
        BY <1>1, <2>2, <3>1 DEF AloneKnows
      <3>3. \A p \in SameVideo(r) : fsPc'[p] \in {"new", "done", "failed"}
        BY <1>3, <3>2 DEF SameVideo
      <3>4. QED
        BY <1>4, <2>1, <2>2, <3>3 DEF AloneKnows
    <2>3. CASE q # r
      <3>1. q \in fsAlone /\ q \notin others /\ q \in FsRequests /\ AloneKnows(q)
        BY <1>1, <1>2, <2>3 DEF FsInv, FsShapes
      <3>2. CASE q \in SameVideo(r)
        BY <3>1, <3>2 DEF AloneKnows
      <3>3. CASE q \notin SameVideo(r)
        <4>1. SameVideo(q) \subseteq FsRequests \ {r}
          BY <2>3, <3>1, <3>3 DEF SameVideo
        <4>2. \A p \in SameVideo(q) : fsPc'[p] \in {"new", "done", "failed"}
          BY <1>3, <3>1, <4>1 DEF AloneKnows
        <4>3. QED
          BY <1>1, <1>3, <2>1, <2>3, <3>1, <4>2 DEF AloneKnows
      <3>4. QED
        BY <3>2, <3>3
    <2>4. QED
      BY <2>2, <2>3
  <1>10. QED
    BY <1>2, <1>5, <1>6, <1>7, <1>8, <1>9 DEF FsInv

\* The frames in storage are taken; if all of them were seen and nobody else is
\* at work, they are whole.
LEMMA CountFramesKeeps ==
  ASSUME FsInv, NEW r \in FsRequests, CountFrames(r)
  PROVE  FsInv' /\ \A f \in Folders : Len(fsBlobs[f]) <= Len(fsBlobs'[f])
  <1> DEFINE seg == Segment(r)
  <1>1. PICK n \in 0..Len(fsBlobs[seg]) :
        /\ n < Len(fsBlobs[seg]) => fsFailed < FsFailures
        /\ fsFailed' = IF n < Len(fsBlobs[seg]) THEN fsFailed + 1 ELSE fsFailed
        /\ fsPc' = [fsPc EXCEPT ![r] = IF n > 0 THEN AfterFrames(r) ELSE "download"]
        /\ fsAnswer' = [fsAnswer EXCEPT ![r] = SubSeq(fsBlobs[seg], 1, n)]
    BY DEF CountFrames
  <1>2. /\ fsPc[r] = "count"
        /\ UNCHANGED <<fsVideo, fsSource, fsBlobs, fsSample, fsRows, fsIndex, fsAlone>>
    BY DEF CountFrames
  <1>3. FsShapes /\ RequestKnows(r) /\ \A f \in Folders : Len(fsBlobs[f]) <= Len(fsBlobs'[f])
    BY <1>2, FoldersSame DEF FsInv
  <1>4. /\ seg \in Folders /\ Len(fsBlobs[seg]) \in Nat /\ fsBlobs[seg] \in Seq(Samplings)
        /\ fsVideo[r] \in FsVideos /\ (r \notin FsRaw => seg = fsVideo[r])
    BY <1>3, SegmentFacts DEF FsShapes
  <1>5. PICK found \in Seq(Samplings) :
            /\ found = SubSeq(fsBlobs[seg], 1, n) /\ Len(found) = n
            /\ \A i \in 1..n : found[i] = fsBlobs[seg][i]
    <2> HIDE DEF seg
    <2>1. \A i \in 1..n : fsBlobs[seg][i] \in Samplings
      BY <1>1, <1>4, ElementOfSeq
    <2>2. n \in Nat
      BY <1>1
    <2>3. /\ SubSeq(fsBlobs[seg], 1, n) \in Seq(Samplings)
          /\ Len(SubSeq(fsBlobs[seg], 1, n)) = n
      BY <2>1, <2>2, SubSeqProperties
    <2>4. \A i \in 1..n : SubSeq(fsBlobs[seg], 1, n)[i] = fsBlobs[seg][i]
      <3>1. \A i \in 1..n - 1 + 1 : SubSeq(fsBlobs[seg], 1, n)[i] = fsBlobs[seg][1 + i - 1]
        BY <2>1, <2>2, SubSeqProperties
      <3>2. SUFFICES ASSUME NEW i \in 1..n PROVE SubSeq(fsBlobs[seg], 1, n)[i] = fsBlobs[seg][i]
        OBVIOUS
      <3>3. i \in 1..n - 1 + 1 /\ 1 + i - 1 = i
        BY <2>2
      <3>4. QED
        BY <3>1, <3>3
    <2>5. QED
      BY <2>3, <2>4
  <1>6. /\ fsPc' \in [FsRequests -> FsPlaces] /\ fsFailed' \in Nat
        /\ fsAnswer' \in [FsRequests -> Seq(Samplings)]
    BY <1>1, <1>3, <1>5 DEF FsShapes, FsPlaces, AfterFrames
  <1>7. FsShapes'
    BY <1>2, <1>3, <1>6 DEF FsShapes
  <1>8. /\ \A q \in FsRequests \ {r} : fsPc'[q] = fsPc[q] /\ fsAnswer'[q] = fsAnswer[q]
        /\ fsAnswer'[r] = found /\ fsPc'[r] = (IF n > 0 THEN AfterFrames(r) ELSE "download")
    BY <1>1, <1>3, <1>5 DEF FsShapes
  <1>9. fsFailed <= fsFailed' /\ (fsFailed' = 0 => fsFailed = 0 /\ n = Len(fsBlobs[seg]))
    BY <1>1, <1>3, <1>4 DEF FsShapes
  <1>10. RequestKnows(r)'
    <2>1. Segment(r)' = seg /\ n <= Len(fsBlobs[seg])
      BY <1>1, <1>2 DEF Segment
    <2>2. r \notin FsRaw => \A i \in 1..n : Began(fsVideo[r], found[i].video)
      BY <1>1, <1>4, <1>5 DEF FsInv, OwnFrames
    <2>3. r \notin FsRaw => \A i \in 1..n : Began(fsVideo[r], fsAnswer[r][i].video)'
      BY <1>2, <1>8, <2>2 DEF Began, AfterFrames
    <2>4. QED
      BY <1>2, <1>5, <1>8, <2>1, <2>3 DEF RequestKnows, AfterFrames
  <1>11. r \in fsAlone => AloneKnows(r)'
    <2>1. SUFFICES ASSUME r \in fsAlone PROVE AloneKnows(r)'
      OBVIOUS
    <2>2. AloneKnows(r) /\ SameVideo(r)' = SameVideo(r)
      BY <1>2, <2>1 DEF FsInv, SameVideo
    <2>3. ASSUME fsFailed' = 0, r \notin FsRaw, n > 0
          PROVE  IsWhole(found)
      <3>1. FolderWhole(fsVideo[r]) /\ seg = fsVideo[r] /\ n = Len(fsBlobs[seg])
        BY <1>4, <1>9, <2>3 DEF FsInv
      <3>2. ASSUME NEW q \in FsRequests \ FsRaw, fsPc[q] = "upload", fsVideo[q] = fsVideo[r]
            PROVE  FALSE
        BY <1>2, <2>2, <3>2 DEF AloneKnows, SameVideo
      <3>3. IsWhole(fsBlobs[seg])
        BY <2>3, <3>1, <3>2 DEF FolderWhole
      <3>4. Len(found) = n /\ found[n] = fsBlobs[seg][n]
        BY <1>5, <2>3
      <3>5. QED
        BY <3>1, <3>3, <3>4 DEF IsWhole
    <2>4. \A q \in SameVideo(r) : fsPc'[q] \in {"new", "done", "failed"}
      BY <1>8, <2>2 DEF AloneKnows, SameVideo
    <2>5. fsPc'[r] \in {"index", "rows", "download"} /\ (fsPc'[r] # "download" => n > 0)
      BY <1>8 DEF AfterFrames
    <2>6. QED
      BY <1>5, <1>8, <2>2, <2>3, <2>4, <2>5 DEF AloneKnows, IsWhole, FramesIn
  <1>12. \A q \in fsAlone' \ {r} : AloneKnows(q)'
    BY <1>2, <1>6, <1>8, <1>9, OthersAlone
  <1>17. fsPc'[r] # "new" /\ \A q \in FsRequests : fsPc[q] # "new" => fsPc'[q] # "new"
    BY <1>8 DEF AfterFrames
  <1>13. \A q \in FsRequests \ {r} : RequestKnows(q)'
    BY <1>2, <1>3, <1>7, <1>8, <1>17, OthersKnow
  <1>14. \A v \in FsVideos : RowsKnown(v)'
    BY <1>2, <1>3, <1>7, <1>8, RowsStay
  <1>15. /\ \A v \in FsVideos : OwnFrames(v)'
         /\ fsFailed' = 0 => \A v \in FsVideos : FolderWhole(v)'
    BY <1>2, <1>8, <1>9, <1>17, FoldersStay
  <1>16. QED
    BY <1>2, <1>3, <1>7, <1>10, <1>11, <1>12, <1>13, <1>14, <1>15 DEF FsInv

\* A sampling is begun with nothing put yet.
LEMMA SampleKeeps ==
  ASSUME FsInv, NEW r \in FsRequests, Sample(r)
  PROVE  FsInv' /\ \A f \in Folders : Len(fsBlobs[f]) <= Len(fsBlobs'[f])
  <1>1. /\ fsPc[r] = "download" /\ fsPc' = [fsPc EXCEPT ![r] = "upload"]
        /\ \E s \in FsStrides \cup {0} :
            fsSample' = [fsSample EXCEPT ![r] = [video |-> fsSource[r], stride |-> s]]
        /\ UNCHANGED <<fsVideo, fsSource, fsBlobs, fsAnswer, fsRows, fsIndex, fsFailed, fsAlone>>
    BY DEF Sample, Moves
  <1>2. FsShapes /\ RequestKnows(r) /\ \A f \in Folders : Len(fsBlobs[f]) <= Len(fsBlobs'[f])
    BY <1>1, FoldersSame DEF FsInv
  <1>3. PICK s \in Samplings : s.video = fsSource[r] /\ fsSample' = [fsSample EXCEPT ![r] = s]
    BY <1>1, <1>2 DEF FsShapes, Samplings
  <1>4. FsShapes'
    BY <1>1, <1>2, <1>3 DEF FsShapes, FsPlaces
  <1>5. /\ \A q \in FsRequests \ {r} : fsPc'[q] = fsPc[q] /\ fsSample'[q] = fsSample[q]
        /\ fsPc'[r] = "upload" /\ fsSample'[r] = s
    BY <1>1, <1>2, <1>3 DEF FsShapes
  <1>6. RequestKnows(r)'
    <2>1. FramesIn(s) \in Nat \ {0} /\ FramesIn(s)' = FramesIn(s)
      BY SomeFrames DEF FramesIn
    <2>2. 0 < FramesIn(s)
      BY <2>1
    <2>3. Len(fsAnswer[r]) = 0
      BY <1>1, <1>2 DEF RequestKnows
    <2>4. Len(fsAnswer[r]) < FramesIn(s)
      BY <2>2, <2>3
    <2>5. QED
      BY <1>1, <1>2, <1>3, <1>5, <2>4 DEF RequestKnows, Segment
  <1>7. r \in fsAlone => AloneKnows(r)'
    <2>1. SUFFICES ASSUME r \in fsAlone PROVE AloneKnows(r)'
      OBVIOUS
    <2>2. AloneKnows(r) /\ SameVideo(r)' = SameVideo(r)
      BY <1>1, <2>1 DEF FsInv, SameVideo
    <2>3. \A q \in SameVideo(r) : fsPc'[q] \in {"new", "done", "failed"}
      BY <1>5, <2>2 DEF AloneKnows, SameVideo
    <2>4. QED
      BY <1>5, <2>2, <2>3 DEF AloneKnows
  <1>8. \A q \in fsAlone' \ {r} : AloneKnows(q)'
    <2>1. fsFailed' \in Nat /\ fsFailed <= fsFailed'
      BY <1>1, <1>2 DEF FsShapes
    <2>2. QED
      BY <1>1, <1>5, <2>1, OthersAlone
  <1>9. \A q \in FsRequests \ {r} : RequestKnows(q)'
    BY <1>1, <1>2, <1>4, <1>5, OthersKnow
  <1>10. \A v \in FsVideos : RowsKnown(v)'
    BY <1>1, <1>2, <1>4, <1>5, RowsStay
  <1>11. /\ \A v \in FsVideos : OwnFrames(v)'
         /\ fsFailed' = 0 => \A v \in FsVideos : FolderWhole(v)'
    BY <1>1, <1>5, FoldersStay
  <1>12. QED
    BY <1>1, <1>2, <1>4, <1>6, <1>7, <1>8, <1>9, <1>10, <1>11 DEF FsInv

\* A frame is put at the end of the folder or over one of its number.
LEMMA UploadFrameKeeps ==
  ASSUME FsInv, NEW r \in FsRequests, UploadFrame(r)
  PROVE  FsInv' /\ \A f \in Folders : Len(fsBlobs[f]) <= Len(fsBlobs'[f])
  <1> DEFINE seg == Segment(r)
             n == Len(fsAnswer[r]) + 1
             blobs == fsBlobs[seg]
  <1>1. FsShapes /\ RequestKnows(r)
    BY DEF FsInv
  <1>0. PICK s \in Samplings : s = fsSample[r] /\ s.video = fsSource[r]
    BY <1>1 DEF UploadFrame, RequestKnows
  <1>2. /\ fsPc[r] = "upload" /\ n <= FramesIn(s)
        /\ fsAnswer' = [fsAnswer EXCEPT ![r] = Append(@, s)]
        /\ UNCHANGED <<fsVideo, fsSource, fsRows, fsIndex, fsFailed, fsAlone>>
        /\ IF n = FramesIn(s)
           THEN /\ fsPc' = [fsPc EXCEPT ![r] = AfterFrames(r)]
                /\ fsSample' = [fsSample EXCEPT ![r] = NoJob]
           ELSE UNCHANGED <<fsPc, fsSample>>
    BY <1>0 DEF UploadFrame
  <1>3. s \in Samplings /\ s.video = fsSource[r] /\ FramesIn(s) \in Nat \ {0}
    BY <1>0, SomeFrames
  <1>4. /\ seg \in Folders /\ Len(blobs) \in Nat /\ blobs \in Seq(Samplings)
        /\ fsVideo[r] \in FsVideos /\ (r \notin FsRaw => seg = fsVideo[r])
        /\ (r \in FsRaw => seg \notin FsVideos)
        /\ fsAnswer[r] \in Seq(Samplings) /\ Len(fsAnswer[r]) \in Nat
    BY <1>1, SegmentFacts DEF FsShapes
  <1>5. n \in Nat \ {0} /\ n - 1 = Len(fsAnswer[r]) /\ n - 1 <= Len(blobs)
    BY <1>1, <1>4 DEF RequestKnows
  <1>6. PICK new \in Seq(Samplings) :
            /\ fsBlobs' = [fsBlobs EXCEPT ![seg] = new]
            /\ n <= Len(blobs) => Len(new) = Len(blobs)
            /\ ~(n <= Len(blobs)) => Len(new) = n /\ n = Len(blobs) + 1
            /\ new[n] = s
            /\ \A i \in 1..Len(new) : i = n \/ (i \in 1..Len(blobs) /\ new[i] = blobs[i])
    <2>1. CASE n <= Len(blobs)
      <3>1. fsBlobs' = [fsBlobs EXCEPT ![seg] = [blobs EXCEPT ![n] = s]]
        BY <1>0, <2>1 DEF UploadFrame
      <3>2. n \in 1..Len(blobs)
        BY <1>4, <1>5, <2>1
      <3> HIDE DEF blobs, n
      <3>3. /\ [blobs EXCEPT ![n] = s] \in Seq(Samplings)
            /\ Len([blobs EXCEPT ![n] = s]) = Len(blobs)
            /\ \A i \in 1..Len(blobs) : [blobs EXCEPT ![n] = s][i] = IF i = n THEN s ELSE blobs[i]
        BY <1>3, <1>4, <3>2, ExceptSeq
      <3>4. QED
        BY <2>1, <3>1, <3>2, <3>3
    <2>2. CASE ~(n <= Len(blobs))
      <3>1. fsBlobs' = [fsBlobs EXCEPT ![seg] = Append(blobs, s)]
        BY <1>0, <2>2 DEF UploadFrame
      <3>2. n = Len(blobs) + 1
        BY <1>4, <1>5, <2>2
      <3> HIDE DEF blobs, n
      <3>3. /\ Append(blobs, s) \in Seq(Samplings) /\ Len(Append(blobs, s)) = Len(blobs) + 1
            /\ \A i \in 1..Len(blobs) : Append(blobs, s)[i] = blobs[i]
            /\ Append(blobs, s)[Len(blobs) + 1] = s
        BY <1>3, <1>4, AppendProperties
      <3>4. \A i \in 1..Len(blobs) + 1 : i = Len(blobs) + 1 \/ i \in 1..Len(blobs)
        BY <1>4
      <3>5. QED
        BY <2>2, <3>1, <3>2, <3>3, <3>4
    <2>3. QED
      BY <2>1, <2>2
  <1>7. PICK answer \in Seq(Samplings) :
            /\ answer = Append(fsAnswer[r], s) /\ Len(answer) = n
            /\ answer[n] = s
            /\ \A i \in 1..n : answer[i] = s \/ (i \in 1..Len(fsAnswer[r]) /\ answer[i] = fsAnswer[r][i])
    <2>1. /\ Append(fsAnswer[r], s) \in Seq(Samplings)
          /\ Len(Append(fsAnswer[r], s)) = Len(fsAnswer[r]) + 1
          /\ \A i \in 1..Len(fsAnswer[r]) : Append(fsAnswer[r], s)[i] = fsAnswer[r][i]
          /\ Append(fsAnswer[r], s)[Len(fsAnswer[r]) + 1] = s
      BY <1>3, <1>4, AppendProperties
    <2>2. \A i \in 1..n : i = Len(fsAnswer[r]) + 1 \/ i \in 1..Len(fsAnswer[r])
      BY <1>4
    <2>3. \A i \in 1..n : Append(fsAnswer[r], s)[i] = s
              \/ (i \in 1..Len(fsAnswer[r]) /\ Append(fsAnswer[r], s)[i] = fsAnswer[r][i])
      BY <2>1, <2>2
    <2> HIDE DEF n
    <2>4. Len(Append(fsAnswer[r], s)) = n /\ Append(fsAnswer[r], s)[n] = s
      BY <2>1 DEF n
    <2>5. QED
      BY <2>1, <2>3, <2>4
  <1> HIDE DEF blobs, n, seg
  <1>8. fsAnswer' = [fsAnswer EXCEPT ![r] = answer]
    BY <1>2, <1>7
  <1>9. AfterFrames(r) \in {"index", "rows"} /\ (AfterFrames(r) = "index" => r \in FsIngests)
    BY DEF AfterFrames
  <1>10. FsShapes'
    <2>1. fsBlobs' \in [Folders -> Seq(Samplings)] /\ fsAnswer' \in [FsRequests -> Seq(Samplings)]
      BY <1>1, <1>4, <1>6, <1>7, <1>8 DEF FsShapes
    <2>2. fsPc' \in [FsRequests -> FsPlaces] /\ fsSample' \in [FsRequests -> Samplings \cup {NoJob}]
      BY <1>1, <1>2, <1>9 DEF FsShapes, FsPlaces
    <2>3. QED
      BY <1>1, <1>2, <2>1, <2>2 DEF FsShapes
  <1>11. /\ \A q \in FsRequests \ {r} : fsPc'[q] = fsPc[q] /\ fsAnswer'[q] = fsAnswer[q]
                                        /\ fsSample'[q] = fsSample[q]
         /\ fsAnswer'[r] = answer
         /\ \A f \in Folders : f # seg => fsBlobs'[f] = fsBlobs[f]
         /\ fsBlobs'[seg] = new
    BY <1>1, <1>2, <1>4, <1>6, <1>8 DEF FsShapes
  <1>12. /\ n = FramesIn(s) => fsPc'[r] = AfterFrames(r)
         /\ n # FramesIn(s) => fsPc'[r] = "upload" /\ fsSample'[r] = s
    BY <1>0, <1>1, <1>2 DEF FsShapes
  <1>22. fsPc'[r] # "new" /\ \A q \in FsRequests : fsPc[q] # "new" => fsPc'[q] # "new"
    BY <1>9, <1>11, <1>12
  <1>13. /\ Len(blobs) <= Len(new) /\ n <= Len(new) /\ Len(new) \in Nat
         /\ \A f \in Folders : Len(fsBlobs[f]) <= Len(fsBlobs'[f])
    <2>1. Len(blobs) <= Len(new) /\ n <= Len(new) /\ Len(new) \in Nat
      BY <1>4, <1>5, <1>6
    <2>2. \A f \in Folders : Len(fsBlobs[f]) \in Nat
      BY <1>1, LenProperties DEF FsShapes
    <2>3. QED
      BY <1>11, <2>1, <2>2 DEF blobs
  <1>14. RequestKnows(r)'
    <2>1. Segment(r)' = seg /\ FramesIn(s)' = FramesIn(s)
      BY <1>2 DEF Segment, FramesIn, seg
    <2>2. r \notin FsRaw => \A i \in 1..n : Began(fsVideo[r], fsAnswer[r][i].video)'
      <3>1. SUFFICES ASSUME r \notin FsRaw, NEW i \in 1..n
                     PROVE  Began(fsVideo[r], answer[i].video)'
        BY <1>11 DEF Began
      <3>2. Began(fsVideo[r], answer[i].video)
        BY <1>1, <1>2, <1>3, <1>7, <3>1 DEF RequestKnows, Began
      <3>3. QED
        BY <1>2, <1>22, <3>2 DEF Began
    <2>3. n # FramesIn(s) => n < FramesIn(s)
      BY <1>2, <1>3, <1>5 DEF n
    <2>4. fsVideo'[r] = fsVideo[r]
      BY <1>2
    <2>5. CASE n = FramesIn(s)
      BY <1>7, <1>9, <1>11, <1>12, <1>13, <2>1, <2>2, <2>4, <2>5 DEF RequestKnows
    <2>6. CASE n # FramesIn(s)
      <3>1. /\ fsPc'[r] = "upload" /\ fsSample'[r] = s /\ s.video = fsSource'[r]
            /\ Len(fsAnswer'[r]) = n /\ n < FramesIn(s)'
        BY <1>2, <1>3, <1>7, <1>11, <1>12, <2>1, <2>3, <2>6
      <3>2. Len(fsAnswer'[r]) <= Len(fsBlobs'[Segment(r)'])
        BY <1>7, <1>11, <1>13, <2>1
      <3>3. QED
        BY <1>3, <2>2, <3>1, <3>2 DEF RequestKnows, FramesIn
    <2>7. QED
      BY <2>5, <2>6
  <1>15. r \in fsAlone => AloneKnows(r)'
    <2>1. SUFFICES ASSUME r \in fsAlone PROVE AloneKnows(r)'
      OBVIOUS
    <2>2. AloneKnows(r) /\ SameVideo(r)' = SameVideo(r)
      BY <1>2, <2>1 DEF FsInv, SameVideo
    <2>3. \A q \in SameVideo(r) : fsPc'[q] \in {"new", "done", "failed"}
      BY <1>11, <2>2 DEF AloneKnows, SameVideo
    <2>4. fsPc'[r] \in {"index", "rows"} => IsWhole(fsAnswer[r])'
      BY <1>3, <1>5, <1>7, <1>11, <1>12 DEF IsWhole, FramesIn
    <2>5. fsPc'[r] \in {"index", "rows", "upload"}
      BY <1>9, <1>12
    <2>6. QED
      BY <2>2, <2>3, <2>4, <2>5 DEF AloneKnows
  <1>16. \A q \in fsAlone' \ {r} : AloneKnows(q)'
    <2>1. fsFailed' \in Nat /\ fsFailed <= fsFailed' /\ fsAlone' \subseteq fsAlone
      BY <1>1, <1>2 DEF FsShapes
    <2>2. QED
      BY <1>2, <1>11, <2>1, OthersAlone
  <1>17. \A q \in FsRequests \ {r} : RequestKnows(q)'
    BY <1>2, <1>10, <1>11, <1>13, <1>22, OthersKnow
  <1>18. \A v \in FsVideos : RowsKnown(v)'
    <2>1. \A q \in FsRequests : fsPc[q] = "done" => fsPc'[q] = "done"
      BY <1>2, <1>11
    <2>2. QED
      BY <1>2, <1>10, <1>13, <2>1, RowsStay
  <1>19. \A v \in FsVideos : OwnFrames(v)'
    <2>1. SUFFICES ASSUME NEW v \in FsVideos PROVE OwnFrames(v)'
      OBVIOUS
    <2>2. OwnFrames(v) /\ v \in Folders
      BY DEF FsInv, Folders
    <2>3. CASE v = seg
      <3>1. v = fsVideo[r]
        BY <1>4, <2>3
      <3>2. r \notin FsRaw /\ fsPc[r] # "new"
        BY <1>2, <1>4, <2>3
      <3>3. Began(v, s.video)
        BY <1>3, <3>1, <3>2 DEF Began
      <3>4. \A i \in 1..Len(new) : Began(v, new[i].video)
        BY <1>6, <2>2, <2>3, <3>3 DEF OwnFrames, blobs
      <3>5. \A i \in 1..Len(new) : Began(v, new[i].video)'
        BY <1>2, <1>22, <3>4 DEF Began
      <3>6. QED
        BY <1>11, <2>3, <3>5 DEF OwnFrames
    <2>4. CASE v # seg
      <3>1. \A i \in 1..Len(fsBlobs[v]) : Began(v, fsBlobs[v][i].video)
        BY <2>2 DEF OwnFrames
      <3>2. fsBlobs'[v] = fsBlobs[v]
        BY <1>11, <2>2, <2>4
      <3>3. QED
        BY <1>2, <1>22, <3>1, <3>2 DEF OwnFrames, Began
    <2>5. QED
      BY <2>3, <2>4
  <1>20. ASSUME fsFailed' = 0, NEW v \in FsVideos PROVE FolderWhole(v)'
    <2>1. FolderWhole(v) /\ v \in Folders
      BY <1>2, <1>20 DEF FsInv, Folders
    <2>2. ASSUME NEW q \in FsRequests \ FsRaw, q # r, Len(fsBlobs'[v]) = Len(fsBlobs[v]),
                 fsPc[q] = "upload" /\ fsVideo[q] = v /\ Len(fsAnswer[q]) = Len(fsBlobs[v])
          PROVE  FolderWhole(v)'
      <3>1. fsPc'[q] = "upload" /\ fsVideo'[q] = v /\ Len(fsAnswer'[q]) = Len(fsBlobs'[v])
        BY <1>2, <1>11, <2>2
      <3>2. QED
        BY <3>1 DEF FolderWhole
    <2>3. CASE v # seg
      <3>1. fsBlobs'[v] = fsBlobs[v]
        BY <1>11, <2>1, <2>3
      <3>2. r \notin FsRaw => fsVideo[r] # v
        BY <1>4, <2>3
      <3>3. Len(fsBlobs[v]) = 0 \/ IsWhole(fsBlobs[v]) => FolderWhole(v)'
        BY <3>1 DEF FolderWhole, IsWhole, FramesIn
      <3>4. QED
        BY <2>1, <2>2, <3>1, <3>2, <3>3 DEF FolderWhole
    <2>4. CASE v = seg /\ n = Len(new)
      <3>1. Len(fsBlobs'[v]) = n /\ fsBlobs'[v][n] = s
        BY <1>6, <1>11, <2>4
      <3>2. CASE n = FramesIn(s)
        <4>1. IsWhole(fsBlobs[v])'
          BY <1>5, <3>1, <3>2 DEF IsWhole, FramesIn
        <4>2. QED
          BY <4>1 DEF FolderWhole
      <3>3. CASE n # FramesIn(s)
        <4>1. r \notin FsRaw /\ fsVideo'[r] = v
          BY <1>2, <1>4, <2>4
        <4>2. fsPc'[r] = "upload" /\ Len(fsAnswer'[r]) = Len(fsBlobs'[v])
          BY <1>7, <1>11, <1>12, <3>1, <3>3
        <4>3. QED
          BY <4>1, <4>2 DEF FolderWhole
      <3>4. QED
        BY <3>2, <3>3
    <2>5. CASE v = seg /\ n # Len(new)
      <3>1. Len(new) = Len(blobs) /\ Len(blobs) \in Nat \ {0} /\ n < Len(blobs)
        BY <1>4, <1>5, <1>6, <2>5
      <3>2. /\ fsBlobs'[v] = new /\ fsBlobs[v] = blobs
            /\ new[Len(blobs)] = blobs[Len(blobs)]
        BY <1>6, <1>11, <2>5, <3>1 DEF blobs
      <3>3. Len(fsAnswer[r]) # Len(fsBlobs[v])
        BY <1>5, <3>1, <3>2
      <3>4. IsWhole(fsBlobs[v]) => FolderWhole(v)'
        BY <3>1, <3>2 DEF FolderWhole, IsWhole, FramesIn
      <3>5. Len(fsBlobs[v]) # 0 /\ Len(fsBlobs'[v]) = Len(fsBlobs[v])
        BY <3>1, <3>2
      <3>6. QED
        BY <2>1, <2>2, <3>3, <3>4, <3>5 DEF FolderWhole
    <2>6. QED
      BY <2>3, <2>4, <2>5
  <1>21. QED
    BY <1>2, <1>10, <1>13, <1>14, <1>15, <1>16, <1>17, <1>18, <1>19, <1>20 DEF FsInv

\* What a failure leaves is not asked about any more.
LEMMA StorageFailsKeeps ==
  ASSUME FsInv, NEW r \in FsRequests, StorageFails(r)
  PROVE  FsInv' /\ \A f \in Folders : Len(fsBlobs[f]) <= Len(fsBlobs'[f])
  <1>1. /\ fsPc[r] \in {"download", "upload"} /\ fsPc' = [fsPc EXCEPT ![r] = "failed"]
        /\ fsFailed' = fsFailed + 1 /\ fsSample' = [fsSample EXCEPT ![r] = NoJob]
        /\ UNCHANGED <<fsVideo, fsSource, fsBlobs, fsAnswer, fsRows, fsIndex, fsAlone>>
    BY DEF StorageFails
  <1>2. FsShapes /\ RequestKnows(r) /\ \A f \in Folders : Len(fsBlobs[f]) <= Len(fsBlobs'[f])
    BY <1>1, FoldersSame DEF FsInv
  <1>3. fsFailed' \in Nat /\ fsFailed <= fsFailed' /\ fsFailed' # 0
    BY <1>1, <1>2 DEF FsShapes
  <1>4. fsPc' \in [FsRequests -> FsPlaces] /\ fsSample' \in [FsRequests -> Samplings \cup {NoJob}]
    BY <1>1, <1>2 DEF FsShapes, FsPlaces
  <1>5. FsShapes'
    BY <1>1, <1>2, <1>3, <1>4 DEF FsShapes
  <1>6. /\ \A q \in FsRequests \ {r} : fsPc'[q] = fsPc[q] /\ fsSample'[q] = fsSample[q]
        /\ fsPc'[r] = "failed"
    BY <1>1, <1>2 DEF FsShapes
  <1>7. RequestKnows(r)'
    <2>1. r \notin FsRaw =>
            \A n \in 1..Len(fsAnswer'[r]) : Began(fsVideo[r], fsAnswer[r][n].video)'
      BY <1>1, <1>2, <1>6 DEF RequestKnows, Began
    <2>2. QED
      BY <1>1, <1>2, <1>6, <2>1 DEF RequestKnows, Segment
  <1>8. r \in fsAlone => AloneKnows(r)'
    <2>1. SUFFICES ASSUME r \in fsAlone PROVE AloneKnows(r)'
      OBVIOUS
    <2>2. AloneKnows(r) /\ SameVideo(r)' = SameVideo(r)
      BY <1>1, <2>1 DEF FsInv, SameVideo
    <2>3. \A q \in SameVideo(r) : fsPc'[q] \in {"new", "done", "failed"}
      BY <1>6, <2>2 DEF AloneKnows, SameVideo
    <2>4. QED
      BY <1>6, <2>2, <2>3 DEF AloneKnows
  <1>9. \A q \in fsAlone' \ {r} : AloneKnows(q)'
    BY <1>1, <1>3, <1>6, OthersAlone
  <1>10. \A q \in FsRequests \ {r} : RequestKnows(q)'
    BY <1>1, <1>2, <1>5, <1>6, OthersKnow
  <1>11. \A v \in FsVideos : RowsKnown(v)'
    BY <1>1, <1>2, <1>5, <1>6, RowsStay
  <1>12. \A v \in FsVideos : OwnFrames(v)'
    BY <1>1, <1>6 DEF FsInv, OwnFrames, Began
  <1>13. QED
    BY <1>1, <1>2, <1>3, <1>5, <1>7, <1>8, <1>9, <1>10, <1>11, <1>12 DEF FsInv

\* The steps after the frames are there: only the request's place, the rows of
\* its video and its solitude change.
LEMMA AfterFramesKeeps ==
  ASSUME FsInv, NEW r \in FsRequests, NEW to \in {"deleted", "done"},
         fsPc[r] \in {"index", "rows", "deleted"}, to = "deleted" => r \notin FsRaw, fsPc' = [fsPc EXCEPT ![r] = to],
         UNCHANGED <<fsVideo, fsSource, fsBlobs, fsSample, fsAnswer>>,
         fsRows' \in [FsVideos -> Seq(FsRequests)],
         \A v \in FsVideos : v # fsVideo[r] => fsRows'[v] = fsRows[v],
         fsAlone' \subseteq fsAlone, fsFailed' \in Nat, fsFailed <= fsFailed',
         \A v \in FsVideos : RowsKnown(v)',
         r \in fsAlone' /\ to = "deleted" => Len(fsRows'[fsVideo[r]]) = 0,
         r \in fsAlone' /\ to = "done" /\ r \notin FsRaw \cup FsIngests =>
            Len(fsRows'[fsVideo[r]]) = Len(fsAnswer[r])
  PROVE  FsInv' /\ \A f \in Folders : Len(fsBlobs[f]) <= Len(fsBlobs'[f])
  <1>1. FsShapes /\ RequestKnows(r) /\ \A f \in Folders : Len(fsBlobs[f]) <= Len(fsBlobs'[f])
    BY FoldersSame DEF FsInv
  <1>2. FsShapes'
    BY <1>1 DEF FsShapes, FsPlaces
  <1>3. (\A q \in FsRequests \ {r} : fsPc'[q] = fsPc[q]) /\ fsPc'[r] = to
    BY <1>1 DEF FsShapes
  <1>4. fsFailed' = 0 => fsFailed = 0
    BY <1>1 DEF FsShapes
  <1>5. RequestKnows(r)'
    <2>1. r \notin FsRaw =>
            \A n \in 1..Len(fsAnswer'[r]) : Began(fsVideo[r], fsAnswer[r][n].video)'
      BY <1>1, <1>3 DEF RequestKnows, Began
    <2>2. QED
      BY <1>1, <1>3, <2>1 DEF RequestKnows, Segment
  <1>6. r \in fsAlone' => AloneKnows(r)'
    <2>1. SUFFICES ASSUME r \in fsAlone' PROVE AloneKnows(r)'
      OBVIOUS
    <2>2. AloneKnows(r) /\ SameVideo(r)' = SameVideo(r)
      BY <2>1 DEF FsInv, SameVideo
    <2>3. \A q \in SameVideo(r) : fsPc'[q] \in {"new", "done", "failed"}
      BY <1>3, <2>2 DEF AloneKnows, SameVideo
    <2>4. fsFailed' = 0 /\ r \notin FsRaw =>
            IsWhole(fsAnswer[r])'
      BY <1>4, <2>2 DEF AloneKnows, IsWhole, FramesIn
    <2>5. QED
      BY <1>3, <2>1, <2>2, <2>3, <2>4 DEF AloneKnows
  <1>7. \A q \in fsAlone' \ {r} : AloneKnows(q)'
    BY <1>3, OthersAlone
  <1>8. \A q \in FsRequests \ {r} : RequestKnows(q)'
    BY <1>1, <1>2, <1>3, OthersKnow
  <1>9. /\ \A v \in FsVideos : OwnFrames(v)'
        /\ fsFailed' = 0 => \A v \in FsVideos : FolderWhole(v)'
    BY <1>3, <1>4, FoldersStay
  <1>10. QED
    BY <1>1, <1>2, <1>5, <1>6, <1>7, <1>8, <1>9 DEF FsInv

LEMMA SyncDeleteKeeps ==
  ASSUME FsInv, NEW r \in FsRequests, SyncDelete(r)
  PROVE  FsInv' /\ \A f \in Folders : Len(fsBlobs[f]) <= Len(fsBlobs'[f])
  <1>1. /\ fsPc[r] = "rows" /\ r \notin FsRaw
        /\ UNCHANGED <<fsVideo, fsSource, fsBlobs, fsSample, fsAnswer, fsFailed, fsAlone>>
    BY DEF SyncDelete
  <1>2. FsShapes /\ fsFailed' \in Nat /\ fsFailed <= fsFailed' /\ fsVideo[r] \in FsVideos
        /\ \A f \in Folders : Len(fsBlobs[f]) <= Len(fsBlobs'[f])
    BY <1>1, FoldersSame DEF FsInv, FsShapes
  <1>3. CASE Len(fsRows[fsVideo[r]]) = Len(fsAnswer[r])
    <2>1. fsPc' = [fsPc EXCEPT ![r] = "done"] /\ fsRows' = fsRows
      BY <1>3 DEF SyncDelete
    <2>2. FsShapes'
      BY <1>1, <1>2, <2>1 DEF FsShapes, FsPlaces
    <2>3. \A q \in FsRequests : fsPc[q] = "done" => fsPc'[q] = "done"
      BY <1>2, <2>1 DEF FsShapes
    <2>4. \A v \in FsVideos : RowsKnown(v)'
      BY <1>1, <1>2, <2>1, <2>2, <2>3, RowsStay
    <2>5. fsRows' \in [FsVideos -> Seq(FsRequests)]
      BY <2>2 DEF FsShapes
    <2>6. QED
      BY <1>1, <1>2, <1>3, <2>1, <2>4, <2>5, AfterFramesKeeps
  <1>4. CASE Len(fsRows[fsVideo[r]]) # Len(fsAnswer[r])
    <2>1. fsPc' = [fsPc EXCEPT ![r] = "deleted"] /\ fsRows' = [fsRows EXCEPT ![fsVideo[r]] = <<>>]
      BY <1>4 DEF SyncDelete
    <2>2. fsRows' \in [FsVideos -> Seq(FsRequests)] /\ fsRows'[fsVideo[r]] = <<>>
      BY <1>2, <2>1 DEF FsShapes
    <2>3. \A q \in FsRequests : fsPc[q] = "done" => fsPc'[q] = "done"
      BY <1>1, <1>2, <2>1 DEF FsShapes
    <2>4. ASSUME NEW v \in FsVideos PROVE RowsKnown(v)'
      <3>1. RowsKnown(v)
        BY DEF FsInv
      <3>2. CASE v = fsVideo[r]
        <4>1. fsBlobs'[v] \in Seq(Samplings)
          BY <1>1, <1>2 DEF FsShapes, Folders
        <4>2. Len(fsBlobs'[v]) \in Nat
          BY <4>1, LenProperties
        <4>3. Len(fsRows'[v]) = 0
          BY <2>2, <3>2
        <4>4. 0 <= Len(fsBlobs'[v])
          BY <4>2
        <4>5. QED
          BY <4>3, <4>4 DEF RowsKnown
      <3>3. CASE v # fsVideo[r]
        <4>1. fsRows'[v] = fsRows[v] /\ fsRows[v] \in Seq(FsRequests)
          BY <1>2, <2>1, <3>3 DEF FsShapes
        <4>2. \A i \in 1..Len(fsRows[v]) : fsRows[v][i] \in FsRequests
          BY <4>1, ElementOfSeq
        <4>3. QED
          BY <1>1, <2>3, <3>1, <4>1, <4>2 DEF RowsKnown
      <3>4. QED
        BY <3>2, <3>3
    <2>5. \A v \in FsVideos : v # fsVideo[r] => fsRows'[v] = fsRows[v]
      BY <1>2, <2>1 DEF FsShapes
    <2>6. Len(fsRows'[fsVideo[r]]) = 0
      BY <2>2
    <2>7. QED
      BY <1>1, <1>2, <2>1, <2>2, <2>4, <2>5, <2>6, AfterFramesKeeps
  <1>5. QED
    BY <1>3, <1>4

\* The rows of one request alone are as many as its frames.
LEMMA SyncCreateKeeps ==
  ASSUME FsInv, NEW r \in FsRequests, SyncCreate(r)
  PROVE  FsInv' /\ \A f \in Folders : Len(fsBlobs[f]) <= Len(fsBlobs'[f])
  <1>0. PICK v \in FsVideos : v = fsVideo[r]
    BY DEF FsInv, FsShapes
  <1> DEFINE new == [n \in DOMAIN fsAnswer[r] |-> r]
  <1>1. /\ fsPc[r] = "deleted" /\ fsPc' = [fsPc EXCEPT ![r] = "done"]
        /\ fsRows' = [fsRows EXCEPT ![v] = @ \o new]
        /\ UNCHANGED <<fsVideo, fsSource, fsBlobs, fsSample, fsAnswer, fsIndex, fsFailed, fsAlone>>
    BY <1>0 DEF SyncCreate, Moves
  <1>2. FsShapes /\ fsFailed' \in Nat /\ fsFailed <= fsFailed' /\ v \in FsVideos
        /\ \A f \in Folders : Len(fsBlobs[f]) <= Len(fsBlobs'[f])
    BY <1>1, FoldersSame DEF FsInv, FsShapes
  <1>3. PICK m \in Nat : m = Len(fsAnswer[r]) /\ DOMAIN fsAnswer[r] = 1..m
    BY <1>2, LenProperties DEF FsShapes
  <1>4. new \in Seq(FsRequests) /\ Len(new) = m /\ \A i \in 1..m : new[i] = r
    BY <1>3
  <1>5. PICK rows \in Seq(FsRequests) :
            /\ rows = fsRows[v] \o new /\ Len(rows) = Len(fsRows[v]) + m
            /\ \A i \in 1..Len(rows) : rows[i] =
                IF i <= Len(fsRows[v]) THEN fsRows[v][i] ELSE new[i - Len(fsRows[v])]
    <2>1. fsRows[v] \in Seq(FsRequests)
      BY <1>2 DEF FsShapes
    <2> HIDE DEF new
    <2>2. /\ fsRows[v] \o new \in Seq(FsRequests)
          /\ Len(fsRows[v] \o new) = Len(fsRows[v]) + Len(new)
          /\ \A i \in 1..Len(fsRows[v]) + Len(new) : (fsRows[v] \o new)[i] =
                IF i <= Len(fsRows[v]) THEN fsRows[v][i] ELSE new[i - Len(fsRows[v])]
      BY <2>1, <1>4, ConcatProperties
    <2>3. QED
      BY <1>4, <2>2
  <1>6. fsRows' = [fsRows EXCEPT ![v] = rows] /\ fsRows' \in [FsVideos -> Seq(FsRequests)]
        /\ fsRows'[v] = rows
    BY <1>1, <1>2, <1>5 DEF FsShapes
  <1>7. PICK old \in Nat : /\ old = Len(fsRows[v])
                           /\ \A i \in 1..old : fsRows[v][i] \in FsRequests
    BY <1>2, LenProperties, ElementOfSeq DEF FsShapes
  <1>8. \A i \in 1..Len(rows) : /\ i <= old => i \in 1..old /\ rows[i] = fsRows[v][i]
                                /\ ~(i <= old) => rows[i] = r
    <2>1. SUFFICES ASSUME NEW i \in 1..Len(rows)
                   PROVE  /\ i <= old => i \in 1..old /\ rows[i] = fsRows[v][i]
                          /\ ~(i <= old) => rows[i] = r
      OBVIOUS
    <2>2. Len(rows) = old + m /\ rows[i] = IF i <= old THEN fsRows[v][i] ELSE new[i - old]
      BY <1>5, <1>7
    <2>3. CASE i <= old
      BY <2>2, <2>3
    <2>4. CASE ~(i <= old)
      <3>1. i - old \in 1..m
        BY <2>2, <2>4
      <3>2. QED
        BY <1>4, <2>2, <2>4, <3>1
    <2>5. QED
      BY <2>3, <2>4
  <1> HIDE DEF new
  <1>9. /\ \A q \in FsRequests : fsPc[q] = "done" => fsPc'[q] = "done"
        /\ fsPc'[r] = "done"
    BY <1>1, <1>2 DEF FsShapes
  <1>10. /\ r \notin FsRaw /\ m <= Len(fsBlobs[v]) /\ Len(fsBlobs[v]) \in Nat
         /\ fsBlobs'[v] = fsBlobs[v]
    <2>1. RequestKnows(r) /\ (r \notin FsRaw => Segment(r) = fsVideo[r])
      BY <1>2, SegmentFacts DEF FsInv
    <2>2. r \notin FsRaw /\ m <= Len(fsBlobs[v])
      BY <1>0, <1>1, <1>3, <2>1 DEF RequestKnows
    <2>3. fsBlobs[v] \in Seq(Samplings)
      BY <1>2 DEF FsShapes, Folders
    <2>4. QED
      BY <1>1, <2>2, <2>3, LenProperties
  <1>11. RowsKnown(v)'
    <2>1. RowsKnown(v)
      BY <1>2 DEF FsInv
    <2>2. \A i \in 1..Len(rows) :
            rows[i] \notin FsRaw /\ fsVideo[rows[i]] = v /\ fsPc'[rows[i]] = "done"
      <3>1. SUFFICES ASSUME NEW i \in 1..Len(rows)
                     PROVE  rows[i] \notin FsRaw /\ fsVideo[rows[i]] = v /\ fsPc'[rows[i]] = "done"
        OBVIOUS
      <3>2. CASE i <= old
        BY <1>7, <1>8, <1>9, <2>1, <3>2 DEF RowsKnown
      <3>3. CASE ~(i <= old)
        BY <1>0, <1>8, <1>9, <1>10, <3>3
      <3>4. QED
        BY <3>2, <3>3
    <2>3. ASSUME \A i, j \in 1..Len(rows) : rows[i] = rows[j]
          PROVE  Len(rows) <= Len(fsBlobs[v])
      <3>1. Len(rows) = old + m
        BY <1>5, <1>7
      <3>2. CASE old = 0
        BY <1>10, <3>1, <3>2
      <3>3. CASE m = 0
        <4>1. Len(rows) = old
          BY <3>1, <3>3
        <4>2. \A i, j \in 1..old : fsRows[v][i] = fsRows[v][j]
          BY <1>8, <2>3, <4>1
        <4>3. QED
          BY <1>7, <2>1, <4>1, <4>2 DEF RowsKnown
      <3>4. CASE old # 0 /\ m # 0
        <4>1. 1 \in 1..Len(rows) /\ Len(rows) \in 1..Len(rows) /\ 1 <= old /\ ~(Len(rows) <= old)
          BY <3>1, <3>4
        <4>2. rows[1] = fsRows[v][1] /\ rows[Len(rows)] = r /\ 1 \in 1..old
          BY <1>8, <4>1
        <4>3. fsPc[fsRows[v][1]] = "done"
          BY <1>7, <2>1, <4>2 DEF RowsKnown
        <4>4. QED
          BY <1>1, <2>3, <4>1, <4>2, <4>3
      <3>5. QED
        BY <3>2, <3>3, <3>4
    <2>4. QED
      BY <1>1, <1>6, <1>10, <2>2, <2>3 DEF RowsKnown
  <1>12. \A w \in FsVideos : RowsKnown(w)'
    <2>1. ASSUME NEW w \in FsVideos, w # v PROVE RowsKnown(w)'
      <3>1. fsRows'[w] = fsRows[w] /\ fsRows[w] \in Seq(FsRequests)
        BY <1>2, <1>6, <2>1 DEF FsShapes
      <3>2. \A i \in 1..Len(fsRows[w]) : fsRows[w][i] \in FsRequests
        BY <3>1, ElementOfSeq
      <3>3. PICK held : held = fsRows[w] /\ fsRows'[w] = held
        BY <3>1
      <3>4. fsBlobs'[w] = fsBlobs[w] /\ fsVideo' = fsVideo
        BY <1>1
      <3>5. /\ \A i \in 1..Len(held) :
                  held[i] \notin FsRaw /\ fsVideo[held[i]] = w /\ fsPc[held[i]] = "done"
            /\ (\A i, j \in 1..Len(held) : held[i] = held[j]) =>
                  Len(held) <= Len(fsBlobs[w])
        <4>1. RowsKnown(w)
          BY DEF FsInv
        <4>2. QED
          BY <3>3, <4>1, Zenon DEF RowsKnown
      <3>6. \A i \in 1..Len(held) :
              held[i] \notin FsRaw /\ fsVideo'[held[i]] = w /\ fsPc'[held[i]] = "done"
        BY <1>9, <3>2, <3>3, <3>4, <3>5, Zenon
      <3>7. QED
        BY <3>3, <3>4, <3>5, <3>6, Zenon DEF RowsKnown
    <2>2. QED
      BY <1>11, <2>1
  <1>13. r \in fsAlone => Len(fsRows'[v]) = Len(fsAnswer[r])
    <2>1. ASSUME r \in fsAlone PROVE Len(fsRows'[v]) = Len(fsAnswer[r])
      <3>1. Len(fsRows[v]) = 0
        BY <1>0, <1>1, <2>1 DEF FsInv, AloneKnows
      <3>2. QED
        BY <1>3, <1>5, <1>6, <3>1
    <2>2. QED
      BY <2>1
  <1>14. \A w \in FsVideos : w # v => fsRows'[w] = fsRows[w]
    BY <1>2, <1>6 DEF FsShapes
  <1>15. QED
    BY <1>1, <1>2, <1>6, <1>12, <1>13, <1>14, <1>0, AfterFramesKeeps

\* A step after the frames that writes no rows, and is through.
LEMMA OtherEndsKeep ==
  ASSUME FsInv, NEW r \in FsRequests, SyncFails(r) \/ SyncNothing(r) \/ IndexFrames(r)
  PROVE  FsInv' /\ \A f \in Folders : Len(fsBlobs[f]) <= Len(fsBlobs'[f])
  <1>1. /\ fsPc[r] \in {"index", "rows", "deleted"} /\ fsPc' = [fsPc EXCEPT ![r] = "done"]
        /\ UNCHANGED <<fsVideo, fsSource, fsBlobs, fsSample, fsAnswer, fsRows>>
        /\ fsFailed' = fsFailed \/ fsFailed' = fsFailed + 1
    BY DEF SyncFails, SyncNothing, IndexFrames, Moves
  <1>2. fsAlone' \subseteq fsAlone /\ (r \in fsAlone' => r \in FsRaw \cup FsIngests)
    <2>1. fsPc[r] = "index" => r \in FsIngests
      BY DEF FsInv, RequestKnows
    <2>2. QED
      BY <2>1 DEF SyncFails, SyncNothing, IndexFrames, Moves
  <1>3. FsShapes /\ fsFailed' \in Nat /\ fsFailed <= fsFailed'
        /\ \A f \in Folders : Len(fsBlobs[f]) <= Len(fsBlobs'[f])
    BY <1>1, FoldersSame DEF FsInv, FsShapes
  <1>4. FsShapes' /\ fsRows' \in [FsVideos -> Seq(FsRequests)]
    BY <1>1, <1>2, <1>3 DEF FsShapes, FsPlaces
  <1>5. \A q \in FsRequests : fsPc[q] = "done" => fsPc'[q] = "done"
    BY <1>1, <1>3 DEF FsShapes
  <1>6. \A v \in FsVideos : RowsKnown(v)'
    BY <1>1, <1>3, <1>4, <1>5, RowsStay
  <1>7. QED
    BY <1>1, <1>2, <1>3, <1>4, <1>6, AfterFramesKeeps

LEMMA FsInvStep ==
  FsInv /\ FsNext => FsInv' /\ \A f \in Folders : Len(fsBlobs[f]) <= Len(fsBlobs'[f])
  <1> SUFFICES ASSUME FsInv, NEW r \in FsRequests,
                      \/ BeginRequest(r) \/ CountFrames(r) \/ Sample(r) \/ UploadFrame(r)
                      \/ StorageFails(r) \/ SyncDelete(r) \/ SyncCreate(r) \/ SyncFails(r)
                      \/ SyncNothing(r) \/ IndexFrames(r)
               PROVE  FsInv' /\ \A f \in Folders : Len(fsBlobs[f]) <= Len(fsBlobs'[f])
    BY DEF FsNext
  <1>1. BeginRequest(r) => \A f \in Folders : Len(fsBlobs[f]) <= Len(fsBlobs'[f])
    BY FoldersSame DEF BeginRequest
  <1>2. QED
    BY <1>1, BeginRequestKeeps, CountFramesKeeps, SampleKeeps, UploadFrameKeeps,
       StorageFailsKeeps, SyncDeleteKeeps, SyncCreateKeeps, OtherEndsKeep

LEMMA FsInvStays == FsInv /\ UNCHANGED fsVars => FsInv'
  <1> SUFFICES ASSUME FsInv, UNCHANGED fsVars PROVE FsInv'
    OBVIOUS
  <1>1. UNCHANGED <<fsPc, fsVideo, fsSource, fsBlobs, fsSample, fsAnswer, fsRows, fsFailed, fsAlone>>
    BY DEF fsVars
  <1>2. FsShapes'
    BY <1>1 DEF FsInv, FsShapes
  <1>3. \A r \in FsRequests : RequestKnows(r)'
    BY <1>1 DEF FsInv, RequestKnows, Segment, FramesIn, Began
  <1>4. \A v \in FsVideos : OwnFrames(v)' /\ RowsKnown(v)'
    BY <1>1 DEF FsInv, OwnFrames, RowsKnown, Began
  <1>5. \A r \in fsAlone' : AloneKnows(r)'
    BY <1>1 DEF FsInv, AloneKnows, SameVideo, IsWhole, FramesIn
  <1>6. fsFailed' = 0 => \A v \in FsVideos : FolderWhole(v)'
    BY <1>1 DEF FsInv, FolderWhole, IsWhole, FramesIn
  <1>7. QED
    BY <1>2, <1>3, <1>4, <1>5, <1>6 DEF FsInv

LEMMA FsInvSound == FsInv => FramesHonest
  <1> SUFFICES ASSUME FsInv PROVE FramesHonest
    OBVIOUS
  <1>1. \A r \in FsRequests : DOMAIN fsAnswer[r] = 1..Len(fsAnswer[r])
    BY LenProperties DEF FsInv, FsShapes
  <1>2. FramesOfTheVideo
    BY <1>1 DEF FsInv, RequestKnows, FramesOfTheVideo, Began
  <1>3. WholeUnlessDisturbed
    BY DEF FsInv, AloneKnows, WholeUnlessDisturbed
  <1>4. RowsHeal
    BY DEF FsInv, AloneKnows, RowsHeal
  <1>5. QED
    BY <1>2, <1>3, <1>4 DEF FramesHonest

-----------------------------------------------------------------------------
(***************************************************************************)
(* The tools that hand frames to the agents                                *)
(***************************************************************************)
FrameRefs == [as : Uses, video : FsVideos, frame : Nat]
FtPlaces == {"new", "list", "ask", "resolve", "look", "frames", "query", "object", "again",
             "scene", "compare", "select", "done"}
RunRecords == [pc : FtPlaces, named : FsVideos \cup {"none"}, tool : Tools \cup {"none"},
               video : FsVideos \cup {"none"}]

FtShapes ==
    /\ ftSaved \in Seq(FsVideos)
    /\ ftRun \in [FtRuns -> RunRecords]
    /\ ftList \in [FtRuns -> Seq(FrameRefs)]
    /\ ftShown \in [FtRuns -> SUBSET FrameRefs]
    /\ DOMAIN ftWhole = FtRuns /\ DOMAIN ftAnswer = FtRuns /\ DOMAIN ftCount = FtRuns

\* Where a run is: frames are shown in one step, unless the tool is
\* agentic_retrieval, and nothing is answered before the end.
RunPath(q) ==
    /\ ftRun[q].pc \in {"new", "list"} => Len(ftList[q]) = 0
    /\ ftRun[q].pc = "new" => ftRun[q].video = "none"
    /\ ftRun[q].pc \in {"new", "list", "ask"} => ftShown[q] = {} /\ ftRun[q].tool = "none"
    /\ ftRun[q].pc \in {"resolve", "frames", "object", "scene", "select"} =>
            ftShown[q] = {} \/ ftRun[q].tool = "agentic_retrieval"
    /\ ftRun[q].pc = "again" => ftRun[q].tool = "agentic_retrieval"
    /\ ftRun[q].pc = "frames" => ftRun[q].video # "none"
    /\ ftRun[q].pc = "select" => ftRun[q].tool = "qwen_agent"
    /\ ftRun[q].tool = "qwen_agent" => ftRun[q].pc \in {"select", "done"}
    /\ ftRun[q].pc # "done" => ftAnswer[q] # "text"

\* Whose frames a run has: those it is listed are of one video, and all of the
\* one it is about, if it is about any.
RunVideo(q) ==
    /\ \A i \in 1..Len(ftList[q]) : ftList[q][i].as = "listed"
    /\ \A i, j \in 1..Len(ftList[q]) : ftList[q][i].video = ftList[q][j].video
    /\ ftRun[q].tool # "agentic_retrieval" =>
            \A f, g \in ftShown[q] : f.video = g.video
    /\ ftRun[q].named # "none" =>
        /\ ftRun[q].video \in {ftRun[q].named, "none"}
        /\ \A i \in 1..Len(ftList[q]) : ftList[q][i].video = ftRun[q].named
        /\ \A f \in ftShown[q] : f.video = ftRun[q].named

\* What a run relies on is in storage.
RunFrames(q) ==
    /\ ftWhole[q] => \A i \in 1..Len(ftList[q]) : There(ftList[q][i])
    /\ \A f \in ftShown[q] : f.as = "counted" => There(f)
    /\ ftRun[q].tool = "qwen_agent" /\ ftAnswer[q] = "text" => \A f \in ftShown[q] : There(f)
    /\ ftCount[q] > 0 =>
        \A use \in {"object", "scene"} : \E f \in ftShown[q] : f.as = use /\ There(f)

FtInv ==
    /\ FsInv /\ FtShapes
    /\ \A q \in FtRuns : RunPath(q) /\ RunVideo(q) /\ RunFrames(q)

\* A frame that is in storage stays there.
LEMMA ThereStays ==
  ASSUME FsShapes, FsShapes', \A f \in Folders : Len(fsBlobs[f]) <= Len(fsBlobs'[f])
  PROVE  \A f \in FrameRefs : There(f) => There(f)'
  <1> SUFFICES ASSUME NEW f \in FrameRefs, There(f) PROVE There(f)'
    OBVIOUS
  <1>1. f.video \in Folders /\ f.frame \in Nat
    BY DEF FrameRefs, Folders
  <1>2. PICK n \in Nat, m \in Nat : n = Len(fsBlobs[f.video]) /\ m = Len(fsBlobs'[f.video])
    BY <1>1, LenProperties DEF FsShapes
  <1>3. n <= m /\ f.frame < n
    BY <1>1, <1>2 DEF There
  <1>4. QED
    BY <1>1, <1>2, <1>3 DEF There

\* A run that does not move knows what it knew.
LEMMA RunStays ==
  ASSUME FtInv, NEW q \in FtRuns,
         ftRun'[q] = ftRun[q], ftList'[q] = ftList[q], ftWhole'[q] = ftWhole[q],
         ftShown'[q] = ftShown[q], ftAnswer'[q] = ftAnswer[q], ftCount'[q] = ftCount[q],
         \A f \in FrameRefs : There(f) => There(f)'
  PROVE  RunPath(q)' /\ RunVideo(q)' /\ RunFrames(q)'
  <1>1. RunPath(q) /\ RunVideo(q) /\ RunFrames(q)
    BY DEF FtInv
  <1>2. ftShown[q] \subseteq FrameRefs /\ ftList[q] \in Seq(FrameRefs)
    BY DEF FtInv, FtShapes
  <1>3. \A i \in 1..Len(ftList[q]) : ftList[q][i] \in FrameRefs
    BY <1>2, ElementOfSeq
  <1>4. RunPath(q)' /\ RunVideo(q)'
    <2>1. RunPath(q)'
      BY <1>1 DEF RunPath
    <2>2. RunVideo(q)'
      BY <1>1 DEF RunVideo
    <2>3. QED
      BY <2>1, <2>2
  <1>5. RunFrames(q)'
    <2>1. ftWhole[q] => \A i \in 1..Len(ftList[q]) : There(ftList[q][i])'
      <3>1. ASSUME ftWhole[q], NEW i \in 1..Len(ftList[q]) PROVE There(ftList[q][i])'
        <4>1. PICK f \in FrameRefs : f = ftList[q][i]
          BY <1>3
        <4>2. There(f)'
          BY <1>1, <3>1, <4>1 DEF RunFrames
        <4>3. ftList'[q][i] = f
          BY <4>1
        <4>4. QED
          BY <4>2, <4>3 DEF There
      <3>2. QED
        BY <3>1
    <2>2. \A f \in ftShown[q] : There(f) => There(f)'
      BY <1>2
    <2>3. QED
      BY <1>1, <2>1, <2>2 DEF RunFrames
  <1>6. QED
    BY <1>4, <1>5

\* A step of one run changes that run only.
LEMMA OneRun ==
  ASSUME FtInv, NEW q \in FtRuns, FtShapes', UNCHANGED fsVars,
         \A p \in FtRuns \ {q} :
            /\ ftRun'[p] = ftRun[p] /\ ftList'[p] = ftList[p] /\ ftWhole'[p] = ftWhole[p]
            /\ ftShown'[p] = ftShown[p] /\ ftAnswer'[p] = ftAnswer[p]
            /\ ftCount'[p] = ftCount[p],
         RunPath(q)', RunVideo(q)', RunFrames(q)'
  PROVE  FtInv'
  <1>1. FsInv'
    BY FsInvStays DEF FtInv
  <1>2. \A f \in FrameRefs : There(f) => There(f)'
    BY DEF There, fsVars
  <1>3. \A p \in FtRuns \ {q} : RunPath(p)' /\ RunVideo(p)' /\ RunFrames(p)'
    BY <1>2, RunStays
  <1>4. QED
    BY <1>1, <1>3 DEF FtInv

\* A run's record after a step to another place.
LEMMA RunMoved ==
  ASSUME FtShapes, NEW q \in FtRuns, NEW to \in FtPlaces,
         ftRun' = [ftRun EXCEPT ![q].pc = to]
  PROVE  /\ ftRun' \in [FtRuns -> RunRecords]
         /\ ftRun'[q].pc = to /\ ftRun'[q].named = ftRun[q].named
         /\ ftRun'[q].tool = ftRun[q].tool /\ ftRun'[q].video = ftRun[q].video
         /\ \A p \in FtRuns \ {q} : ftRun'[p] = ftRun[p]
  <1>1. ftRun[q] \in RunRecords
    BY DEF FtShapes
  <1> DEFINE new == [ftRun[q] EXCEPT !.pc = to]
  <1>2. new \in RunRecords
    BY <1>1 DEF RunRecords
  <1>3. /\ new.pc = to /\ new.named = ftRun[q].named /\ new.tool = ftRun[q].tool
        /\ new.video = ftRun[q].video
    BY <1>1 DEF RunRecords
  <1>5. ftRun' = [ftRun EXCEPT ![q] = new]
    OBVIOUS
  <1> HIDE DEF new
  <1>4. QED
    BY <1>2, <1>3, <1>5 DEF FtShapes

LEMMA FtInvInit == FtInit => FtInv
  <1> SUFFICES ASSUME FtInit PROVE FtInv
    OBVIOUS
  <1>1. FsInv
    BY FsInvInit DEF FtInit
  <1>2. FtShapes
    <2>1. ftRun \in [FtRuns -> RunRecords]
      <3>1. ftRun = [r \in FtRuns |->
                [pc |-> "new", named |-> "none", tool |-> "none", video |-> "none"]]
        BY Zenon DEF FtInit
      <3>2. QED
        BY <3>1 DEF RunRecords, FtPlaces
    <2>2. DOMAIN ftWhole = FtRuns
      BY Zenon DEF FtInit
    <2>3. ftSaved = <<>> /\ ftList = [r \in FtRuns |-> <<>>] /\ ftShown = [r \in FtRuns |-> {}]
      BY Zenon DEF FtInit
    <2>4. /\ ftSaved \in Seq(FsVideos) /\ ftList \in [FtRuns -> Seq(FrameRefs)]
          /\ ftShown \in [FtRuns -> SUBSET FrameRefs]
      BY <2>3
    <2>6. DOMAIN ftAnswer = FtRuns /\ DOMAIN ftCount = FtRuns
      BY Zenon DEF FtInit
    <2>5. QED
      BY <2>1, <2>2, <2>4, <2>6, Zenon DEF FtShapes
  <1>3. SUFFICES ASSUME NEW q \in FtRuns PROVE RunPath(q) /\ RunVideo(q) /\ RunFrames(q)
    BY <1>1, <1>2 DEF FtInv
  <1>4. /\ ftRun[q].pc = "new" /\ ftRun[q].named = "none" /\ ftRun[q].tool = "none"
        /\ ftRun[q].video = "none" /\ ftList[q] = <<>> /\ ftShown[q] = {}
        /\ ftCount[q] = 0
    BY Zenon DEF FtInit
  <1>10. ftAnswer[q] = "" /\ "" # "text"
    BY Zenon DEF FtInit
  <1>11. ftAnswer[q] # "text"
    BY Zenon, <1>10
  <1>5. Len(ftList[q]) = 0 /\ ~(ftCount[q] > 0)
    BY <1>4
  <1>6. RunPath(q)
    BY <1>4, <1>5, <1>11 DEF RunPath
  <1>7. RunVideo(q)
    BY <1>4, <1>5 DEF RunVideo
  <1>8. RunFrames(q)
    BY <1>4, <1>5 DEF RunFrames
  <1>9. QED
    BY <1>6, <1>7, <1>8

\* Half-even rounding stays within a half.
LEMMA HalfEvenNear ==
  ASSUME NEW a \in Nat, NEW b \in Nat \ {0}
  PROVE  /\ HalfEven(a, b) \in Nat
         /\ 2 * a <= 2 * (b * HalfEven(a, b)) + b
         /\ 2 * (b * HalfEven(a, b)) <= 2 * a + b
  <1>1. PICK n \in Nat, m \in Nat : n = a \div b /\ m = a % b /\ a = b * n + m /\ m < b
    OBVIOUS
  <1>2. PICK p \in Nat : p = b * n
    BY <1>1
  <1>3. b * (n + 1) = p + b
    BY <1>1, <1>2
  <1>4. a = p + m
    BY <1>1, <1>2
  <1>5. CASE 2 * m > b \/ (2 * m = b /\ n % 2 = 1)
    <2>1. HalfEven(a, b) = n + 1
      BY <1>1, <1>5 DEF HalfEven
    <2>2. 2 * m >= b
      BY <1>1, <1>5
    <2>3. 2 * a <= 2 * (p + b) + b /\ 2 * (p + b) <= 2 * a + b
      BY <1>1, <1>2, <1>4, <2>2
    <2>4. QED
      BY <1>1, <1>3, <2>1, <2>3
  <1>6. CASE ~(2 * m > b \/ (2 * m = b /\ n % 2 = 1))
    <2>1. HalfEven(a, b) = n
      BY <1>1, <1>6 DEF HalfEven
    <2>2. 2 * m <= b
      BY <1>1, <1>6
    <2>3. 2 * a <= 2 * p + b /\ 2 * p <= 2 * a + b
      BY <1>1, <1>2, <1>4, <2>2
    <2>4. QED
      BY <1>1, <1>2, <2>1, <2>3
  <1>7. QED
    BY <1>5, <1>6

LEMMA TimesGrows ==
  ASSUME NEW b \in Nat, NEW x \in Nat, NEW y \in Nat, x < y
  PROVE  b * x + b <= b * y
  <1>1. PICK d \in Nat : y = x + 1 + d
    <2>1. y - x - 1 \in Nat /\ y = x + 1 + (y - x - 1)
      OBVIOUS
    <2>2. QED
      BY <2>1
  <1>2. b * y = b * x + b + b * d
    BY <1>1
  <1>3. b * d \in Nat /\ b * x \in Nat
    BY <1>1
  <1>4. QED
    BY <1>2, <1>3

\* A rounding that is more than one apart is in order.
LEMMA HalfEvenGrows ==
  ASSUME NEW a \in Nat, NEW m \in Nat, NEW b \in Nat \ {0}, b < m
  PROVE  HalfEven(a, b) < HalfEven(a + m, b)
  <1>1. PICK g \in Nat : g = HalfEven(a, b) /\ 2 * (b * g) <= 2 * a + b
    BY HalfEvenNear
  <1>2. PICK h \in Nat : h = HalfEven(a + m, b) /\ 2 * (a + m) <= 2 * (b * h) + b
    <2>1. PICK c \in Nat : c = a + m
      OBVIOUS
    <2>2. HalfEven(c, b) \in Nat /\ 2 * c <= 2 * (b * HalfEven(c, b)) + b
      BY HalfEvenNear
    <2>3. QED
      BY <2>1, <2>2
  <1>3. PICK p \in Nat, q \in Nat : p = b * g /\ q = b * h
    BY <1>1, <1>2
  <1>4. h < g => q + b <= p
    BY <1>3, TimesGrows
  <1>5. h = g => q = p
    BY <1>3
  <1>6. 2 * p <= 2 * a + b /\ 2 * (a + m) <= 2 * q + b
    BY <1>1, <1>2, <1>3
  <1>7. ~(q <= p)
    BY <1>6
  <1>8. QED
    BY <1>1, <1>2, <1>3, <1>4, <1>5, <1>7

\* What lies at a multiple is kept.
LEMMA HalfEvenExact ==
  ASSUME NEW m \in Nat, NEW b \in Nat \ {0}
  PROVE  HalfEven(b * m, b) = m
  <1>1. PICK p \in Nat : p = b * m
    OBVIOUS
  <1>2. PICK h \in Nat : /\ h = HalfEven(p, b)
                         /\ 2 * p <= 2 * (b * h) + b /\ 2 * (b * h) <= 2 * p + b
    BY HalfEvenNear
  <1>3. PICK q \in Nat : q = b * h
    BY <1>2
  <1>4. h < m => q + b <= p
    BY <1>1, <1>3, TimesGrows
  <1>5. m < h => p + b <= q
    BY <1>1, <1>3, TimesGrows
  <1>6. 2 * p <= 2 * q + b /\ 2 * q <= 2 * p + b
    BY <1>2, <1>3
  <1>7. ~(q + b <= p) /\ ~(p + b <= q)
    BY <1>6
  <1>8. h = m
    BY <1>2, <1>4, <1>5, <1>7
  <1>9. QED
    BY <1>1, <1>2, <1>8

\* A rounding below a multiple stays below it.
LEMMA HalfEvenBelow ==
  ASSUME NEW a \in Nat, NEW m \in Nat, NEW b \in Nat \ {0}, a <= b * m
  PROVE  HalfEven(a, b) \in 0..m
  <1>1. PICK p \in Nat : p = b * m
    OBVIOUS
  <1>2. PICK h \in Nat : h = HalfEven(a, b) /\ 2 * (b * h) <= 2 * a + b
    BY HalfEvenNear
  <1>3. PICK q \in Nat : q = b * h
    BY <1>2
  <1>4. m < h => p + b <= q
    BY <1>1, <1>3, TimesGrows
  <1>5. ~(p + b <= q)
    BY <1>1, <1>2, <1>3
  <1>6. QED
    BY <1>2, <1>4, <1>5

LEMMA SmallerOfTwo ==
  ASSUME NEW a \in Nat, NEW b \in Nat
  PROVE  Min({a, b}) = IF a <= b THEN a ELSE b
  <1> DEFINE c == IF a <= b THEN a ELSE b
  <1>1. c \in {a, b} /\ \A y \in {a, b} : c <= y
    OBVIOUS
  <1>2. \A x \in {a, b} : (\A y \in {a, b} : x <= y) => x = c
    OBVIOUS
  <1>3. QED
    BY <1>1, <1>2 DEF Min

\* A selection is made of places in the list; it starts with the first, ends
\* with the last and goes up.
LEMMA SelectionFacts ==
  ASSUME NEW n \in Nat, NEW k \in Nat \ {0}
  PROVE  /\ Selection(n, k) \in Seq(1..n)
         /\ Len(Selection(n, k)) = IF n <= k THEN n ELSE k
         /\ k > 1 /\ n > 0 =>
             /\ Selection(n, k)[1] = 1 /\ Selection(n, k)[IF n <= k THEN n ELSE k] = n
             /\ \A i \in 2..(IF n <= k THEN n ELSE k) : Selection(n, k)[i - 1] < Selection(n, k)[i]
  <1>1. CASE n <= k
    <2>1. Selection(n, k) = [i \in 1..n |-> i]
      BY <1>1 DEF Selection
    <2>2. [i \in 1..n |-> i] \in Seq(1..n) /\ Len([i \in 1..n |-> i]) = n
      OBVIOUS
    <2>3. QED
      BY <1>1, <2>1, <2>2
  <1>2. CASE n > k /\ k = 1
    <2>1. Selection(n, k) = <<1>>
      BY <1>2 DEF Selection
    <2>2. 1 \in 1..n /\ <<1>> \in Seq(1..n) /\ Len(<<1>>) = 1
      BY <1>2
    <2>3. ~(k > 1) /\ ~(n <= k)
      BY <1>2
    <2>4. QED
      BY <1>2, <2>1, <2>2, <2>3
  <1>3. CASE n > k /\ k # 1
    <2>1. PICK m \in Nat, b \in Nat \ {0} : m = n - 1 /\ b = k - 1 /\ b < m
      <3>1. n - 1 \in Nat /\ k - 1 \in Nat \ {0} /\ k - 1 < n - 1
        BY <1>3
      <3>2. QED
        BY <3>1
    <2> DEFINE sel == [i \in 1..k |-> HalfEven((i - 1) * m, b) + 1]
    <2>2. Selection(n, k) = sel
      BY <1>3, <2>1 DEF Selection
    <2>3. ASSUME NEW i \in 1..k PROVE sel[i] \in 1..n
      <3>1. PICK j \in Nat : j = i - 1 /\ j <= b
        BY <2>1
      <3>2. j * m \in Nat /\ b * m \in Nat /\ j * m <= b * m
        <4>1. CASE j = b
          BY <2>1, <4>1
        <4>2. CASE j # b
          <5>1. j < b
            BY <3>1, <4>2
          <5>2. m * j + m <= m * b
            BY <2>1, <5>1, TimesGrows
          <5>3. m * j = j * m /\ m * b = b * m /\ j * m \in Nat /\ b * m \in Nat
            BY <2>1
          <5>4. QED
            BY <5>2, <5>3
        <4>3. QED
          BY <4>1, <4>2
      <3>3. HalfEven(j * m, b) \in 0..m
        BY <2>1, <3>2, HalfEvenBelow
      <3>4. sel[i] = HalfEven(j * m, b) + 1
        BY <3>1
      <3>5. QED
        BY <2>1, <3>3, <3>4
    <2>4. sel \in Seq(1..n) /\ Len(sel) = k
      BY <2>3
    <2>5. sel[1] = 1
      <3>1. HalfEven(b * 0, b) = 0
        BY HalfEvenExact
      <3>2. b * 0 = 0 /\ (1 - 1) * m = 0 /\ 1 \in 1..k
        BY <2>1
      <3>3. sel[1] = HalfEven((1 - 1) * m, b) + 1
        BY <3>2
      <3>4. QED
        BY <3>1, <3>2, <3>3
    <2>6. sel[k] = n
      <3>1. HalfEven(b * m, b) = m
        BY HalfEvenExact
      <3>2. sel[k] = HalfEven(b * m, b) + 1
        BY <2>1
      <3>3. QED
        BY <2>1, <3>1, <3>2
    <2>7. ASSUME NEW i \in 2..k PROVE sel[i - 1] < sel[i]
      <3>1. PICK j \in Nat : i = j + 2
        <4>1. i - 2 \in Nat /\ i = (i - 2) + 2
          OBVIOUS
        <4>2. QED
          BY <4>1
      <3>2. PICK a \in Nat : a = j * m
        BY <2>1, <3>1
      <3>3. (j + 1) * m = a + m
        BY <2>1, <3>1, <3>2
      <3>4. sel[i - 1] = HalfEven(a, b) + 1 /\ sel[i] = HalfEven(a + m, b) + 1
        <4>1. i - 1 \in 1..k /\ i \in 1..k /\ (i - 1) - 1 = j /\ i - 1 = j + 1
          BY <3>1
        <4>2. sel[i - 1] = HalfEven(((i - 1) - 1) * m, b) + 1 /\ sel[i] = HalfEven((i - 1) * m, b) + 1
          BY <4>1
        <4>3. QED
          BY <3>2, <3>3, <4>1, <4>2
      <3>5. HalfEven(a, b) < HalfEven(a + m, b)
        BY <2>1, HalfEvenGrows
      <3>6. HalfEven(a, b) \in Nat /\ HalfEven(a + m, b) \in Nat
        <4>1. PICK c \in Nat : c = a + m
          OBVIOUS
        <4>2. HalfEven(a, b) \in Nat /\ HalfEven(c, b) \in Nat
          BY HalfEvenNear
        <4>3. QED
          BY <4>1, <4>2
      <3>7. QED
        BY <3>4, <3>5, <3>6
    <2> HIDE DEF sel
    <2>8. QED
      BY <1>3, <2>2, <2>4, <2>5, <2>6, <2>7
  <1>4. QED
    BY <1>1, <1>2, <1>3

LEMMA SelectionsAreFair ==
  \A n \in 1..FtLimit : \A k \in 2..FtSelect :
        LET chosen == Selection(n, k) IN
        /\ Len(chosen) = Min({n, k}) /\ chosen[1] = 1 /\ chosen[Len(chosen)] = n
        /\ \A i \in 2..Len(chosen) : chosen[i - 1] < chosen[i]
  <1> SUFFICES ASSUME NEW n \in 1..FtLimit, NEW k \in 2..FtSelect
               PROVE  LET chosen == Selection(n, k) IN
                      /\ Len(chosen) = Min({n, k}) /\ chosen[1] = 1 /\ chosen[Len(chosen)] = n
                      /\ \A i \in 2..Len(chosen) : chosen[i - 1] < chosen[i]
    OBVIOUS
  <1>1. n \in Nat \ {0} /\ k \in Nat \ {0} /\ k > 1 /\ n > 0
    BY FrameToolsAssumption
  <1>2. Min({n, k}) = IF n <= k THEN n ELSE k
    BY <1>1, SmallerOfTwo
  <1> DEFINE chosen == Selection(n, k)
             last == IF n <= k THEN n ELSE k
  <1>3. /\ Len(chosen) = last /\ chosen[1] = 1 /\ chosen[last] = n
        /\ \A i \in 2..last : chosen[i - 1] < chosen[i]
    BY <1>1, SelectionFacts
  <1>4. Min({n, k}) = last
    BY <1>2
  <1> HIDE DEF chosen, last
  <1>5. QED
    BY <1>3, <1>4 DEF chosen

LEMMA RunAnswers ==
  ASSUME FtShapes, NEW q \in FtRuns, NEW from, NEW answers, Answers(q, from, answers)
  PROVE  /\ ftRun[q].pc = from /\ ftRun' \in [FtRuns -> RunRecords]
         /\ ftRun'[q].pc = "done" /\ ftRun'[q].named = ftRun[q].named
         /\ ftRun'[q].tool = ftRun[q].tool /\ ftRun'[q].video = ftRun[q].video
         /\ \A p \in FtRuns \ {q} : ftRun'[p] = ftRun[p] /\ ftAnswer'[p] = ftAnswer[p]
         /\ ftAnswer'[q] \in answers /\ DOMAIN ftAnswer' = FtRuns
  <1>1. ftRun[q].pc = from /\ ftRun' = [ftRun EXCEPT ![q].pc = "done"]
    BY DEF Answers, Goes
  <1>2. "done" \in FtPlaces
    BY DEF FtPlaces
  <1>3. PICK a \in answers : ftAnswer' = [ftAnswer EXCEPT ![q] = a]
    BY DEF Answers
  <1>4. ftAnswer'[q] \in answers /\ DOMAIN ftAnswer' = FtRuns
        /\ \A p \in FtRuns \ {q} : ftAnswer'[p] = ftAnswer[p]
    BY <1>3 DEF FtShapes
  <1>5. QED
    BY <1>1, <1>2, <1>4, RunMoved

LEMMA RunGoes ==
  ASSUME FtShapes, NEW q \in FtRuns, NEW from, NEW to \in FtPlaces, Goes(q, from, to)
  PROVE  /\ ftRun[q].pc = from /\ ftRun' \in [FtRuns -> RunRecords]
         /\ ftRun'[q].pc = to /\ ftRun'[q].named = ftRun[q].named
         /\ ftRun'[q].tool = ftRun[q].tool /\ ftRun'[q].video = ftRun[q].video
         /\ \A p \in FtRuns \ {q} : ftRun'[p] = ftRun[p]
  BY RunMoved DEF Goes

LEMMA RunShows ==
  ASSUME FtShapes, NEW q \in FtRuns, NEW frames \in SUBSET FrameRefs, Shows(q, frames)
  PROVE  /\ ftShown' \in [FtRuns -> SUBSET FrameRefs]
         /\ ftShown'[q] = ftShown[q] \cup frames
         /\ \A p \in FtRuns \ {q} : ftShown'[p] = ftShown[p]
  BY DEF Shows, FtShapes

\* What a run's frames and its record are.
LEMMA RunTypes ==
  ASSUME FtShapes, NEW q \in FtRuns
  PROVE  /\ ftShown[q] \subseteq FrameRefs /\ ftList[q] \in Seq(FrameRefs)
         /\ Len(ftList[q]) \in Nat /\ DOMAIN ftList[q] = 1..Len(ftList[q])
         /\ \A i \in 1..Len(ftList[q]) : ftList[q][i] \in FrameRefs
         /\ ftRun[q] \in RunRecords
  BY LenProperties, ElementOfSeq DEF FtShapes

\* Between steps that leave storage alone, what is there is the same.
LEMMA ThereSame ==
  ASSUME UNCHANGED fsVars
  PROVE  \A f : There(f)' <=> There(f)
  BY DEF There, fsVars

LEMMA SaveVideoKeeps ==
  ASSUME FtInv, NEW v \in FsVideos, SaveVideo(v)
  PROVE  FtInv'
  <1>1. ftSaved' = Append(ftSaved, v) /\ UNCHANGED <<ftOwn, fsVars>>
    BY DEF SaveVideo
  <1>2. UNCHANGED <<ftRun, ftList, ftWhole, ftShown, ftAnswer, ftCount>> /\ UNCHANGED fsVars
    BY <1>1 DEF ftOwn
  <1>3. ftSaved' \in Seq(FsVideos)
    BY <1>1, AppendProperties DEF FtInv, FtShapes
  <1>4. FtShapes'
    BY <1>2, <1>3, Zenon DEF FtInv, FtShapes
  <1>5. FsInv'
    BY <1>2, FsInvStays DEF FtInv
  <1>6. \A f \in FrameRefs : There(f) => There(f)'
    BY <1>2, ThereSame
  <1>7. \A q \in FtRuns : RunPath(q)' /\ RunVideo(q)' /\ RunFrames(q)'
    BY <1>2, <1>6, RunStays
  <1>8. QED
    BY <1>4, <1>5, <1>7 DEF FtInv

LEMMA StoreStepsKeep ==
  ASSUME FtInv, FsNext, UNCHANGED <<ftSaved, ftOwn>>
  PROVE  FtInv'
  <1>1. FsInv' /\ \A f \in Folders : Len(fsBlobs[f]) <= Len(fsBlobs'[f])
    BY FsInvStep DEF FtInv
  <1>2. UNCHANGED <<ftSaved, ftRun, ftList, ftWhole, ftShown, ftAnswer, ftCount>>
    BY DEF ftOwn
  <1>3. FtShapes'
    BY <1>2, Zenon DEF FtInv, FtShapes
  <1>4. \A f \in FrameRefs : There(f) => There(f)'
    BY <1>1, ThereStays DEF FtInv, FsInv
  <1>5. \A q \in FtRuns : RunPath(q)' /\ RunVideo(q)' /\ RunFrames(q)'
    BY <1>2, <1>4, RunStays
  <1>6. QED
    BY <1>1, <1>3, <1>5 DEF FtInv

LEMMA FtInvStays ==
  ASSUME FtInv, UNCHANGED ftVars
  PROVE  FtInv'
  <1>1. UNCHANGED <<ftSaved, ftRun, ftList, ftWhole, ftShown, ftAnswer, ftCount>>
        /\ UNCHANGED fsVars
    BY DEF ftVars, ftOwn
  <1>2. FtShapes'
    BY <1>1, Zenon DEF FtInv, FtShapes
  <1>3. FsInv'
    BY <1>1, FsInvStays DEF FtInv
  <1>4. \A f \in FrameRefs : There(f) => There(f)'
    BY <1>1, ThereSame
  <1>5. \A q \in FtRuns : RunPath(q)' /\ RunVideo(q)' /\ RunFrames(q)'
    BY <1>1, <1>4, RunStays
  <1>6. QED
    BY <1>2, <1>3, <1>5 DEF FtInv

LEMMA StartAgentKeeps ==
  ASSUME FtInv, NEW q \in FtRuns, StartAgent(q)
  PROVE  FtInv'
  <1>1. /\ ftRun[q].pc = "new"
        /\ UNCHANGED <<ftSaved, ftList, ftWhole, ftShown, ftAnswer, ftCount>> /\ UNCHANGED fsVars
    BY DEF StartAgent
  <1>2. PICK v \in FsVideos \cup {"none"} :
            ftRun' = [ftRun EXCEPT ![q].pc = "list", ![q].named = v]
    BY DEF StartAgent
  <1> DEFINE new == [ftRun[q] EXCEPT !.pc = "list", !.named = v]
  <1>3. ftRun[q] \in RunRecords /\ FtShapes /\ RunPath(q)
    BY DEF FtInv, FtShapes
  <1>4. /\ new \in RunRecords /\ new.pc = "list" /\ new.tool = ftRun[q].tool
        /\ new.video = ftRun[q].video
    BY <1>3 DEF RunRecords, FtPlaces
  <1>5. ftRun' = [ftRun EXCEPT ![q] = new]
    BY <1>2
  <1> HIDE DEF new
  <1>6. ftRun' \in [FtRuns -> RunRecords] /\ ftRun'[q] = new
        /\ \A p \in FtRuns \ {q} : ftRun'[p] = ftRun[p]
    BY <1>3, <1>4, <1>5 DEF FtShapes
  <1>7. FtShapes'
    BY <1>1, <1>3, <1>6, Zenon DEF FtShapes
  <1>8. /\ Len(ftList[q]) = 0 /\ ftRun[q].video = "none" /\ ftShown[q] = {}
        /\ ftRun[q].tool = "none" /\ ftAnswer[q] # "text"
    BY <1>1, <1>3 DEF RunPath
  <1>9. RunPath(q)'
    BY <1>1, <1>4, <1>6, <1>8 DEF RunPath
  <1>10. RunVideo(q)'
    BY <1>1, <1>4, <1>6, <1>8 DEF RunVideo
  <1>11. RunFrames(q)'
    <2>1. RunFrames(q)
      BY DEF FtInv
    <2>2. ~(ftCount[q] > 0)
      BY <1>8, <2>1 DEF RunFrames
    <2>3. QED
      BY <1>1, <1>8, <2>2 DEF RunFrames
  <1>12. QED
    BY <1>1, <1>6, <1>7, <1>9, <1>10, <1>11, OneRun

LEMMA ResolvedFacts ==
  ASSUME ftSaved \in Seq(FsVideos), NEW named \in FsVideos \cup {"none"},
         NEW v \in {Resolved(named), "none"}
  PROVE  v \in FsVideos \cup {"none"} /\ (named # "none" => v \in {named, "none"})
  <1>1. ftSaved # <<>> => ftSaved[Len(ftSaved)] \in FsVideos
    <2>1. ASSUME ftSaved # <<>> PROVE ftSaved[Len(ftSaved)] \in FsVideos
      <3>1. Len(ftSaved) \in Nat \ {0}
        BY <2>1, EmptySeq
      <3>2. Len(ftSaved) \in 1..Len(ftSaved)
        BY <3>1
      <3>3. QED
        BY <3>2, ElementOfSeq
    <2>2. QED
      BY <2>1
  <1>2. QED
    BY <1>1 DEF Resolved

\* The rows of one request are no more than the frames in storage.
LEMMA ListFramesKeeps ==
  ASSUME FtInv, NEW q \in FtRuns, ListFrames(q)
  PROVE  FtInv'
  <1>1. UNCHANGED <<ftSaved, ftShown, ftAnswer, ftCount>> /\ UNCHANGED fsVars
        /\ Goes(q, "list", "ask")
    BY DEF ListFrames
  <1>2. PICK v \in {Resolved(ftRun[q].named), "none"} :
         LET rows == IF v = "none" THEN <<>> ELSE fsRows[v] IN
         /\ ftList' = [ftList EXCEPT ![q] =
                [n \in 1..Min({Len(rows), FtLimit}) |-> FrameRef("listed", v, n - 1)]]
         /\ ftWhole' = [ftWhole EXCEPT ![q] = Cardinality(ToSet(rows)) <= 1]
    BY DEF ListFrames
  <1>3. FtShapes /\ FsInv /\ RunPath(q) /\ RunVideo(q) /\ RunFrames(q)
        /\ ftRun[q].named \in FsVideos \cup {"none"}
    BY DEF FtInv, FtShapes, RunRecords
  <1>4. v \in FsVideos \cup {"none"} /\ (ftRun[q].named # "none" => v \in {ftRun[q].named, "none"})
    <2>1. ftSaved \in Seq(FsVideos)
      BY <1>3 DEF FtShapes
    <2>2. QED
      BY <1>3, <2>1, ResolvedFacts
  <1> DEFINE seq == IF v = "none" THEN <<>> ELSE fsRows[v]
  <1>5. seq \in Seq(FsRequests) /\ (v # "none" => seq = fsRows[v]) /\ (v = "none" => seq = <<>>)
    BY <1>3, <1>4 DEF FsInv, FsShapes
  <1>10. /\ ftList' = [ftList EXCEPT ![q] =
                [i \in 1..Min({Len(seq), FtLimit}) |-> FrameRef("listed", v, i - 1)]]
         /\ ftWhole' = [ftWhole EXCEPT ![q] = Cardinality(ToSet(seq)) <= 1]
    BY <1>2
  <1> HIDE DEF seq
  <1>27. PICK rows \in Seq(FsRequests) : rows = seq
    BY <1>5
  <1>6. PICK len \in Nat : len = Len(rows)
    BY <1>27, LenProperties
  <1>7. PICK n \in Nat : n <= len /\ n = Min({len, FtLimit})
    <2>1. FtLimit \in Nat
      BY FrameToolsAssumption
    <2>2. QED
      BY <1>6, <2>1, SmallerOfTwo
  <1>31. n \in Nat /\ n <= len
    BY <1>7
  <1>8. v = "none" => n = 0
    <2>1. v = "none" => len = 0
      BY <1>5, <1>6, <1>27
    <2>2. QED
      BY <1>31, <2>1
  <1>9. v # "none" => v \in FsVideos
    BY <1>4
  <1> DEFINE frames == [i \in 1..n |-> FrameRef("listed", v, i - 1)]
  <1>11. /\ frames \in Seq(FrameRefs) /\ Len(frames) = n
         /\ \A i \in 1..n :
                frames[i].as = "listed" /\ frames[i].video = v /\ frames[i].frame = i - 1
    <2>1. \A i \in 1..n : v \in FsVideos /\ i - 1 \in Nat
      BY <1>31, <1>8, <1>9
    <2>2. \A i \in 1..n : FrameRef("listed", v, i - 1) \in FrameRefs
      BY <2>1 DEF FrameRef, FrameRefs, Uses
    <2>3. frames \in Seq(FrameRefs) /\ Len(frames) = n
      BY <1>31, <2>2
    <2>4. \A i \in 1..n : frames[i] = FrameRef("listed", v, i - 1)
      OBVIOUS
    <2>5. QED
      BY <2>3, <2>4 DEF FrameRef
  <1>28. ftList' = [ftList EXCEPT ![q] = frames]
    BY <1>6, <1>7, <1>10, <1>27
  <1> HIDE DEF frames
  <1>29. PICK list \in Seq(FrameRefs) : list = frames
    BY <1>11
  <1>12. ASSUME Cardinality(ToSet(rows)) <= 1, v # "none" PROVE len <= Len(fsBlobs[v])
    <2>1. RowsKnown(v)
      BY <1>3, <1>9, <1>12 DEF FsInv
    <2>2. rows = fsRows[v]
      BY <1>5, <1>12, <1>27
    <2>3. IsFiniteSet(ToSet(rows))
      <3>1. ToSet(rows) = {rows[i] : i \in 1..len}
        BY <1>6, LenProperties DEF ToSet
      <3> DEFINE pick == [i \in 1..len |-> rows[i]]
      <3>2. pick \in Surjection(1..len, ToSet(rows))
        BY <3>1 DEF Surjection
      <3>3. IsFiniteSet(1..len)
        BY FS_Interval
      <3>4. QED
        BY <3>2, <3>3, FS_Surjection
    <2>4. \A x, y \in ToSet(rows) : x = y
      <3>1. Cardinality(ToSet(rows)) \in Nat
        BY <2>3, FS_CardinalityType
      <3>2. Cardinality(ToSet(rows)) = 0 \/ Cardinality(ToSet(rows)) = 1
        BY <1>12, <3>1
      <3>3. Cardinality(ToSet(rows)) = 0 => ToSet(rows) = {}
        BY <2>3, FS_EmptySet
      <3>4. Cardinality(ToSet(rows)) = 1 => \E x : ToSet(rows) = {x}
        BY <2>3, FS_Singleton
      <3>5. QED
        BY <3>2, <3>3, <3>4
    <2>5. \A i \in 1..len : rows[i] \in ToSet(rows)
      BY <1>6, LenProperties DEF ToSet
    <2>6. \A i, j \in 1..Len(fsRows[v]) : fsRows[v][i] = fsRows[v][j]
      <3>1. \A i, j \in 1..len : rows[i] = rows[j]
        BY <2>4, <2>5
      <3>2. QED
        BY <1>6, <2>2, <3>1
    <2>7. QED
      BY <1>6, <2>1, <2>2, <2>6 DEF RowsKnown
  <1>13. /\ ftRun' \in [FtRuns -> RunRecords] /\ ftRun[q].pc = "list"
         /\ ftRun'[q].pc = "ask" /\ ftRun'[q].named = ftRun[q].named
         /\ ftRun'[q].tool = ftRun[q].tool /\ ftRun'[q].video = ftRun[q].video
         /\ \A p \in FtRuns \ {q} : ftRun'[p] = ftRun[p]
    <2>1. "ask" \in FtPlaces
      BY DEF FtPlaces
    <2>2. QED
      BY <1>1, <1>3, <2>1, RunGoes
  <1>14. /\ ftList' \in [FtRuns -> Seq(FrameRefs)] /\ ftList'[q] = list
         /\ \A p \in FtRuns \ {q} : ftList'[p] = ftList[p]
    BY <1>3, <1>28, <1>29 DEF FtShapes
  <1>15. DOMAIN ftWhole = FtRuns
    BY <1>3 DEF FtShapes
  <1>16. /\ DOMAIN ftWhole' = FtRuns /\ (ftWhole'[q] => Cardinality(ToSet(seq)) <= 1)
         /\ \A p \in FtRuns \ {q} : ftWhole'[p] = ftWhole[p]
    BY <1>10, <1>15, Zenon
  <1>17. ftWhole'[q] => Cardinality(ToSet(rows)) <= 1
    BY <1>16, <1>27, Zenon
  <1>18. FtShapes'
    BY <1>1, <1>3, <1>13, <1>14, <1>16, Zenon DEF FtShapes
  <1>19. ftShown[q] = {} /\ ftRun[q].tool = "none" /\ ftAnswer[q] # "text"
    BY <1>3, <1>13 DEF RunPath
  <1>20. RunPath(q)'
    BY <1>1, <1>3, <1>13, <1>19 DEF RunPath
  <1>30. /\ Len(list) = n
         /\ \A i \in 1..n : list[i].as = "listed" /\ list[i].video = v /\ list[i].frame = i - 1
    BY <1>11, <1>29
  <1>21. RunVideo(q)'
    <2>1. ftRun[q].named # "none" => \A i \in 1..n : list[i].video = ftRun[q].named
      BY <1>4, <1>31, <1>8, <1>30
    <2>2. \A i, j \in 1..Len(list) : list[i].video = list[j].video
      BY <1>30
    <2>3. ftRun[q].named # "none" => ftRun[q].video \in {ftRun[q].named, "none"}
      BY <1>3 DEF RunVideo
    <2>4. QED
      BY <1>1, <1>30, <1>13, <1>14, <1>19, <2>1, <2>2, <2>3 DEF RunVideo
  <1>22. RunFrames(q)'
    <2>1. ~(ftCount[q] > 0)
      BY <1>3, <1>19 DEF RunFrames
    <2>2. ASSUME ftWhole'[q], NEW i \in 1..Len(ftList'[q]) PROVE There(ftList[q][i])'
      <3>1. i \in 1..n /\ n <= len /\ v # "none"
        BY <1>31, <1>8, <1>14, <1>30, <2>2
      <3>2. len <= Len(fsBlobs[v])
        BY <1>12, <1>17, <2>2, <3>1
      <3>3. fsBlobs[v] \in Seq(Samplings)
        BY <1>3, <1>9, <3>1 DEF FsInv, FsShapes, Folders
      <3>4. PICK m \in Nat : m = Len(fsBlobs[v])
        BY <3>3, LenProperties
      <3>5. list[i].video = v /\ list[i].frame = i - 1
        BY <1>30, <3>1
      <3>6. i - 1 < m
        BY <1>31, <3>1, <3>2, <3>4
      <3>7. fsBlobs' = fsBlobs
        BY <1>1 DEF fsVars
      <3>8. QED
        BY <1>14, <3>4, <3>5, <3>6, <3>7 DEF There
    <2>4. (ftWhole[q] => \A i \in 1..Len(ftList[q]) : There(ftList[q][i]))'
      BY <2>2
    <2>5. QED
      BY <1>1, <1>13, <1>19, <2>1, <2>4 DEF RunFrames
  <1>23. QED
    BY <1>1, <1>13, <1>14, <1>16, <1>18, <1>20, <1>21, <1>22, OneRun

\* A run in the middle of its tool that is shown more frames.
LEMMA RunMoves ==
  ASSUME FtInv, NEW q \in FtRuns,
         UNCHANGED <<ftSaved, ftList, ftWhole, ftAnswer, ftCount>>, UNCHANGED fsVars,
         ftRun' \in [FtRuns -> RunRecords], \A p \in FtRuns \ {q} : ftRun'[p] = ftRun[p],
         ftShown' \in [FtRuns -> SUBSET FrameRefs],
         \A p \in FtRuns \ {q} : ftShown'[p] = ftShown[p],
         ftShown[q] \subseteq ftShown'[q],
         \A f \in ftShown'[q] \ ftShown[q] : f.as = "counted" => There(f),
         ftRun[q].pc # "done", RunPath(q)', RunVideo(q)'
  PROVE  FtInv'
  <1>1. FtShapes /\ RunPath(q) /\ RunFrames(q)
    BY DEF FtInv
  <1>2. FtShapes'
    BY <1>1, Zenon DEF FtShapes
  <1>3. ftAnswer'[q] # "text"
    BY <1>1 DEF RunPath
  <1>4. RunFrames(q)'
    <2>1. (ftWhole[q] => \A i \in 1..Len(ftList[q]) : There(ftList[q][i]))'
      BY <1>1 DEF RunFrames, There, fsVars
    <2>2. (\A f \in ftShown[q] : f.as = "counted" => There(f))'
      BY <1>1 DEF RunFrames, There, fsVars
    <2>3. (ftCount[q] > 0 =>
             \A use \in {"object", "scene"} : \E f \in ftShown[q] : f.as = use /\ There(f))'
      BY <1>1 DEF RunFrames, There, fsVars
    <2>4. QED
      BY <1>3, <2>1, <2>2, <2>3 DEF RunFrames
  <1>5. QED
    BY <1>2, <1>4, OneRun

\* A run whose tool answers without handing on another frame.
LEMMA RunEnds ==
  ASSUME FtInv, NEW q \in FtRuns, NEW from, NEW answers, Answers(q, from, answers),
         UNCHANGED <<ftSaved, ftList, ftWhole, ftShown>>, UNCHANGED fsVars,
         DOMAIN ftCount' = FtRuns, \A p \in FtRuns \ {q} : ftCount'[p] = ftCount[p],
         \/ ftCount'[q] = ftCount[q]
         \/ \A use \in {"object", "scene"} : \E f \in ftShown[q] : f.as = use /\ There(f),
         from \notin {"new", "list", "ask", "select", "done"}
  PROVE  FtInv'
  <1>1. FtShapes /\ RunPath(q) /\ RunVideo(q) /\ RunFrames(q)
    BY DEF FtInv
  <1>2. /\ ftRun[q].pc = from /\ ftRun' \in [FtRuns -> RunRecords]
        /\ ftRun'[q].pc = "done" /\ ftRun'[q].named = ftRun[q].named
        /\ ftRun'[q].tool = ftRun[q].tool /\ ftRun'[q].video = ftRun[q].video
        /\ \A p \in FtRuns \ {q} : ftRun'[p] = ftRun[p] /\ ftAnswer'[p] = ftAnswer[p]
        /\ DOMAIN ftAnswer' = FtRuns
    BY <1>1, RunAnswers
  <1>3. FtShapes'
    BY <1>1, <1>2, Zenon DEF FtShapes
  <1>4. ftRun[q].tool # "qwen_agent"
    BY <1>1, <1>2 DEF RunPath
  <1>5. RunPath(q)'
    BY <1>2, <1>4 DEF RunPath
  <1>6. RunVideo(q)'
    BY <1>1, <1>2 DEF RunVideo
  <1>7. RunFrames(q)'
    <2>1. (ftWhole[q] => \A i \in 1..Len(ftList[q]) : There(ftList[q][i]))'
      BY <1>1 DEF RunFrames, There, fsVars
    <2>2. (\A f \in ftShown[q] : f.as = "counted" => There(f))'
      BY <1>1 DEF RunFrames, There, fsVars
    <2>3. (ftCount[q] > 0 =>
             \A use \in {"object", "scene"} : \E f \in ftShown[q] : f.as = use /\ There(f))'
      BY <1>1 DEF RunFrames, There, fsVars
    <2>4. QED
      BY <1>2, <1>4, <2>1, <2>2, <2>3 DEF RunFrames
  <1>8. QED
    BY <1>2, <1>3, <1>5, <1>6, <1>7, OneRun

\* A run that looks for its next frame, having added to what it was shown only
\* frames of the video it works on.
LEMMA RunLooks ==
  ASSUME FtInv, NEW q \in FtRuns, NEW from \in {"frames", "object", "scene"},
         NEW to \in {"query", "again", "compare", "done"}, Goes(q, from, to),
         to \in {"again", "compare"} => ftRun[q].tool = "agentic_retrieval",
         UNCHANGED <<ftSaved, ftList, ftWhole, ftAnswer, ftCount>>, UNCHANGED fsVars,
         NEW frames \in SUBSET FrameRefs,
         \A f \in frames : f.video = ftRun[q].video /\ (f.as = "counted" => There(f)),
         frames # {} => ftRun[q].video # "none",
         ftShown' = [ftShown EXCEPT ![q] = @ \cup frames]
  PROVE  FtInv'
  <1>1. FtShapes /\ RunPath(q) /\ RunVideo(q)
    BY DEF FtInv
  <1>2. to \in FtPlaces
    BY DEF FtPlaces
  <1>3. /\ ftRun[q].pc = from /\ ftRun' \in [FtRuns -> RunRecords]
        /\ ftRun'[q].pc = to /\ ftRun'[q].named = ftRun[q].named
        /\ ftRun'[q].tool = ftRun[q].tool /\ ftRun'[q].video = ftRun[q].video
        /\ \A p \in FtRuns \ {q} : ftRun'[p] = ftRun[p]
    BY <1>1, <1>2, RunGoes
  <1>4. /\ ftShown' \in [FtRuns -> SUBSET FrameRefs]
        /\ ftShown'[q] = ftShown[q] \cup frames
        /\ \A p \in FtRuns \ {q} : ftShown'[p] = ftShown[p]
    BY <1>1 DEF FtShapes
  <1>5. /\ ftRun[q].tool # "qwen_agent"
        /\ ftShown[q] = {} \/ ftRun[q].tool = "agentic_retrieval"
        /\ ftAnswer[q] # "text"
    BY <1>1, <1>3 DEF RunPath
  <1>6. RunPath(q)'
    BY <1>3, <1>5 DEF RunPath
  <1>7. RunVideo(q)'
    <2>1. (ftRun[q].tool # "agentic_retrieval" => \A f, g \in ftShown[q] : f.video = g.video)'
      BY <1>3, <1>4, <1>5
    <2>2. ftRun[q].named # "none" => \A f \in frames : f.video = ftRun[q].named
      BY <1>1 DEF RunVideo
    <2>3. QED
      BY <1>1, <1>3, <1>4, <2>1, <2>2 DEF RunVideo
  <1>8. QED
    BY <1>3, <1>4, <1>6, <1>7, RunMoves

LEMMA DescribeKeeps ==
  ASSUME FtInv, NEW q \in FtRuns, Describe(q)
  PROVE  FtInv'
  <1>1. UNCHANGED <<ftSaved, ftList, ftWhole, ftShown, ftCount>> /\ UNCHANGED fsVars
    BY DEF Describe
  <1>2. PICK answers : Answers(q, "look", answers)
    BY DEF Describe
  <1>3. DOMAIN ftCount' = FtRuns
    BY <1>1 DEF FtInv, FtShapes
  <1>4. QED
    BY <1>1, <1>2, <1>3, RunEnds

LEMMA QueryKeeps ==
  ASSUME FtInv, NEW q \in FtRuns, Query(q)
  PROVE  FtInv'
  <1>1. /\ UNCHANGED <<ftSaved, ftList, ftWhole, ftShown, ftCount>> /\ UNCHANGED fsVars
        /\ Answers(q, "query", {"text", "no_comment"})
    BY DEF Query
  <1>2. DOMAIN ftCount' = FtRuns
    BY <1>1 DEF FtInv, FtShapes
  <1>3. QED
    BY <1>1, <1>2, RunEnds

LEMMA CompareKeeps ==
  ASSUME FtInv, NEW q \in FtRuns, Compare(q)
  PROVE  FtInv'
  <1>1. UNCHANGED <<ftSaved, ftList, ftWhole, ftShown>> /\ UNCHANGED fsVars
    BY DEF Compare
  <1>2. PICK answers : Answers(q, "compare", answers)
    BY DEF Compare
  <1>3. DOMAIN ftCount = FtRuns
    BY DEF FtInv, FtShapes
  <1>4. CASE UNCHANGED ftCount
    BY <1>1, <1>2, <1>3, <1>4, RunEnds
  <1>5. CASE /\ {f.as : f \in ftShown[q]} = {"object", "scene"}
             /\ \A f \in ftShown[q] : There(f)
             /\ \E c : ftCount' = [ftCount EXCEPT ![q] = c]
    <2>1. DOMAIN ftCount' = FtRuns /\ \A p \in FtRuns \ {q} : ftCount'[p] = ftCount[p]
      BY <1>3, <1>5
    <2>2. \A use \in {"object", "scene"} : \E f \in ftShown[q] : f.as = use /\ There(f)
      BY <1>5
    <2>3. QED
      BY <1>1, <1>2, <2>1, <2>2, RunEnds
  <1>6. QED
    BY <1>4, <1>5 DEF Compare

\* A tool is called, and is shown at most frames of those the run was listed.
Called(q, t, to, frames) ==
    /\ ftRun' = [ftRun EXCEPT ![q].tool = t, ![q].pc = to]
    /\ to \in {"resolve", "select", "query", "look", "again", "compare"}
    /\ t = "qwen_agent" => to = "select"
    /\ to = "select" => t = "qwen_agent"
    /\ to = "again" => t = "agentic_retrieval"
    /\ to \in {"resolve", "select"} => frames = {} \/ t = "agentic_retrieval"
    /\ ftShown' = [ftShown EXCEPT ![q] = @ \cup frames]
    /\ \A f \in frames : /\ f \in FrameRefs /\ f.as # "counted"
                         /\ \E n \in 1..Len(ftList[q]) : f.video = ftList[q][n].video

LEMMA ToolCalled ==
  ASSUME FtInv, NEW q \in FtRuns, ftRun[q].pc = "ask",
         UNCHANGED <<ftSaved, ftList, ftWhole, ftAnswer, ftCount>>, UNCHANGED fsVars,
         NEW t \in Tools, NEW to, NEW frames, Called(q, t, to, frames)
  PROVE  FtInv'
  <1>1. FtShapes /\ RunPath(q) /\ RunVideo(q) /\ ftRun[q] \in RunRecords
    BY DEF FtInv, FtShapes
  <1>2. ftShown[q] = {} /\ ftAnswer[q] # "text"
    BY <1>1 DEF RunPath
  <1>10. frames \subseteq FrameRefs /\ to \in FtPlaces
    BY DEF Called, FtPlaces
  <1> DEFINE new == [ftRun[q] EXCEPT !.tool = t, !.pc = to]
  <1>3. /\ new \in RunRecords /\ new.pc = to /\ new.named = ftRun[q].named
        /\ new.tool = t /\ new.video = ftRun[q].video
    BY <1>1, <1>10 DEF RunRecords
  <1>4. ftRun' = [ftRun EXCEPT ![q] = new]
    BY DEF Called
  <1> HIDE DEF new
  <1>5. ftRun' \in [FtRuns -> RunRecords] /\ ftRun'[q] = new
        /\ \A p \in FtRuns \ {q} : ftRun'[p] = ftRun[p]
    BY <1>1, <1>3, <1>4 DEF FtShapes
  <1>6. /\ ftShown' \in [FtRuns -> SUBSET FrameRefs]
        /\ ftShown'[q] = frames
        /\ \A p \in FtRuns \ {q} : ftShown'[p] = ftShown[p]
    BY <1>1, <1>2, <1>10 DEF FtShapes, Called
  <1>7. RunPath(q)'
    BY <1>2, <1>3, <1>5, <1>6 DEF RunPath, Called
  <1>8. RunVideo(q)'
    <2>1. \A f, g \in frames : f.video = g.video
      BY <1>1 DEF RunVideo, Called
    <2>2. ftRun[q].named # "none" => \A f \in frames : f.video = ftRun[q].named
      BY <1>1 DEF RunVideo, Called
    <2>3. QED
      BY <1>1, <1>3, <1>5, <1>6, <2>1, <2>2 DEF RunVideo
  <1>11. \A f \in ftShown'[q] \ ftShown[q] : f.as = "counted" => There(f)
    BY <1>6 DEF Called
  <1>9. QED
    BY <1>2, <1>5, <1>6, <1>7, <1>8, <1>11, RunMoves

LEMMA CallToolKeeps ==
  ASSUME FtInv, NEW q \in FtRuns, CallTool(q)
  PROVE  FtInv'
  <1>1. UNCHANGED <<ftSaved, ftList, ftWhole, ftAnswer, ftCount>> /\ UNCHANGED fsVars
        /\ ftRun[q].pc = "ask"
    BY DEF CallTool
  <1>2. FtShapes /\ ftShown \in [FtRuns -> SUBSET FrameRefs]
    BY DEF FtInv, FtShapes
  <1>3. DOMAIN ftList[q] = 1..Len(ftList[q])
        /\ \A i \in 1..Len(ftList[q]) : ftList[q][i] \in FrameRefs
    BY <1>2, RunTypes
  <1>4. PICK t \in Tools :
        \/ /\ t # "count_matches"
           /\ ftRun' = [ftRun EXCEPT ![q].tool = t, ![q].pc =
                CASE t = "qwen_agent" -> "select" [] t = "ask_qwen_vlm" -> "query" [] OTHER -> "resolve"]
           /\ UNCHANGED ftShown
        \/ /\ t = "describe_frame" /\ \E n \in DOMAIN ftList[q] : Shows(q, {ftList[q][n]})
           /\ ftRun' = [ftRun EXCEPT ![q].tool = t, ![q].pc = "look"]
        \/ /\ t \in {"agentic_retrieval", "count_matches"}
           /\ \E uses \in {{"object"}, {"scene"}, {"object", "scene"}} : \E n \in DOMAIN ftList[q] :
               /\ t = "count_matches" => uses = {"object", "scene"}
               /\ Shows(q, {[ftList[q][n] EXCEPT !.as = use] : use \in uses})
               /\ ftRun' = [ftRun EXCEPT ![q].tool = t, ![q].pc =
                     IF "object" \notin uses THEN "resolve"
                     ELSE IF "scene" \notin uses THEN "again" ELSE "compare"]
    BY DEF CallTool
  <1>5. CASE /\ t # "count_matches"
             /\ ftRun' = [ftRun EXCEPT ![q].tool = t, ![q].pc =
                CASE t = "qwen_agent" -> "select" [] t = "ask_qwen_vlm" -> "query" [] OTHER -> "resolve"]
             /\ UNCHANGED ftShown
    <2>1. PICK to \in {"resolve", "select", "query", "look", "again", "compare"} :
            /\ to = CASE t = "qwen_agent" -> "select" [] t = "ask_qwen_vlm" -> "query" [] OTHER -> "resolve"
            /\ (t = "qwen_agent") <=> (to = "select")
            /\ to # "again"
      OBVIOUS
    <2>2. ftShown' = [ftShown EXCEPT ![q] = @ \cup {}]
      BY <1>2, <1>5
    <2>3. ftRun' = [ftRun EXCEPT ![q].tool = t, ![q].pc = to]
      BY <1>5, <2>1
    <2>4. Called(q, t, to, {})
      BY <2>1, <2>2, <2>3 DEF Called
    <2>5. QED
      BY <1>1, <2>4, ToolCalled
  <1>6. CASE /\ t = "describe_frame" /\ \E n \in DOMAIN ftList[q] : Shows(q, {ftList[q][n]})
             /\ ftRun' = [ftRun EXCEPT ![q].tool = t, ![q].pc = "look"]
    <2>1. PICK n \in 1..Len(ftList[q]) : Shows(q, {ftList[q][n]})
      BY <1>3, <1>6
    <2>2. PICK f \in FrameRefs : f = ftList[q][n]
      BY <1>3
    <2>3. f.as = "listed"
      BY <2>2 DEF FtInv, RunVideo
    <2>4. ftShown' = [ftShown EXCEPT ![q] = @ \cup {f}]
      BY <2>1, <2>2 DEF Shows
    <2>5. \A g \in {f} : g.as # "counted" /\ \E i \in 1..Len(ftList[q]) : g.video = ftList[q][i].video
      BY <2>2, <2>3
    <2>6. Called(q, t, "look", {f})
      BY <1>6, <2>4, <2>5 DEF Called
    <2>7. QED
      BY <1>1, <2>6, ToolCalled
  <1>7. CASE /\ t \in {"agentic_retrieval", "count_matches"}
             /\ \E uses \in {{"object"}, {"scene"}, {"object", "scene"}} : \E n \in DOMAIN ftList[q] :
                 /\ t = "count_matches" => uses = {"object", "scene"}
                 /\ Shows(q, {[ftList[q][n] EXCEPT !.as = use] : use \in uses})
                 /\ ftRun' = [ftRun EXCEPT ![q].tool = t, ![q].pc =
                     IF "object" \notin uses THEN "resolve"
                     ELSE IF "scene" \notin uses THEN "again" ELSE "compare"]
    <2>1. PICK uses \in {{"object"}, {"scene"}, {"object", "scene"}}, n \in DOMAIN ftList[q] :
                 /\ t = "count_matches" => uses = {"object", "scene"}
                 /\ Shows(q, {[ftList[q][n] EXCEPT !.as = use] : use \in uses})
                 /\ ftRun' = [ftRun EXCEPT ![q].tool = t, ![q].pc =
                     IF "object" \notin uses THEN "resolve"
                     ELSE IF "scene" \notin uses THEN "again" ELSE "compare"]
      BY <1>7
    <2>11. n \in 1..Len(ftList[q])
      BY <1>3
    <2>2. PICK f \in FrameRefs : f = ftList[q][n]
      BY <1>3, <2>11
    <2>3. PICK frames \in SUBSET FrameRefs :
            /\ frames = {[f EXCEPT !.as = use] : use \in uses}
            /\ \A g \in frames : g.as \in {"object", "scene"} /\ g.video = f.video
      <3>1. \A use \in {"object", "scene"} :
                /\ [f EXCEPT !.as = use] \in FrameRefs
                /\ [f EXCEPT !.as = use].as = use /\ [f EXCEPT !.as = use].video = f.video
        BY DEF FrameRefs, Uses
      <3>2. uses \subseteq {"object", "scene"}
        BY <2>1
      <3>3. /\ {[f EXCEPT !.as = use] : use \in uses} \in SUBSET FrameRefs
            /\ \A g \in {[f EXCEPT !.as = use] : use \in uses} :
                    g.as \in {"object", "scene"} /\ g.video = f.video
        BY <3>1, <3>2
      <3>4. QED
        BY <3>3
    <2>4. ftShown' = [ftShown EXCEPT ![q] = @ \cup frames]
      BY <2>1, <2>2, <2>3 DEF Shows
    <2>5. \A g \in frames : g.as # "counted" /\ \E i \in 1..Len(ftList[q]) : g.video = ftList[q][i].video
      BY <2>11, <2>2, <2>3
    <2>6. PICK to \in {"resolve", "select", "query", "look", "again", "compare"} :
            /\ to = IF "object" \notin uses THEN "resolve"
                    ELSE IF "scene" \notin uses THEN "again" ELSE "compare"
            /\ to # "select" /\ (to \in {"resolve", "again"} => t = "agentic_retrieval")
      BY <1>7, <2>1
    <2>7. ftRun' = [ftRun EXCEPT ![q].tool = t, ![q].pc = to]
      BY <2>1, <2>6
    <2>8. t # "qwen_agent"
      BY <1>7
    <2>9. Called(q, t, to, frames)
      BY <2>4, <2>5, <2>6, <2>7, <2>8 DEF Called
    <2>10. QED
      BY <1>1, <2>9, ToolCalled
  <1>8. QED
    BY <1>4, <1>5, <1>6, <1>7

\* A tool that has looked for its video works on the one the run is about.
LEMMA ResolveVideoKeeps ==
  ASSUME FtInv, NEW q \in FtRuns, ResolveVideo(q)
  PROVE  FtInv'
  <1>1. UNCHANGED <<ftSaved, ftList, ftWhole, ftCount>> /\ UNCHANGED fsVars
        /\ ftRun[q].pc \in {"resolve", "again"}
    BY DEF ResolveVideo
  <1>2. PICK v \in {Resolved(ftRun[q].named), "none"} :
        IF v = "none" /\ ftRun[q].tool \in {"describe_frame", "ask_perplexity"}
        THEN /\ Answers(q, "resolve", {IF ftRun[q].tool = "describe_frame" THEN "text" ELSE "none"})
             /\ UNCHANGED ftShown
        ELSE /\ ftRun' = [ftRun EXCEPT ![q].video = v, ![q].pc =
                  CASE ftRun[q].tool = "describe_frame" -> "look"
                    [] ftRun[q].tool = "ask_perplexity" -> "frames"
                    [] ftRun[q].tool = "get_scene_uri" \/ ftRun[q].pc = "again" -> "scene"
                    [] OTHER -> "object"]
             /\ IF ftRun[q].tool = "describe_frame"
                THEN \E n \in FtNumbers : Shows(q, {FrameRef("named", v, n)})
                ELSE UNCHANGED ftShown
             /\ UNCHANGED ftAnswer
    BY DEF ResolveVideo
  <1>3. FtShapes /\ RunPath(q) /\ RunVideo(q) /\ ftRun[q] \in RunRecords
        /\ ftSaved \in Seq(FsVideos) /\ DOMAIN ftCount = FtRuns
        /\ ftShown \in [FtRuns -> SUBSET FrameRefs]
    BY DEF FtInv, FtShapes
  <1>4. v \in FsVideos \cup {"none"} /\ (ftRun[q].named # "none" => v \in {ftRun[q].named, "none"})
    <2>1. ftRun[q].named \in FsVideos \cup {"none"}
      BY <1>3 DEF RunRecords
    <2>2. QED
      BY <1>3, <2>1, ResolvedFacts
  <1>5. CASE v = "none" /\ ftRun[q].tool \in {"describe_frame", "ask_perplexity"}
    <2>1. PICK answers : Answers(q, "resolve", answers)
      BY <1>2, <1>5
    <2>2. ftShown' = ftShown
      BY <1>2, <1>5
    <2>3. DOMAIN ftCount' = FtRuns
      BY <1>1, <1>3
    <2>4. QED
      BY <1>1, <2>1, <2>2, <2>3, RunEnds
  <1>6. CASE ~(v = "none" /\ ftRun[q].tool \in {"describe_frame", "ask_perplexity"})
    <2>1. PICK to \in {"look", "frames", "scene", "object"} :
            /\ ftRun' = [ftRun EXCEPT ![q].video = v, ![q].pc = to]
            /\ to = "look" => ftRun[q].tool = "describe_frame"
            /\ to = "frames" => v # "none"
            /\ ftRun[q].tool = "describe_frame" => to = "look" /\ v # "none"
      BY <1>2, <1>6
    <2>2. PICK frames \in SUBSET FrameRefs :
            /\ ftShown' = [ftShown EXCEPT ![q] = @ \cup frames]
            /\ \A f \in frames : f.as # "counted" /\ f.video = v /\ v # "none"
            /\ ftRun[q].tool # "describe_frame" => frames = {}
      <3>1. CASE ftRun[q].tool = "describe_frame"
        <4>1. PICK n \in FtNumbers : Shows(q, {FrameRef("named", v, n)})
          BY <1>2, <1>6, <3>1
        <4>2. n \in Nat /\ v \in FsVideos /\ v # "none"
          BY <1>4, <2>1, <3>1, FrameToolsAssumption
        <4>3. {FrameRef("named", v, n)} \in SUBSET FrameRefs
              /\ \A f \in {FrameRef("named", v, n)} : f.as = "named" /\ f.video = v
          BY <4>2 DEF FrameRef, FrameRefs, Uses
        <4>4. QED
          BY <3>1, <4>1, <4>2, <4>3 DEF Shows
      <3>2. CASE ftRun[q].tool # "describe_frame"
        <4>1. ftShown' = ftShown
          BY <1>2, <1>6, <3>2
        <4>2. ftShown' = [ftShown EXCEPT ![q] = @ \cup {}]
          BY <1>3, <4>1
        <4>3. QED
          BY <4>2
      <3>3. QED
        BY <3>1, <3>2
    <2>3. ftAnswer' = ftAnswer
      BY <1>2, <1>6
    <2> DEFINE new == [ftRun[q] EXCEPT !.video = v, !.pc = to]
    <2>4. /\ new \in RunRecords /\ new.pc = to /\ new.named = ftRun[q].named
          /\ new.tool = ftRun[q].tool /\ new.video = v
      BY <1>3, <1>4 DEF RunRecords, FtPlaces
    <2>5. ftRun' = [ftRun EXCEPT ![q] = new]
      BY <2>1
    <2> HIDE DEF new
    <2>6. ftRun' \in [FtRuns -> RunRecords] /\ ftRun'[q] = new
          /\ \A p \in FtRuns \ {q} : ftRun'[p] = ftRun[p]
      BY <1>3, <2>4, <2>5 DEF FtShapes
    <2>7. /\ ftShown' \in [FtRuns -> SUBSET FrameRefs]
          /\ ftShown'[q] = ftShown[q] \cup frames
          /\ \A p \in FtRuns \ {q} : ftShown'[p] = ftShown[p]
      BY <1>3, <2>2
    <2>8. /\ ftRun[q].tool # "qwen_agent" /\ ftAnswer[q] # "text"
          /\ ftShown[q] = {} \/ ftRun[q].tool = "agentic_retrieval"
      BY <1>1, <1>3 DEF RunPath
    <2>9. RunPath(q)'
      <3>1. to # "look" => frames = {}
        BY <2>1, <2>2
      <3>2. QED
        BY <2>1, <2>3, <2>4, <2>6, <2>7, <2>8, <3>1 DEF RunPath
    <2>10. RunVideo(q)'
      <3>1. (ftRun[q].tool # "agentic_retrieval" => \A f, g \in ftShown[q] : f.video = g.video)'
        BY <2>2, <2>4, <2>6, <2>7, <2>8
      <3>2. ftRun[q].named # "none" => \A f \in frames : f.video = ftRun[q].named
        BY <1>4, <2>2
      <3>3. QED
        BY <1>1, <1>3, <1>4, <2>4, <2>6, <2>7, <3>1, <3>2 DEF RunVideo
    <2>11. \A f \in ftShown'[q] \ ftShown[q] : f.as = "counted" => There(f)
      BY <2>2, <2>7
    <2>12. QED
      BY <1>1, <2>3, <2>6, <2>7, <2>9, <2>10, <2>11, RunMoves
  <1>7. QED
    BY <1>5, <1>6

\* ask_perplexity counts the frames of a folder, and takes three of those.
LEMMA PickFramesKeeps ==
  ASSUME FtInv, NEW q \in FtRuns, PickFrames(q)
  PROVE  FtInv'
  <1>1. UNCHANGED <<ftSaved, ftList, ftWhole, ftAnswer, ftCount>> /\ UNCHANGED fsVars
        /\ Goes(q, "frames", "query")
    BY DEF PickFrames
  <1>2. FtShapes /\ FsShapes /\ ftRun[q] \in RunRecords /\ RunPath(q)
    BY DEF FtInv, FsInv, FtShapes
  <1>3. PICK v \in FsVideos : v = ftRun[q].video
    <2>1. ftRun[q].pc = "frames"
      BY <1>1 DEF Goes
    <2>2. ftRun[q].video # "none"
      BY <1>2, <2>1 DEF RunPath
    <2>3. QED
      BY <1>2, <2>2 DEF RunRecords
  <1>4. PICK list \in FtLists \cup {<<>>}, h \in 0..Len(fsBlobs[v]) :
        Shows(q, IF list # <<>> THEN {FrameRef("named", v, n) : n \in ToSet(SubSeq(list, 1, Min({Len(list), FtLimit})))}
                 ELSE IF h > 0 THEN {FrameRef("counted", v, n) : n \in {0, h \div 2, h - 1}}
                 ELSE {FrameRef("guessed", v, n) : n \in 0..(FtLimit - 1)})
    BY <1>3 DEF PickFrames
  <1>5. \A use \in Uses, n \in Nat :
            /\ FrameRef(use, v, n) \in FrameRefs /\ FrameRef(use, v, n).as = use
            /\ FrameRef(use, v, n).video = v /\ FrameRef(use, v, n).frame = n
    BY DEF FrameRef, FrameRefs
  <1>6. "named" \in Uses /\ "counted" \in Uses /\ "guessed" \in Uses
    BY DEF Uses
  <1>7. PICK frames \in SUBSET FrameRefs :
            /\ Shows(q, frames)
            /\ \A f \in frames : f.video = v /\ (f.as = "counted" => There(f))
    <2>1. CASE list # <<>>
      <3>1. ToSet(SubSeq(list, 1, Min({Len(list), FtLimit}))) \subseteq Nat
        <4>8. FtLists \subseteq Seq(Nat) /\ FtLimit \in Nat
          BY FrameToolsAssumption
        <4>9. list \in FtLists
          BY <1>4, <2>1
        <4>1. list \in Seq(Nat) /\ FtLimit \in Nat
          BY <4>8, <4>9
        <4>2. PICK len \in Nat : len = Len(list)
          BY <4>1, LenProperties
        <4>3. PICK m \in Nat : m = Min({Len(list), FtLimit}) /\ m <= len
          BY <4>1, <4>2, SmallerOfTwo
        <4>7. m <= len
          BY <4>3
        <4>4. \A i \in 1..m : list[i] \in Nat
          BY <4>1, <4>2, <4>7, ElementOfSeq
        <4>5. SubSeq(list, 1, m) \in Seq(Nat)
          BY <4>4, SubSeqProperties
        <4>10. PICK seq \in Seq(Nat) : seq = SubSeq(list, 1, m)
          BY <4>5
        <4>11. ToSet(seq) \subseteq Nat
          BY ElementOfSeq, LenProperties DEF ToSet
        <4>12. m = Min({Len(list), FtLimit})
          BY <4>3
        <4>6. QED
          BY <4>10, <4>11, <4>12
      <3> DEFINE frames == {FrameRef("named", v, n) : n \in ToSet(SubSeq(list, 1, Min({Len(list), FtLimit})))}
      <3>2. Shows(q, frames)
        BY <1>4, <2>1
      <3>5. PICK numbers \in SUBSET Nat : numbers = ToSet(SubSeq(list, 1, Min({Len(list), FtLimit})))
        BY <3>1
      <3>6. frames = {FrameRef("named", v, n) : n \in numbers}
        BY <3>5
      <3>3. frames \in SUBSET FrameRefs /\ \A f \in frames : f.video = v /\ f.as = "named"
        <4>1. \A n \in numbers : /\ FrameRef("named", v, n) \in FrameRefs
                                  /\ FrameRef("named", v, n).as = "named"
                                  /\ FrameRef("named", v, n).video = v
          BY <1>5, <1>6
        <4> HIDE DEF frames
        <4>2. QED
          BY <3>6, <4>1
      <3> HIDE DEF frames
      <3>4. QED
        BY <3>2, <3>3
    <2>2. CASE list = <<>> /\ h > 0
      <3>1. fsBlobs[v] \in Seq(Samplings)
        BY <1>2 DEF FsShapes, Folders
      <3>2. PICK m \in Nat : m = Len(fsBlobs[v])
        BY <3>1, LenProperties
      <3>3. h \in Nat \ {0} /\ h <= m
        BY <1>4, <2>2, <3>2
      <3>4. \A n \in {0, h \div 2, h - 1} : n \in Nat /\ n < m
        BY <3>3
      <3> DEFINE frames == {FrameRef("counted", v, n) : n \in {0, h \div 2, h - 1}}
      <3>5. Shows(q, frames)
        BY <1>4, <2>2
      <3>6. frames \in SUBSET FrameRefs
            /\ \A f \in frames : f.video = v /\ f.frame < m
        BY <1>5, <1>6, <3>4
      <3> HIDE DEF frames
      <3>7. QED
        BY <3>2, <3>5, <3>6 DEF There
    <2>3. CASE list = <<>> /\ ~(h > 0)
      <3> DEFINE frames == {FrameRef("guessed", v, n) : n \in 0..(FtLimit - 1)}
      <3>1. Shows(q, frames)
        BY <1>4, <2>3
      <3>2. 0..(FtLimit - 1) \subseteq Nat
        OBVIOUS
      <3>3. frames \in SUBSET FrameRefs /\ \A f \in frames : f.video = v /\ f.as = "guessed"
        BY <1>5, <1>6, <3>2
      <3> HIDE DEF frames
      <3>4. QED
        BY <3>1, <3>3
    <2>4. QED
      BY <2>1, <2>2, <2>3
  <1>8. v # "none"
    BY FsAssumption
  <1>9. ftShown' = [ftShown EXCEPT ![q] = @ \cup frames]
    BY <1>7 DEF Shows
  <1>10. QED
    BY <1>1, <1>3, <1>7, <1>8, <1>9, RunLooks

\* A tool that finds nothing shows nothing.
LEMMA NothingShown ==
  ASSUME FtInv, NEW q \in FtRuns, UNCHANGED ftShown
  PROVE  ftShown' = [ftShown EXCEPT ![q] = @ \cup {}]
  BY DEF FtInv, FtShapes

\* The scene-search agent's citation, or the number it was given.
LEMMA FindObjectKeeps ==
  ASSUME FtInv, NEW q \in FtRuns, FindObject(q)
  PROVE  FtInv'
  <1> DEFINE then == IF ftRun[q].tool # "agentic_retrieval" THEN "done"
                     ELSE IF ftShown[q] = {} THEN "again" ELSE "compare"
  <1>1. UNCHANGED <<ftSaved, ftList, ftWhole, ftCount>> /\ UNCHANGED fsVars
    BY DEF FindObject
  <1>2. PICK after \in {"query", "again", "compare", "done"} :
            after = then /\ (after \in {"again", "compare"} => ftRun[q].tool = "agentic_retrieval")
    OBVIOUS
  <1>3. PICK v \in FsVideos \cup {"none"} : v = ftRun[q].video
    BY DEF FtInv, FtShapes, RunRecords
  <1>4. "object" \in {"frames", "object", "scene"}
    OBVIOUS
  <1>5. \/ Goes(q, "object", after) /\ UNCHANGED <<ftShown, ftAnswer>>
        \/ Answers(q, "object", {"raised"}) /\ UNCHANGED ftShown
        \/ /\ v # "none" /\ Goes(q, "object", after) /\ UNCHANGED ftAnswer
           /\ \E n \in DOMAIN fsIndex :
               There(FrameRef("object", v, n - 1)) /\ Shows(q, {FrameRef("object", v, n - 1)})
        \/ /\ v # "none" /\ after = "done" /\ Goes(q, "object", after) /\ UNCHANGED ftAnswer
           /\ \E n \in FtNumbers \ {0} : Shows(q, {FrameRef("named", v, n)})
    BY <1>2, <1>3 DEF FindObject
  <1> HIDE DEF then
  <1>6. CASE Goes(q, "object", after) /\ UNCHANGED <<ftShown, ftAnswer>>
    <2>1. ftShown' = [ftShown EXCEPT ![q] = @ \cup {}]
      BY <1>6, NothingShown
    <2>2. {} \in SUBSET FrameRefs
      OBVIOUS
    <2>3. QED
      BY <1>1, <1>2, <1>4, <1>6, <2>1, <2>2, RunLooks
  <1>7. CASE Answers(q, "object", {"raised"}) /\ UNCHANGED ftShown
    <2>1. DOMAIN ftCount' = FtRuns
      BY <1>1 DEF FtInv, FtShapes
    <2>2. QED
      BY <1>1, <1>7, <2>1, RunEnds
  <1>8. ASSUME v # "none", Goes(q, "object", after), UNCHANGED ftAnswer,
               NEW use \in {"object", "named"}, NEW n \in Nat, Shows(q, {FrameRef(use, v, n)})
        PROVE  FtInv'
    <2>6. v \in FsVideos /\ use \in Uses /\ use # "counted"
      BY <1>3, <1>8 DEF Uses
    <2>7. /\ FrameRef(use, v, n) \in FrameRefs /\ FrameRef(use, v, n).as = use
          /\ FrameRef(use, v, n).video = v
      BY <2>6 DEF FrameRef, FrameRefs
    <2>1. PICK f \in FrameRefs : f = FrameRef(use, v, n) /\ f.video = v /\ f.as # "counted"
      BY <2>6, <2>7
    <2>2. ftShown' = [ftShown EXCEPT ![q] = @ \cup {f}]
      BY <1>8, <2>1 DEF Shows
    <2>3. {f} \in SUBSET FrameRefs
          /\ \A g \in {f} : g.video = ftRun[q].video /\ (g.as = "counted" => There(g))
      BY <1>3, <2>1
    <2>4. ftRun[q].video # "none"
      BY <1>3, <1>8
    <2>5. QED
      BY <1>1, <1>2, <1>4, <1>8, <2>2, <2>3, <2>4, RunLooks
  <1>9. \A n \in DOMAIN fsIndex : n - 1 \in Nat
    <2>1. DOMAIN fsIndex = 1..Len(fsIndex)
      BY LenProperties DEF FtInv, FsInv, FsShapes
    <2>2. QED
      BY <2>1
  <1>10. FtNumbers \subseteq Nat
    BY FrameToolsAssumption
  <1>11. QED
    BY <1>5, <1>6, <1>7, <1>8, <1>9, <1>10

LEMMA FindSceneKeeps ==
  ASSUME FtInv, NEW q \in FtRuns, FindScene(q)
  PROVE  FtInv'
  <1> DEFINE then == IF ftRun[q].tool = "agentic_retrieval" THEN "compare" ELSE "done"
  <1>1. UNCHANGED <<ftSaved, ftList, ftWhole, ftCount>> /\ UNCHANGED fsVars
    BY DEF FindScene
  <1>2. PICK after \in {"query", "again", "compare", "done"} :
            after = then /\ (after \in {"again", "compare"} => ftRun[q].tool = "agentic_retrieval")
    OBVIOUS
  <1>3. PICK v \in FsVideos \cup {"none"} : v = ftRun[q].video
    BY DEF FtInv, FtShapes, RunRecords
  <1>4. "scene" \in {"frames", "object", "scene"}
    OBVIOUS
  <1>5. \/ Goes(q, "scene", after) /\ UNCHANGED <<ftShown, ftAnswer>>
        \/ Answers(q, "scene", {"raised"}) /\ UNCHANGED ftShown
        \/ /\ v # "none" /\ Goes(q, "scene", after) /\ UNCHANGED ftAnswer
           /\ \E n \in DOMAIN fsIndex : Shows(q, {FrameRef("scene", v, n - 1)})
        \/ /\ v # "none" /\ after = "done" /\ Goes(q, "scene", after) /\ UNCHANGED ftAnswer
           /\ \E n \in FtNumbers \ {0} : Shows(q, {FrameRef("named", v, n)})
    BY <1>2, <1>3 DEF FindScene
  <1> HIDE DEF then
  <1>6. CASE Goes(q, "scene", after) /\ UNCHANGED <<ftShown, ftAnswer>>
    <2>1. ftShown' = [ftShown EXCEPT ![q] = @ \cup {}]
      BY <1>6, NothingShown
    <2>2. {} \in SUBSET FrameRefs
      OBVIOUS
    <2>3. QED
      BY <1>1, <1>2, <1>4, <1>6, <2>1, <2>2, RunLooks
  <1>7. CASE Answers(q, "scene", {"raised"}) /\ UNCHANGED ftShown
    <2>1. DOMAIN ftCount' = FtRuns
      BY <1>1 DEF FtInv, FtShapes
    <2>2. QED
      BY <1>1, <1>7, <2>1, RunEnds
  <1>8. ASSUME v # "none", Goes(q, "scene", after), UNCHANGED ftAnswer,
               NEW use \in {"scene", "named"}, NEW n \in Nat, Shows(q, {FrameRef(use, v, n)})
        PROVE  FtInv'
    <2>6. v \in FsVideos /\ use \in Uses /\ use # "counted"
      BY <1>3, <1>8 DEF Uses
    <2>7. /\ FrameRef(use, v, n) \in FrameRefs /\ FrameRef(use, v, n).as = use
          /\ FrameRef(use, v, n).video = v
      BY <2>6 DEF FrameRef, FrameRefs
    <2>1. PICK f \in FrameRefs : f = FrameRef(use, v, n) /\ f.video = v /\ f.as # "counted"
      BY <2>6, <2>7
    <2>2. ftShown' = [ftShown EXCEPT ![q] = @ \cup {f}]
      BY <1>8, <2>1 DEF Shows
    <2>3. {f} \in SUBSET FrameRefs
          /\ \A g \in {f} : g.video = ftRun[q].video /\ (g.as = "counted" => There(g))
      BY <1>3, <2>1
    <2>4. ftRun[q].video # "none"
      BY <1>3, <1>8
    <2>5. QED
      BY <1>1, <1>2, <1>4, <1>8, <2>2, <2>3, <2>4, RunLooks
  <1>9. \A n \in DOMAIN fsIndex : n - 1 \in Nat
    <2>1. DOMAIN fsIndex = 1..Len(fsIndex)
      BY LenProperties DEF FtInv, FsInv, FsShapes
    <2>2. QED
      BY <2>1
  <1>10. FtNumbers \subseteq Nat
    BY FrameToolsAssumption
  <1>11. QED
    BY <1>5, <1>6, <1>7, <1>8, <1>9, <1>10

\* ask_qwen_agent answers only about a selection it could download whole.
LEMMA AskVisionKeeps ==
  ASSUME FtInv, NEW q \in FtRuns, AskVision(q)
  PROVE  FtInv'
  <1> DEFINE picked == {ftList[q][n] : n \in ToSet(Selection(Len(ftList[q]), FtSelect))}
             answers == IF picked # {} /\ \A f \in picked : There(f) THEN {"none", "text"} ELSE {"none"}
  <1>1. /\ UNCHANGED <<ftSaved, ftList, ftWhole, ftCount>> /\ UNCHANGED fsVars
        /\ Answers(q, "select", answers)
        /\ Shows(q, {[f EXCEPT !.as = "selected"] : f \in picked})
    BY DEF AskVision
  <1>2. FtShapes /\ RunPath(q) /\ RunVideo(q) /\ RunFrames(q)
    BY DEF FtInv
  <1>3. /\ ftRun[q].pc = "select" /\ ftRun' \in [FtRuns -> RunRecords]
        /\ ftRun'[q].pc = "done" /\ ftRun'[q].named = ftRun[q].named
        /\ ftRun'[q].tool = ftRun[q].tool /\ ftRun'[q].video = ftRun[q].video
        /\ \A p \in FtRuns \ {q} : ftRun'[p] = ftRun[p] /\ ftAnswer'[p] = ftAnswer[p]
        /\ ftAnswer'[q] \in answers /\ DOMAIN ftAnswer' = FtRuns
    <2> HIDE DEF answers
    <2>1. QED
      BY <1>1, <1>2, RunAnswers
  <1>4. ftRun[q].tool = "qwen_agent" /\ ftShown[q] = {}
    BY <1>2, <1>3 DEF RunPath
  <1>5. \A f \in picked : /\ f \in FrameRefs
                          /\ \E i \in 1..Len(ftList[q]) : f = ftList[q][i]
    <2>1. Len(ftList[q]) \in Nat /\ \A i \in 1..Len(ftList[q]) : ftList[q][i] \in FrameRefs
      BY <1>2, RunTypes
    <2>2. PICK len \in Nat : len = Len(ftList[q])
      BY <2>1
    <2>3. FtSelect \in Nat \ {0}
      BY FrameToolsAssumption
    <2>4. Selection(len, FtSelect) \in Seq(1..len)
      BY <2>2, <2>3, SelectionFacts
    <2>5. ToSet(Selection(len, FtSelect)) \subseteq 1..len
      BY <2>4, ElementOfSeq, LenProperties DEF ToSet
    <2>6. QED
      BY <2>1, <2>2, <2>5
  <1>6. (ftAnswer'[q] = "text") => \A f \in picked : There(f)
    <2> HIDE DEF picked
    <2>1. QED
      BY <1>3
  <1> HIDE DEF picked, answers
  <1>7. PICK chosen \in SUBSET FrameRefs : chosen = picked
    BY <1>5
  <1>8. \A f \in chosen : /\ [f EXCEPT !.as = "selected"] \in FrameRefs
                          /\ [f EXCEPT !.as = "selected"].as = "selected"
                          /\ [f EXCEPT !.as = "selected"].video = f.video
                          /\ [f EXCEPT !.as = "selected"].frame = f.frame
    BY DEF FrameRefs, Uses
  <1>9. PICK frames \in SUBSET FrameRefs :
            /\ frames = {[f EXCEPT !.as = "selected"] : f \in chosen}
            /\ \A g \in frames : /\ g.as = "selected"
                                 /\ \E f \in chosen : g.video = f.video /\ g.frame = f.frame
    <2> DEFINE copies == {[f EXCEPT !.as = "selected"] : f \in chosen}
    <2>1. copies \in SUBSET FrameRefs
      BY <1>8
    <2>2. ASSUME NEW g \in copies
          PROVE  g.as = "selected" /\ \E f \in chosen : g.video = f.video /\ g.frame = f.frame
      <3>1. PICK f \in chosen : g = [f EXCEPT !.as = "selected"]
        OBVIOUS
      <3>2. QED
        BY <1>8, <3>1
    <2> HIDE DEF copies
    <2>3. copies = {[f EXCEPT !.as = "selected"] : f \in chosen}
      BY DEF copies
    <2>4. QED
      BY <2>1, <2>2, <2>3
  <1>10. Shows(q, frames)
    BY <1>1, <1>7, <1>9
  <1>11. /\ ftShown' \in [FtRuns -> SUBSET FrameRefs] /\ ftShown'[q] = frames
         /\ \A p \in FtRuns \ {q} : ftShown'[p] = ftShown[p]
    <2>1. /\ ftShown' \in [FtRuns -> SUBSET FrameRefs] /\ ftShown'[q] = ftShown[q] \cup frames
          /\ \A p \in FtRuns \ {q} : ftShown'[p] = ftShown[p]
      BY <1>2, <1>10, RunShows
    <2>2. QED
      BY <1>4, <2>1
  <1>12. FtShapes'
    BY <1>1, <1>2, <1>3, <1>11, Zenon DEF FtShapes
  <1>13. RunPath(q)'
    BY <1>3, <1>4 DEF RunPath
  <1>14. RunVideo(q)'
    <2>1. \A f, g \in frames : f.video = g.video
      BY <1>2, <1>5, <1>7, <1>9 DEF RunVideo
    <2>2. ftRun[q].named # "none" => \A f \in frames : f.video = ftRun[q].named
      BY <1>2, <1>5, <1>7, <1>9 DEF RunVideo
    <2>3. QED
      BY <1>1, <1>2, <1>3, <1>11, <2>1, <2>2 DEF RunVideo
  <1>15. RunFrames(q)'
    <2>1. (ftWhole[q] => \A i \in 1..Len(ftList[q]) : There(ftList[q][i]))'
      BY <1>1, <1>2 DEF RunFrames, There, fsVars
    <2>2. (\A f \in ftShown[q] : f.as = "counted" => There(f))'
      BY <1>9, <1>11
    <2>3. ~(ftCount[q] > 0)
      BY <1>2, <1>4 DEF RunFrames
    <2>4. (ftAnswer[q] = "text" => \A f \in ftShown[q] : There(f))'
      <3>1. ASSUME ftAnswer'[q] = "text", NEW g \in ftShown'[q] PROVE There(g)'
        <4>1. PICK f \in chosen : g.video = f.video /\ g.frame = f.frame
          BY <1>9, <1>11, <3>1
        <4>2. There(f)
          BY <1>6, <1>7, <3>1, <4>1
        <4>3. QED
          BY <1>1, <4>1, <4>2 DEF There, fsVars
      <3>2. QED
        BY <3>1
    <2>5. QED
      BY <1>1, <2>1, <2>2, <2>3, <2>4 DEF RunFrames
  <1>16. QED
    BY <1>1, <1>3, <1>11, <1>12, <1>13, <1>14, <1>15, OneRun

LEMMA FtInvStep == FtInv /\ FtNext => FtInv'
  <1> SUFFICES ASSUME FtInv, FtNext PROVE FtInv'
    OBVIOUS
  <1>1. CASE StoreSteps
    <2>1. FsNext /\ UNCHANGED <<ftSaved, ftOwn>>
      BY <1>1 DEF StoreSteps
    <2>2. QED
      BY <2>1, StoreStepsKeep
  <1>2. CASE \E v \in FsVideos : SaveVideo(v)
    BY <1>2, SaveVideoKeeps
  <1>3. ASSUME NEW q \in FtRuns,
               \/ StartAgent(q) \/ ListFrames(q) \/ CallTool(q) \/ ResolveVideo(q) \/ Describe(q)
               \/ PickFrames(q) \/ Query(q) \/ FindObject(q) \/ FindScene(q) \/ Compare(q)
               \/ AskVision(q)
        PROVE  FtInv'
    BY <1>3, StartAgentKeeps, ListFramesKeeps, CallToolKeeps, ResolveVideoKeeps, DescribeKeeps,
       PickFramesKeeps, QueryKeeps, FindObjectKeeps, FindSceneKeeps, CompareKeeps, AskVisionKeeps
  <1>4. QED
    BY <1>1, <1>2, <1>3 DEF FtNext

\* The videos of a set of frames that are all of one video are at most one.
LEMMA AtMostOne ==
  ASSUME NEW S, \A x, y \in S : x = y
  PROVE  Cardinality(S) <= 1
  <1>1. CASE S = {}
    BY <1>1, FS_EmptySet
  <1>2. CASE S # {}
    <2>1. PICK x : S = {x}
      BY <1>2
    <2>2. Cardinality(S) = 1
      BY <2>1, FS_Singleton
    <2>3. QED
      BY <2>2
  <1>3. QED
    BY <1>1, <1>2

LEMMA FtInvSound == FtInv => ToolsHonest
  <1> SUFFICES ASSUME FtInv PROVE ToolsHonest
    OBVIOUS
  <1>1. FramesHonest
    BY FsInvSound DEF FtInv
  <1>2. FtShapes
    BY DEF FtInv
  <1>3. ListedAreThere
    <2>1. \A q \in FtRuns : DOMAIN ftList[q] = 1..Len(ftList[q])
      BY <1>2, RunTypes
    <2>2. QED
      BY <2>1 DEF ListedAreThere, FtInv, RunFrames
  <1>4. OneVideo
    <2>1. SUFFICES ASSUME NEW q \in FtRuns
                   PROVE  LET videos == {f.video : f \in ftShown[q]} IN
                          /\ ftRun[q].named # "none" => videos \subseteq {ftRun[q].named}
                          /\ ftRun[q].tool # "agentic_retrieval" => Cardinality(videos) <= 1
      BY DEF OneVideo
    <2> DEFINE videos == {f.video : f \in ftShown[q]}
    <2>2. ftRun[q].named # "none" => videos \subseteq {ftRun[q].named}
      BY DEF FtInv, RunVideo
    <2>3. ftRun[q].tool # "agentic_retrieval" => \A x, y \in videos : x = y
      BY DEF FtInv, RunVideo
    <2> HIDE DEF videos
    <2>4. ftRun[q].tool # "agentic_retrieval" => Cardinality(videos) <= 1
      BY <2>3, AtMostOne
    <2>5. QED
      BY <2>2, <2>4 DEF videos
  <1>5. SelectionKept
    <2>1. \A q \in FtRuns : ftRun[q].tool = "qwen_agent" /\ ftAnswer[q] = "text" =>
            \A f \in ftShown[q] : There(f)
      BY DEF FtInv, RunFrames
    <2>2. QED
      BY <2>1, SelectionsAreFair DEF SelectionKept
  <1>6. CountedInScene
    BY DEF CountedInScene, FtInv, RunFrames
  <1>7. QED
    BY <1>1, <1>3, <1>4, <1>5, <1>6 DEF ToolsHonest

-----------------------------------------------------------------------------
(***************************************************************************)
(* The corners of a survey                                                 *)
(***************************************************************************)
\* Every corner that is listed was put by a request of the same folder; which
\* one is not said, a later request may have put its own over it.
CoInv ==
    /\ coSaved \in Seq(CoVideos)
    /\ coPc \in [CoRequests -> {"new", "extract", "put", "done", "refused", "failed"}]
    /\ coRow \in [CoRequests -> CoVideos \cup {"0"}]
    /\ coFrom \in [CoRequests -> CoVideos \cup {"none"}]
    /\ coTodo \in [CoRequests -> Seq(Labels)]
    /\ coListed \in [CoRequests -> SUBSET Labels]
    /\ coBlobs \in [CoVideos \cup {"0"} -> [Labels -> CoVideos \cup {"none"}]]
    /\ \A r \in CoRequests :
        /\ coPc[r] = "new" => coFrom[r] = "none" /\ coListed[r] = {}
        /\ coPc[r] \in {"extract", "put"} => coFrom[r] # "none"
        /\ \A l \in coListed[r] : \E s \in CoRequests :
            /\ coRow[s] = coRow[r] /\ coFrom[s] # "none"
            /\ coBlobs[coRow[r]][l] = coFrom[s]

LEMMA CoInvInit == CoInit => CoInv
  BY DEF CoInit, CoInv

\* A row is found or not, and a video is downloaded, before anything is put.
LEMMA AskCornersKeeps ==
  ASSUME CoInv, NEW r \in CoRequests, AskCorners(r)
  PROVE  CoInv'
  <1>1. /\ coPc[r] = "new" /\ coFrom[r] = "none" /\ coListed[r] = {}
        /\ UNCHANGED <<coSaved, coTodo, coListed, coBlobs>>
    BY DEF AskCorners, CoInv
  <1>2. CASE coPc' = [coPc EXCEPT ![r] = "refused"] /\ UNCHANGED <<coRow, coFrom>>
    BY <1>1, <1>2 DEF CoInv
  <1>3. CASE \E row \in CoVideos \cup {"0"}, from \in CoVideos :
                /\ from # "none"
                /\ coPc' = [coPc EXCEPT ![r] = "extract"]
                /\ coRow' = [coRow EXCEPT ![r] = row]
                /\ coFrom' = [coFrom EXCEPT ![r] = from]
    <2>1. PICK row \in CoVideos \cup {"0"}, from \in CoVideos :
                /\ from # "none"
                /\ coPc' = [coPc EXCEPT ![r] = "extract"]
                /\ coRow' = [coRow EXCEPT ![r] = row]
                /\ coFrom' = [coFrom EXCEPT ![r] = from]
      BY <1>3
    <2>2. /\ coPc' \in [CoRequests -> {"new", "extract", "put", "done", "refused", "failed"}]
          /\ coRow' \in [CoRequests -> CoVideos \cup {"0"}]
          /\ coFrom' \in [CoRequests -> CoVideos \cup {"none"}]
      BY <2>1 DEF CoInv
    <2>3. SUFFICES ASSUME NEW q \in CoRequests
                   PROVE  /\ coPc'[q] = "new" => coFrom'[q] = "none" /\ coListed[q] = {}
                          /\ coPc'[q] \in {"extract", "put"} => coFrom'[q] # "none"
                          /\ \A l \in coListed[q] : \E s \in CoRequests :
                              /\ coRow'[s] = coRow'[q] /\ coFrom'[s] # "none"
                              /\ coBlobs[coRow'[q]][l] = coFrom'[s]
      BY <1>1, <2>2 DEF CoInv
    <2>4. CASE q = r
      BY <1>1, <2>1, <2>4 DEF CoInv
    <2>5. CASE q # r
      <3>1. coRow'[q] = coRow[q] /\ coFrom'[q] = coFrom[q] /\ coPc'[q] = coPc[q]
        BY <2>1, <2>5 DEF CoInv
      <3>2. \A s \in CoRequests : coFrom[s] # "none" => s # r /\ coFrom'[s] = coFrom[s] /\ coRow'[s] = coRow[s]
        BY <1>1, <2>1 DEF CoInv
      <3>3. ASSUME NEW l \in coListed[q]
            PROVE  \E s \in CoRequests :
                      /\ coRow'[s] = coRow'[q] /\ coFrom'[s] # "none"
                      /\ coBlobs[coRow'[q]][l] = coFrom'[s]
        <4>1. PICK s \in CoRequests : /\ coRow[s] = coRow[q] /\ coFrom[s] # "none"
                                      /\ coBlobs[coRow[q]][l] = coFrom[s]
          BY DEF CoInv
        <4>2. QED
          BY <3>1, <3>2, <4>1
      <3>4. /\ coPc[q] = "new" => coFrom[q] = "none" /\ coListed[q] = {}
            /\ coPc[q] \in {"extract", "put"} => coFrom[q] # "none"
        BY DEF CoInv
      <3>5. QED
        BY <3>1, <3>3, <3>4
    <2>6. QED
      BY <2>4, <2>5
  <1>4. QED
    <2>1. ASSUME coSaved # <<>> PROVE coSaved[Len(coSaved)] \in CoVideos
      <3>1. Len(coSaved) \in Nat \ {0}
        BY <2>1, EmptySeq DEF CoInv
      <3>2. Len(coSaved) \in 1..Len(coSaved)
        BY <3>1
      <3>3. QED
        BY <3>2, ElementOfSeq DEF CoInv
    <2>2. PICK id \in CoVideos \cup {"none"}, url \in CoVideos \cup {"none"} :
        LET row == IF id # "none" THEN (IF id \in ToSet(coSaved) THEN id ELSE "missing")
                   ELSE IF url # "none" \/ coSaved = <<>> THEN "0"
                   ELSE coSaved[Len(coSaved)]
            from == IF url # "none" THEN url ELSE IF row = "0" THEN "none" ELSE row
        IN  IF row = "missing" \/ from = "none"
            THEN coPc' = [coPc EXCEPT ![r] = "refused"] /\ UNCHANGED <<coRow, coFrom>>
            ELSE /\ coPc' = [coPc EXCEPT ![r] = "extract"]
                 /\ coRow' = [coRow EXCEPT ![r] = row]
                 /\ coFrom' = [coFrom EXCEPT ![r] = from]
      BY DEF AskCorners
    <2> DEFINE row == IF id # "none" THEN (IF id \in ToSet(coSaved) THEN id ELSE "missing")
                      ELSE IF url # "none" \/ coSaved = <<>> THEN "0"
                      ELSE coSaved[Len(coSaved)]
               from == IF url # "none" THEN url ELSE IF row = "0" THEN "none" ELSE row
    <2>3. CASE row = "missing" \/ from = "none"
      BY <1>2, <2>2, <2>3
    <2>4. CASE ~(row = "missing" \/ from = "none")
      <3>1. row \in CoVideos \cup {"0"}
        BY <2>1, <2>4
      <3>2. from \in CoVideos
        BY <2>4, <3>1
      <3>3. QED
        <4> HIDE DEF row, from
        <4>1. /\ coPc' = [coPc EXCEPT ![r] = "extract"]
              /\ coRow' = [coRow EXCEPT ![r] = row]
              /\ coFrom' = [coFrom EXCEPT ![r] = from]
          BY <2>2, <2>4 DEF row, from
        <4>2. QED
          BY <1>3, <2>4, <3>1, <3>2, <4>1
    <2>5. QED
      BY <2>3, <2>4

\* A corner is put over another's, by a request that is about a video.
LEMMA PutCornerKeeps ==
  ASSUME CoInv, NEW r \in CoRequests, PutCorner(r)
  PROVE  CoInv'
  <1>1. CASE coTodo[r] = <<>>
    <2>1. coPc' = [coPc EXCEPT ![r] = "done"] /\ coPc[r] = "put"
          /\ UNCHANGED <<coSaved, coRow, coFrom, coTodo, coListed, coBlobs>>
      BY <1>1 DEF PutCorner
    <2>2. QED
      BY <2>1 DEF CoInv
  <1>2. CASE coTodo[r] # <<>>
    <2>1. PICK label \in Labels : label = Head(coTodo[r])
      BY <1>2, HeadTailProperties DEF CoInv
    <2>2. Tail(coTodo[r]) \in Seq(Labels)
      BY <1>2, HeadTailProperties DEF CoInv
    <2>3. /\ coBlobs' = [coBlobs EXCEPT ![coRow[r]][label] = coFrom[r]]
          /\ coListed' = [coListed EXCEPT ![r] = @ \cup {label}]
          /\ coTodo' = [coTodo EXCEPT ![r] = Tail(@)]
          /\ UNCHANGED <<coPc, coSaved, coRow, coFrom>>
          /\ coFrom[r] # "none" /\ coPc[r] = "put"
      BY <1>2, <2>1 DEF CoInv, PutCorner
    <2>4. /\ coBlobs' \in [CoVideos \cup {"0"} -> [Labels -> CoVideos \cup {"none"}]]
          /\ coTodo' \in [CoRequests -> Seq(Labels)]
          /\ coListed' \in [CoRequests -> SUBSET Labels]
      BY <2>2, <2>3 DEF CoInv
    <2>5. SUFFICES ASSUME NEW q \in CoRequests, NEW l \in coListed'[q]
                   PROVE  \E s \in CoRequests :
                             /\ coRow[s] = coRow[q] /\ coFrom[s] # "none"
                             /\ coBlobs'[coRow[q]][l] = coFrom[s]
      BY <2>3, <2>4 DEF CoInv
    <2>6. CASE coRow[q] = coRow[r] /\ l = label
      BY <2>3, <2>6 DEF CoInv
    <2>7. CASE ~(coRow[q] = coRow[r] /\ l = label)
      <3>1. l \in Labels /\ l \in coListed[q]
        BY <2>3, <2>4, <2>7 DEF CoInv
      <3>2. coBlobs'[coRow[q]][l] = coBlobs[coRow[q]][l]
        BY <2>3, <2>7, <3>1 DEF CoInv
      <3>3. QED
        BY <3>1, <3>2 DEF CoInv
    <2>8. QED
      BY <2>6, <2>7
  <1>3. QED
    BY <1>1, <1>2

LEMMA CoInvStep == CoInv /\ CoNext => CoInv'
  <1> SUFFICES ASSUME CoInv, CoNext PROVE CoInv'
    OBVIOUS
  <1>1. ASSUME NEW v \in CoVideos, SaveRow(v) PROVE CoInv'
    <2>1. coSaved' \in Seq(CoVideos)
      BY <1>1, AppendProperties DEF CoInv, SaveRow
    <2>2. QED
      BY <1>1, <2>1 DEF CoInv, SaveRow
  <1>2. ASSUME NEW r \in CoRequests, ExtractCorners(r) PROVE CoInv'
    <2>1. /\ coPc[r] = "extract" /\ UNCHANGED <<coSaved, coRow, coFrom, coListed, coBlobs>>
          /\ \/ coPc' = [coPc EXCEPT ![r] = "put"]
             \/ coPc' = [coPc EXCEPT ![r] = "failed"]
          /\ coTodo' = coTodo \/ \E readable \in CoReadable : coTodo' = [coTodo EXCEPT ![r] = readable]
      BY <1>2 DEF ExtractCorners
    <2>2. coTodo' \in [CoRequests -> Seq(Labels)]
      <3>1. coTodo \in [CoRequests -> Seq(Labels)]
        BY DEF CoInv
      <3>2. QED
        BY <2>1, <3>1, ReadableAssumption
    <2>3. coPc' \in [CoRequests -> {"new", "extract", "put", "done", "refused", "failed"}]
      BY <2>1 DEF CoInv
    <2>4. \A q \in CoRequests : /\ coPc'[q] = "new" => coPc[q] = "new"
                               /\ coPc'[q] \in {"extract", "put"} => coPc[q] \in {"extract", "put"}
      BY <2>1 DEF CoInv
    <2>5. QED
      BY <2>1, <2>2, <2>3, <2>4 DEF CoInv
  <1>3. ASSUME NEW r \in CoRequests, CornersFail(r) PROVE CoInv'
    BY <1>3 DEF CoInv, CornersFail
  <1>4. QED
    BY <1>1, <1>2, <1>3, AskCornersKeeps, PutCornerKeeps DEF CoNext

LEMMA CoInvStays == CoInv /\ UNCHANGED coVars => CoInv'
  BY DEF CoInv, coVars

LEMMA CoInvSound == CoInv => CornersKept
  BY DEF CoInv, CornersKept

\* Frames and corners are what those who ask for them take them for, whatever
\* is saved, extracted and ingested meanwhile: the frames an agent is listed
\* are in storage, it is shown those of one video only, the Qwen agent answers
\* about frames it was sent, an object is counted only in a scene that is there
\* (FrameStore, FrameTools), and a corner listed was put there (SurveyCorners).
THEOREM ImagesAreSound == Spec => []ImagesSound
  <1>1. Init => FtInv /\ CoInv
    BY FtInvInit, CoInvInit DEF Init
  <1>2. FtInv /\ CoInv /\ [Next]_Everything => FtInv' /\ CoInv'
    <2>1. ASSUME [Next]_Everything
          PROVE  /\ FtNext \/ (FsNext /\ UNCHANGED <<ftSaved, ftOwn>>) \/ UNCHANGED ftVars
                 /\ CoNext \/ UNCHANGED coVars
      BY <2>1 DEF Next, Everything
    <2>2. QED
      BY <2>1, FtInvStep, StoreStepsKeep, FtInvStays, CoInvStep, CoInvStays
  <1>3. FtInv /\ CoInv => ImagesSound
    BY FtInvSound, CoInvSound DEF ImagesSound
  <1>4. QED
    BY <1>1, <1>2, <1>3, PTL DEF Spec
=============================================================================

---------------------------- MODULE FrameRoutines ---------------------------
(***************************************************************************)
(* Routines that analyse one frame at a time (apps/analytics/routines):    *)
(* sampling a video's frames (base.py), detection on overlapping tiles     *)
(* (tiling.py, detection.py), counting in zones (zone_counting.py) and     *)
(* parking spots (parking.py).  Frames are one-dimensional: the two axes   *)
(* are sliced, offset and cropped alike and independently.  The colour     *)
(* detector finds each object in the pixels it is given, with score 1.     *)
(***************************************************************************)
EXTENDS Integers, Sequences, FiniteSets, SequencesExt

CONSTANTS
    FrWidth,   \* width of a frame
    FrFrames,  \* bound: frames of the video
    FrScenes,  \* what a frame can show: sets of objects [at, size]
    FrMinArea, \* min_area of the detector
    FrPlans,   \* [routine, step, max]; max >= 1, as the request's serializer asks
    FrTilings, \* [tile, overlap (quarters of a tile)]
    FrZones,   \* lists of zones [name, from, to]
    FrSpots    \* lists of parking spots [at, size]; a spot may begin before 0

ASSUME FrAssumption ==
    /\ FrWidth \in Nat \ {0} /\ FrFrames \in Nat
    /\ \A p \in FrPlans : p.step >= 1 /\ p.max >= 1
    /\ \A t \in FrTilings : t.tile >= 1 /\ t.overlap \in 0..3

VARIABLES frPlan, frTiling,
          frPc,     \* "read", "tiles", "zones", "parking" or "end"
          frIndex,  \* frames read
          frYields, \* indices of the frames handed to the routine
          frScene,  \* the objects of the last of them
          frTiles,  \* offsets of the tiles still to be shown to the detector
          frBoxes,  \* boxes collected, in frame coordinates
          frResult, \* the detections of the frame
          frAsked,  \* the zones or spots of the request
          frCounts  \* per zone name its count, or the spots' occupancy

frVars == <<frPlan, frTiling, frPc, frIndex, frYields, frScene, frTiles, frBoxes,
            frResult, frAsked, frCounts>>

MinOf(a, b) == IF a < b THEN a ELSE b
MaxOf(a, b) == IF a > b THEN a ELSE b

(***************************************************************************)
(* Tiles                                                                   *)
(***************************************************************************)

\* slice_frame: offsets one step apart, until a tile reaches the edge; that
\* one is moved back into the frame.
SliceStarts(width, tiling) ==
    LET step == MaxOf(1, (tiling.tile * (4 - tiling.overlap)) \div 4)
        AtEdge(k) == k * step + tiling.tile >= width
                   /\ \A j \in 0..k - 1 : j * step + tiling.tile < width
        n == CHOOSE k \in 0..width : AtEdge(k)
    IN  [k \in 1..n + 1 |-> MinOf((k - 1) * step, MaxOf(0, width - tiling.tile))]

\* The part of an object within a stretch of the frame.
Clip(o, at, size) ==
    LET from == MaxOf(o.at, at)
        to == MinOf(o.at + o.size, at + size)
    IN  [at |-> from, size |-> MaxOf(0, to - from)]

\* detect_by_color on a tile, offset to the frame: of every object what the
\* tile shows of it, the large ones first, those below min_area left out.
Detected(scene, at, size) ==
    SetToSortSeq({b \in {Clip(o, at, size) : o \in scene} : b.size >= FrMinArea},
                 LAMBDA a, b : a.size > b.size \/ (a.size = b.size /\ a.at < b.at))

\* _iou against iou_threshold = 0.45.
SameBox(a, b) ==
    LET inter == Clip(a, b.at, b.size).size
    IN  20 * inter >= 9 * (a.size + b.size - inter)

\* non_max_suppression: a box is kept unless it is like one kept before it.
Suppressed(boxes) ==
    FoldSeq(LAMBDA b, kept : IF \E n \in DOMAIN kept : SameBox(b, kept[n])
                             THEN kept ELSE Append(kept, b), <<>>, Reverse(boxes))

(***************************************************************************)
(* Zones and spots                                                         *)
(***************************************************************************)
\* count_in_zones: an object counts in each zone that holds its centre, which
\* is not on the zone's border; zones of one name share a count.
InZone(o, zone) == 2 * zone.from < 2 * o.at + o.size /\ 2 * o.at + o.size < 2 * zone.to
CountInZones(scene, zones) ==
    [name \in {zones[z].name : z \in DOMAIN zones} |->
        Cardinality({pair \in scene \X DOMAIN zones :
                        zones[pair[2]].name = name /\ InZone(pair[1], zones[pair[2]])})]

\* spot_features crops gray[max(x, 0):x + w]; an end below zero counts from
\* the far edge.
Crop(spot) ==
    LET end == spot.at + spot.size
        to == IF end < 0 THEN MaxOf(0, FrWidth + end) ELSE MinOf(end, FrWidth)
    IN  [at |-> MaxOf(spot.at, 0), size |-> MaxOf(0, to - MaxOf(spot.at, 0))]
\* classify_spots without a classifier: enough edges in the crop.
Occupied(scene, spot) ==
    \E o \in scene : Clip(o, Crop(spot).at, Crop(spot).size).size > 0

(***************************************************************************)
(* A video, frame by frame                                                 *)
(***************************************************************************)
FrInit ==
    /\ frPlan \in FrPlans /\ frTiling \in FrTilings
    /\ frAsked \in (CASE frPlan.routine = "zones" -> FrZones
                      [] frPlan.routine = "parking" -> FrSpots
                      [] OTHER -> {<<>>})
    /\ frPc = "read" /\ frIndex = 0 /\ frYields = <<>>
    /\ frScene = {} /\ frTiles = <<>> /\ frBoxes = <<>> /\ frResult = <<>>
    /\ frCounts = <<>>

\* iter_frames reads a frame and hands it out when it is one of every step.
ReadFrame ==
    /\ frPc = "read" /\ frIndex < FrFrames
    /\ IF frIndex % frPlan.step = 0
       THEN \E scene \in FrScenes :
               /\ frScene' = scene
               /\ frYields' = Append(frYields, frIndex)
               /\ frPc' = frPlan.routine
               /\ frTiles' = IF frPlan.routine = "tiles" THEN SliceStarts(FrWidth, frTiling)
                             ELSE <<>>
               /\ frBoxes' = <<>> /\ frResult' = <<>> /\ frCounts' = <<>>
               /\ UNCHANGED frIndex
       ELSE /\ frIndex' = frIndex + 1
            /\ UNCHANGED <<frPc, frYields, frScene, frTiles, frBoxes, frResult, frCounts>>
    /\ UNCHANGED <<frPlan, frTiling, frAsked>>

\* The video is over, or a frame of it cannot be read.
NoMoreFrames ==
    /\ frPc = "read" /\ frPc' = "end"
    /\ UNCHANGED <<frPlan, frTiling, frIndex, frYields, frScene, frTiles, frBoxes,
                   frResult, frAsked, frCounts>>

\* Back in iter_frames, which stops when it has handed out enough.
NextFrame ==
    IF Len(frYields) >= frPlan.max THEN frPc' = "end" /\ UNCHANGED frIndex
    ELSE frPc' = "read" /\ frIndex' = frIndex + 1

\* sliced_detection: the detector looks at one tile.
DetectTile ==
    /\ frPc = "tiles" /\ frTiles # <<>>
    /\ frBoxes' = frBoxes \o Detected(frScene, Head(frTiles), MinOf(frTiling.tile, FrWidth))
    /\ frTiles' = Tail(frTiles)
    /\ UNCHANGED <<frPlan, frTiling, frPc, frIndex, frYields, frScene, frResult,
                   frAsked, frCounts>>

\* merge_tile_detections
MergeTiles ==
    /\ frPc = "tiles" /\ frTiles = <<>>
    /\ frResult' = Suppressed(frBoxes)
    /\ frBoxes' = <<>>
    /\ NextFrame
    /\ UNCHANGED <<frPlan, frTiling, frYields, frScene, frTiles, frAsked, frCounts>>

\* zone_counting with its own detections; without zones it raises, which the
\* frame's entry records.
CountZones ==
    /\ frPc = "zones"
    /\ frCounts' = CountInZones(frScene, frAsked)
    /\ NextFrame
    /\ UNCHANGED <<frPlan, frTiling, frYields, frScene, frTiles, frBoxes, frResult, frAsked>>

\* parking_occupancy
ClassifySpots ==
    /\ frPc = "parking"
    /\ frCounts' = [s \in DOMAIN frAsked |-> IF Occupied(frScene, frAsked[s]) THEN 1 ELSE 0]
    /\ NextFrame
    /\ UNCHANGED <<frPlan, frTiling, frYields, frScene, frTiles, frBoxes, frResult, frAsked>>

FrNext ==
    \/ ReadFrame \/ NoMoreFrames \/ DetectTile \/ MergeTiles \/ CountZones \/ ClassifySpots
FrSpec == FrInit /\ [][FrNext]_frVars
-----------------------------------------------------------------------------
FrTypeOK ==
    /\ frPc \in {"read", "tiles", "zones", "parking", "end"}
    /\ frIndex \in 0..FrFrames /\ Len(frYields) <= FrFrames
    /\ frScene \in FrScenes \cup {{}}
    /\ Range(frTiles) \subseteq 0..FrWidth
    /\ Range(frResult) \subseteq [at : 0..FrWidth, size : 1..FrWidth]

Merged == frPlan.routine = "tiles" /\ frPc \in {"read", "end"}

\* What the tiles make of a frame: each reported box is part of one object and
\* like no other; an object that no tile cuts is reported once, at its place;
\* and one that any tile shows enough of is reported.
TilesReport ==
    Merged =>
        /\ \A n \in DOMAIN frResult :
               /\ \E o \in frScene : Clip(o, frResult[n].at, frResult[n].size) = frResult[n]
               /\ \A m \in DOMAIN frResult : m # n => ~SameBox(frResult[m], frResult[n])
        /\ LET starts == SliceStarts(FrWidth, frTiling)
               Shown(o) == {Clip(o, starts[k], frTiling.tile) : k \in DOMAIN starts}
           IN  \A o \in frScene :
                   /\ (\E c \in Shown(o) : c.size >= FrMinArea) =>
                          \E n \in DOMAIN frResult :
                              Clip(o, frResult[n].at, frResult[n].size) = frResult[n]
                   /\ o.size >= FrMinArea /\ (\A c \in Shown(o) : c = o \/ c.size = 0) =>
                          Cardinality({n \in DOMAIN frResult : frResult[n] = o}) = 1

\* The tiles lie in the frame, none is shown twice, and every object no longer
\* than the overlap is whole in one of them, wherever it is.
TilesHoldObjects ==
    LET starts == SliceStarts(FrWidth, frTiling)
        step == MaxOf(1, (frTiling.tile * (4 - frTiling.overlap)) \div 4)
    IN  /\ \A k \in DOMAIN starts :
               /\ starts[k] + MinOf(frTiling.tile, FrWidth) <= FrWidth
               /\ k > 1 => starts[k - 1] < starts[k]
        /\ \A x \in 0..FrWidth - 1 : \A size \in 1..MaxOf(1, frTiling.tile - step) :
               x + size <= FrWidth =>
                   \E k \in DOMAIN starts :
                       starts[k] <= x /\ x + size <= starts[k] + frTiling.tile

\* A routine gets every step-th frame from the first on, up to the maximum
\* and as far as the video could be read.
SampledAsAsked ==
    /\ \A n \in DOMAIN frYields : frYields[n] = (n - 1) * frPlan.step
    /\ frPc = "end" =>
           Len(frYields) = MinOf(frPlan.max, (frIndex + frPlan.step - 1) \div frPlan.step)
           \/ Len(frYields) = frPlan.max

\* No object is counted in two zones that do not meet, and none that is there
\* makes a spot taken in which it is not, for spots that end within the frame.
CountsTrue ==
    /\ frPlan.routine = "zones" /\ frCounts # <<>> =>
           LET apart == \A y, z \in DOMAIN frAsked : y < z =>
                            frAsked[y].to <= frAsked[z].from
           IN  apart => FoldFunction(LAMBDA n, sum : n + sum, 0, frCounts) <= Cardinality(frScene)
    /\ frPlan.routine = "parking" /\ frCounts # <<>> =>
           \A s \in DOMAIN frAsked : frAsked[s].at + frAsked[s].size >= 0 =>
               (frCounts[s] = 1 <=>
                   \E o \in frScene : Clip(o, frAsked[s].at, frAsked[s].size).size > 0)

\* What a routine says of a frame is in the frame.
FramesSound == TilesReport /\ TilesHoldObjects /\ SampledAsAsked /\ CountsTrue
=============================================================================

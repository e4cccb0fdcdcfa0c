---------------------------- MODULE TileDetector ----------------------------
(***************************************************************************)
(* The ONNX detector of custom_model, as the threads of a server use the   *)
(* one instance get_custom_detector caches, and the tiling, scaling and    *)
(* merging that TorchAdapter shares with it.  Horizontal and vertical      *)
(* coordinates are treated alike and independently, so frames, tiles and   *)
(* boxes are one-dimensional here.  The neural network is external: of     *)
(* every object that reaches into the region it is shown it sees the part  *)
(* inside, with any score, so that a tile that cuts an object answers a    *)
(* fragment of it.                                                         *)
(***************************************************************************)
EXTENDS Integers, FiniteSets, Sequences, SequencesExt

CONSTANTS
    DtThreads,   \* threads that call infer on the one detector
    DtFrames,    \* widths of the frames
    DtScenes,    \* what may be in a frame: sets of objects [at, size, label]
    DtLabels,    \* the labels of label_map
    DtScores,    \* scores the network gives
    DtThreshold, \* score_threshold
    DtConfigs,   \* [tile, overlap (quarters of a tile), space]; tile 0: none
    DtInput,     \* input_size: the width of the model's input
    DtUnit       \* parts a pixel is divided into; the width of every region
                 \* divides it, so that scaling a box is exact

ASSUME DtAssumption ==
    /\ DtInput \in Nat \ {0} /\ DtUnit \in Nat \ {0}
    /\ \A w \in DtFrames : w \in Nat \ {0} /\ \A size \in 1..w : DtUnit % size = 0
    /\ \A c \in DtConfigs : c.tile \in Nat /\ c.overlap \in Nat
    /\ DtScores \subseteq Nat
    /\ \A scene \in DtScenes : IsFiniteSet(scene) /\ \A o \in scene :
          o.at \in Nat /\ o.size \in Nat \ {0}

VARIABLES
    dtConfig, \* the ModelConfig
    dtShape,  \* _orig_shape of the detector; 0: no frame seen
    dtFrame,  \* thread -> width of its frame; 0: none, or its infer raised
    dtScene,  \* thread -> the objects of its frame
    dtTodo,   \* thread -> regions still to be shown to the model
    dtFound,  \* thread -> all_dets: the detections, in the order they came
    dtLeft,   \* thread -> places in dtFound that are still to be merged
    dtKept,   \* thread -> places in dtFound that are reported
    dtUsed,   \* thread -> width its boxes were scaled to; 0: none yet
    dtSince   \* thread -> widths preprocessed since its infer began

dtVars == <<dtConfig, dtShape, dtFrame, dtScene, dtTodo, dtFound, dtLeft, dtKept,
            dtUsed, dtSince>>

Inside(box, region) ==
    region.at <= box.at /\ box.at + box.size <= region.at + region.size

Larger(a, b) == IF a > b THEN a ELSE b
Smaller(a, b) == IF a < b THEN a ELSE b
TileStep(tile, overlap) == Larger(1, (tile * (4 - overlap)) \div 4)

\* The part of an object inside a region it reaches into.
Meets(o, region) == o.at < region.at + region.size /\ region.at < o.at + o.size
Part(o, region) ==
    LET from == Larger(o.at, region.at)
        to == Smaller(o.at + o.size, region.at + region.size)
    IN [at |-> from, size |-> to - from]

\* _generate_tiles: range(0, max(1, width - 1), step), cut at the edge.
Regions(width) ==
    LET tile == dtConfig.tile
        starts == {x \in 0..Larger(1, width - 1) - 1 :
                      x % TileStep(tile, dtConfig.overlap) = 0}
    IN IF tile = 0 THEN {[at |-> 0, size |-> width]}
       ELSE {[at |-> x, size |-> Smaller(tile, width - x)] : x \in starts}

\* What the model answers for a box of the region it was shown, in parts of a
\* pixel of its input or of the unit interval.
Raw(box, region) ==
    LET Into(x) == ((x - region.at) * DtUnit * (IF dtConfig.space = "pixels"
                                                THEN DtInput ELSE 1)) \div region.size
    IN <<Into(box.at), Into(box.at + box.size)>>

\* _scale_box: coordinates of at most 1.5 are taken for normalised ones.
ScaleBox(raw, region) ==
    LET unit == IF 2 * Larger(raw[1], raw[2]) <= 3 * DtUnit THEN DtUnit ELSE DtUnit * DtInput
        Out(x) == region.at + (x * region.size) \div unit
    IN [at |-> Out(raw[1]), size |-> Out(raw[2]) - Out(raw[1])]

\* _iou of two boxes against iou_threshold = 0.5, and the boxes _nms takes for
\* one object.
SameObject(a, b) ==
    LET inter == Smaller(a.at + a.size, b.at + b.size) - Larger(a.at, b.at)
    IN inter > 0 /\ 2 * inter >= a.size + b.size - inter
Like(a, b) == a.label = b.label /\ SameObject(a, b)

\* A detection of postprocess, with the part of an object and the region it
\* comes from.
Detection(o, score, region, onto) ==
    LET part == Part(o, region)
        box == ScaleBox(Raw(part, region), onto)
    IN [label |-> o.label, score |-> score, at |-> box.at, size |-> box.size,
        part |-> part, region |-> region]

DtInit ==
    /\ dtConfig \in DtConfigs /\ dtShape = 0
    /\ dtFrame = [p \in DtThreads |-> 0] /\ dtScene = [p \in DtThreads |-> {}]
    /\ dtTodo = [p \in DtThreads |-> {}] /\ dtFound = [p \in DtThreads |-> <<>>]
    /\ dtLeft = [p \in DtThreads |-> {}] /\ dtKept = [p \in DtThreads |-> {}]
    /\ dtUsed = [p \in DtThreads |-> 0] /\ dtSince = [p \in DtThreads |-> {}]

\* Where infer has neither a region nor a detection left to look at.
Returned(p) == dtTodo[p] = {} /\ dtLeft[p] = {}

\* infer, up to preprocess: the frame's shape is stored in the detector and
\* its regions are listed.
Preprocess(p) ==
    /\ Returned(p)
    /\ \E width \in DtFrames, scene \in DtScenes :
          /\ \A o \in scene : o.at + o.size <= width
          /\ dtShape' = width
          /\ dtFrame' = [dtFrame EXCEPT ![p] = width]
          /\ dtScene' = [dtScene EXCEPT ![p] = scene]
          /\ dtTodo' = [dtTodo EXCEPT ![p] = Regions(width)]
          /\ dtSince' = [q \in DtThreads |-> IF q = p THEN {width} ELSE dtSince[q] \cup {width}]
    /\ dtFound' = [dtFound EXCEPT ![p] = <<>>]
    /\ dtKept' = [dtKept EXCEPT ![p] = {}]
    /\ dtUsed' = [dtUsed EXCEPT ![p] = 0]
    /\ UNCHANGED <<dtConfig, dtLeft>>

\* The model runs on the next region and postprocess scales the boxes that
\* reach the threshold: with the tile's metadata, or with the shape the
\* detector holds now.  Without tiles they are the answer.
RunRegion(p) ==
    /\ \E region \in dtTodo[p] :
          LET shown == {o \in dtScene[p] : Meets(o, region)}
              onto == IF dtConfig.tile = 0 THEN [at |-> 0, size |-> dtShape] ELSE region
          IN /\ \A r \in dtTodo[p] : region.at <= r.at
             /\ \E score \in [shown -> DtScores] :
                   LET seen == {o \in shown : score[o] >= DtThreshold}
                       found == dtFound[p] \o
                                SetToSeq({Detection(o, score[o], region, onto) : o \in seen})
                   IN /\ \A o \in seen : o.label \in DtLabels
                      /\ dtFound' = [dtFound EXCEPT ![p] = found]
                      /\ dtLeft' = [dtLeft EXCEPT ![p] =
                                        IF dtConfig.tile = 0 THEN {} ELSE DOMAIN found]
                      /\ dtKept' = [dtKept EXCEPT ![p] =
                                        IF dtConfig.tile = 0 THEN DOMAIN found ELSE {}]
             /\ dtTodo' = [dtTodo EXCEPT ![p] = @ \ {region}]
    /\ dtUsed' = [dtUsed EXCEPT ![p] = IF dtConfig.tile = 0 THEN dtShape ELSE dtFrame[p]]
    /\ UNCHANGED <<dtConfig, dtShape, dtFrame, dtScene, dtSince>>

\* session.run fails, its output has no layout postprocess reads, or a box has
\* a class the label map lacks: infer raises and what it found is gone.
InferRaises(p) ==
    /\ dtTodo[p] # {}
    /\ dtFrame' = [dtFrame EXCEPT ![p] = 0] /\ dtScene' = [dtScene EXCEPT ![p] = {}]
    /\ dtTodo' = [dtTodo EXCEPT ![p] = {}] /\ dtFound' = [dtFound EXCEPT ![p] = <<>>]
    /\ dtLeft' = [dtLeft EXCEPT ![p] = {}] /\ dtUsed' = [dtUsed EXCEPT ![p] = 0]
    /\ UNCHANGED <<dtConfig, dtShape, dtKept, dtSince>>

\* Variant of NextBest: the detections are not sorted.
NextFound(found, left) == {n \in left : \A m \in left : n <= m}

\* _nms looks at the best detection next, of equals at the one found first.
NextBest(found, left) ==
    {n \in left : \A m \in left :
        \/ found[m].score < found[n].score
        \/ found[m].score = found[n].score /\ n <= m}

\* One round of _nms, after the last tile: a detection is kept unless it is
\* like one that was kept before it.
Merge(p) ==
    /\ dtTodo[p] = {}
    /\ \E n \in NextBest(dtFound[p], dtLeft[p]) :
          /\ dtLeft' = [dtLeft EXCEPT ![p] = @ \ {n}]
          /\ dtKept' = [dtKept EXCEPT ![p] =
                IF \E m \in @ : Like(dtFound[p][n], dtFound[p][m]) THEN @ ELSE @ \cup {n}]
    /\ UNCHANGED <<dtConfig, dtShape, dtFrame, dtScene, dtTodo, dtFound, dtUsed, dtSince>>

DtNext == \E p \in DtThreads : Preprocess(p) \/ RunRegion(p) \/ InferRaises(p) \/ Merge(p)
DtSpec == DtInit /\ [][DtNext]_dtVars
-----------------------------------------------------------------------------
DtTypeOK ==
    /\ dtConfig \in DtConfigs /\ dtShape \in DtFrames \cup {0}
    /\ dtFrame \in [DtThreads -> DtFrames \cup {0}]
    /\ \A p \in DtThreads :
          /\ dtScene[p] \in DtScenes \cup {{}}
          /\ dtTodo[p] \subseteq Regions(dtFrame[p])
          /\ dtLeft[p] \cup dtKept[p] \subseteq DOMAIN dtFound[p]
          /\ dtUsed[p] \in DtFrames \cup {0} /\ dtSince[p] \subseteq DtFrames

\* The tiles of a frame cover it, when they overlap at all.
TilesCover ==
    dtConfig.tile > TileStep(dtConfig.tile, dtConfig.overlap) =>
        \A p \in DtThreads : dtFrame[p] > 0 =>
            \A x \in 0..dtFrame[p] - 1 :
                \E r \in Regions(dtFrame[p]) : Inside([at |-> x, size |-> 1], r)

\* A box in input pixels that ends within 1.5 of them is misread.
Misread(box, region) ==
    dtConfig.space = "pixels" /\ 2 * Raw(box, region)[2] <= 3 * DtUnit

\* A detection is where the model saw what it detected, when its box was
\* scaled to the own frame and not misread.
Placed(d) == d.at = d.part.at /\ d.size = d.part.size
FoundWhereSeen ==
    \A p \in DtThreads : dtUsed[p] = dtFrame[p] =>
        \A n \in DOMAIN dtFound[p] :
            Misread(dtFound[p][n].part, dtFound[p][n].region) \/ Placed(dtFound[p][n])

\* When infer returns, every detection is reported or gave way to one that is,
\* of the same label, at the same place and no less certain; and no two
\* detections that tiling reports are alike.
MergeKeepsTheBest ==
    \A p \in DtThreads : Returned(p) =>
        LET found == dtFound[p]
        IN /\ \A n \in DOMAIN found \ dtKept[p] : \E m \in dtKept[p] :
                  Like(found[n], found[m]) /\ found[n].score <= found[m].score
           /\ dtConfig.tile # 0 =>
                  \A m, n \in dtKept[p] : m # n => ~Like(found[m], found[n])

\* An object that tiles showed whole is reported once and where it is, however
\* many tiles showed it - unless a fragment or another object of its label
\* is taken for it.
ObjectReportedOnce ==
    \A p \in DtThreads : Returned(p) /\ dtConfig.tile # 0 =>
        LET found == dtFound[p]
            Whole(d, o) == d.label = o.label /\ d.part = [at |-> o.at, size |-> o.size]
        IN \A o \in dtScene[p] :
              /\ \E n \in DOMAIN found : Whole(found[n], o)
              /\ \A n \in DOMAIN found : ~Misread(found[n].part, found[n].region)
              /\ \A n \in DOMAIN found : Like(found[n], o) => Whole(found[n], o)
              => Cardinality({n \in dtKept[p] : /\ found[n].label = o.label
                                                /\ found[n].at = o.at
                                                /\ found[n].size = o.size}) = 1

\* Boxes are scaled to the own frame or to one another thread brought while
\* this infer ran, never to an older one.
ScaleIsRecent ==
    \A p \in DtThreads : dtUsed[p] # 0 => dtUsed[p] \in dtSince[p]

\* Tiling, scaling and the detector that threads share do not lose, double or
\* misplace what the model sees, fragments of objects included.
DetectorReports ==
    TilesCover /\ FoundWhereSeen /\ MergeKeepsTheBest /\ ObjectReportedOnce /\ ScaleIsRecent
=============================================================================

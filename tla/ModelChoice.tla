---------------------------- MODULE ModelChoice -----------------------------
(***************************************************************************)
(* custom_models: from a query or a file to a detector that can infer.     *)
(* ModelSelector scores the catalog against the query, discover_model      *)
(* guesses the format of a file, get_detector builds the adapter of the    *)
(* format, and the adapter loads the artifact and its labels.              *)
(***************************************************************************)
EXTENDS Naturals, FiniteSets, Sequences, SequencesExt

CONSTANTS
    CcCatalog, \* the specs in the order of their ids: sets of classes, task,
               \* altitude, whether they want tiles, format, labels
    CcQueries  \* queries: sets of classes, task, altitude and size, "" for none

ASSUME CcAssumption ==
    /\ CcCatalog \in Seq(Range(CcCatalog)) /\ CcCatalog # <<>>
    /\ \A q \in CcQueries : q # <<>> /\ IsFiniteSet(q.classes)

VARIABLES
    ccQuery,  \* the query, or <<>> for a model given by its path
    ccSpec,   \* the ModelSpec at hand, or <<>>
    ccFiles,  \* which of the model's files exist: "artifact", "labels"
    ccStage   \* "new", "built", "loaded", "failed" or "closed"

ccVars == <<ccQuery, ccSpec, ccFiles, ccStage>>

Extensions == {"onnx", "pt", "pth", "torchscript", "engine"}
CatalogSpecs == Range(CcCatalog)
Unasked == ""

\* Variant of Score: the classes weigh as little as the resolution.
ScoreLight(spec, q) ==
    LET n == IF q.classes = {} THEN 1 ELSE Cardinality(q.classes)
    IN 4 * Cardinality(q.classes \cap spec.classes)
        + (IF q.task # Unasked /\ spec.task = q.task THEN 6 * n ELSE 0)
        + (IF q.altitude # Unasked /\ spec.altitude \in {q.altitude, "any"} THEN 4 * n ELSE 0)
        + (IF q.size = "large" /\ spec.tiles THEN 4 * n
           ELSE IF q.size = "small" /\ ~spec.tiles THEN n ELSE 0)

\* _score, in parts of 4 n where n is the number of the requested classes:
\* 3 for the share of them the model knows, 1.5 for the task, 1 for the
\* altitude, 1 or 0.25 for the tiling the resolution asks for.
Score(spec, q) ==
    LET n == IF q.classes = {} THEN 1 ELSE Cardinality(q.classes)
    IN 12 * Cardinality(q.classes \cap spec.classes)
        + (IF q.task # Unasked /\ spec.task = q.task THEN 6 * n ELSE 0)
        + (IF q.altitude # Unasked /\ spec.altitude \in {q.altitude, "any"} THEN 4 * n ELSE 0)
        + (IF q.size = "large" /\ spec.tiles THEN 4 * n
           ELSE IF q.size = "small" /\ ~spec.tiles THEN n ELSE 0)

\* rank and select: the best score, among equals the first id.
Best(q) ==
    CcCatalog[CHOOSE n \in DOMAIN CcCatalog :
        \A m \in DOMAIN CcCatalog :
            LET mine == Score(CcCatalog[n], q)
                other == Score(CcCatalog[m], q)
            IN mine > other \/ (mine = other /\ n <= m)]

\* Variant of FormatOf: the extension is the format.
FormatNamed(extension, yolo) == IF yolo THEN "yolo" ELSE extension

\* discover_model: the extension says the format, "yolo" in the name overrides.
FormatOf(extension, yolo) ==
    IF yolo THEN "yolo"
    ELSE IF extension \in {"onnx", "engine"} THEN "onnx" ELSE "torch"

CcInit ==
    /\ ccQuery = <<>> /\ ccSpec = <<>> /\ ccStage = "new"
    /\ ccFiles \in SUBSET {"artifact", "labels"}

\* ModelSelector.select, then get_detector of the model's format.
SelectModel ==
    /\ ccStage = "new"
    /\ \E q \in CcQueries : ccQuery' = q /\ ccSpec' = Best(q)
    /\ ccStage' = "built" /\ UNCHANGED ccFiles

\* discover_model, then get_detector of the format.
DiscoverModel ==
    /\ ccStage = "new"
    /\ \E extension \in Extensions, yolo \in BOOLEAN, labels \in BOOLEAN :
          ccSpec' = [format |-> FormatOf(extension, yolo), extension |-> extension,
                     yolo |-> yolo, labels |-> labels]
    /\ ccStage' = "built" /\ UNCHANGED <<ccQuery, ccFiles>>

\* load_label_map, when the adapter has a labels file to load.
LabelsLoad(spec) == spec.labels => "labels" \in ccFiles

\* ONNXAdapter.load insists on a labels file and on an .onnx artifact that
\* exists; the frameworks behind the other two open the artifact themselves.
Loads(spec) ==
    /\ LabelsLoad(spec)
    /\ "artifact" \in ccFiles
    /\ spec.format = "onnx" => spec.labels /\ spec.extension = "onnx"

LoadModel ==
    /\ ccStage \in {"built", "closed"}
    /\ ccStage' = IF Loads(ccSpec) THEN "loaded" ELSE "failed"
    /\ UNCHANGED <<ccQuery, ccSpec, ccFiles>>

\* close drops the model; a closed adapter can be loaded again.
CloseModel ==
    /\ ccStage = "loaded" /\ ccStage' = "closed"
    /\ UNCHANGED <<ccQuery, ccSpec, ccFiles>>

CcNext == SelectModel \/ DiscoverModel \/ LoadModel \/ CloseModel
CcSpec == CcInit /\ [][CcNext]_ccVars
-----------------------------------------------------------------------------
CcTypeOK ==
    /\ ccFiles \subseteq {"artifact", "labels"}
    /\ ccStage \in {"new", "built", "loaded", "failed", "closed"}
    /\ ccQuery # <<>> => ccQuery \in CcQueries /\ ccSpec \in CatalogSpecs
    /\ ccStage # "new" => ccSpec.format \in {"onnx", "torch", "yolo"}

Covered(spec) == ccQuery.classes \cap spec.classes

\* A model that knows none of the requested classes is never selected while
\* another one of its task knows them all, whatever altitude and resolution
\* speak for it.
NeverBlind ==
    ccQuery # <<>> /\ ccQuery.classes # {} /\ Covered(ccSpec) = {} =>
        ~\E s \in CatalogSpecs :
            s.task = ccSpec.task /\ Covered(s) = ccQuery.classes

\* A checkpoint whose name says it is YOLO's reaches the adapter that can read
\* its file, whatever the extension: with its files present it loads.
YoloLoads ==
    ccStage = "failed" /\ ccQuery = <<>> /\ ccSpec.yolo =>
        "artifact" \notin ccFiles \/ (ccSpec.labels /\ "labels" \notin ccFiles)

\* The model that is selected or discovered can do the work.
ChoiceWorks == NeverBlind /\ YoloLoads
=============================================================================

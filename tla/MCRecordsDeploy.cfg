CONSTANTS
    TkDeliveries = {d1, d2, d3}
    TkHooks = {d1, d2}
    TkRuns = {x1, x2}
    OrVideos <- Videos
    OrEnds = {0, 16, 24, 25}
    OrAsked <- Windows
    OrWidths = {0, 48}
    OrPixel = 24
    OrGrain = 1
    OrPieces = 3
    LhProfiles <- Profiles
    LhActions = {"write_output"}
    DtThreads = {t1, t2}
    DtFrames = {3, 4}
    DtScenes <- Sights
    DtLabels = {"car", "bus"}
    DtScores = {0, 1, 2}
    DtThreshold = 1
    DtConfigs <- Detectors
    DtInput = 8
    DtUnit = 60
    CcCatalog <- Catalog
    CcQueries <- Queries
    SoMaxAge = 1
    SoMinHits = 2
    SoMinLength = 2
    SoDetections = 2
    SoFrames = 5
    FsRequests = {f1, f2, f3, i1}
    FsIngests = {i1}
    FsRaw = {f3}
    FsMixed = {f2}
    FsVideos = {"v1", "v2"}
    FsStrides = {1}
    FsSeconds = 1
    FsFailures = 1
    FtRuns = {q1}
    FtLimit = 6
    FtSelect = 4
    FtLists <- FrameLists
    FtNumbers = {0, 1}
    FtClusters <- ClusterSizes
    FtVision = TRUE
    FtQwen = TRUE
    CoRequests = {s1, s2}
    CoVideos = {"v1", "v2"}
    CoSamples = {7, 8}
    CoReadable <- Readable
    AzSessions = {"s1", "s2"}
    AzSlug <- Slugs
    AzRequests <- SessionRequests
    AzConfigs <- Settings
    AzResources = 1
    RgDeploys = {"d1", "d2"}
    RgChats = {c1, c2}
    RgNames <- AgentNames
    RgSpecs <- Checkouts
    RgRuntime <- Runtime
    RgEdits = 1
    FrWidth = 9
    FrFrames = 4
    FrScenes <- Scenes
    FrMinArea = 2
    FrPlans <- RoutinePlans
    FrTilings <- Tilings
    FrZones <- ZoneLists
    FrSpots <- SpotLists
    CnDistance = 2
    CnDisappeared = 1
    CnPlaces = {0, 2, 3, 6}
    CnCentroids = 2
    CnFrames = 3
    Creators = {c1, c2}
    Commanders = {k1}
    FixedIds = {m}
    VuCap = 2
    EvRuns = {e1, e2}
    EvSettings <- SinkSettings
    EvFindings <- Findings
    EvBatch = 2
    EvLimit = 3
    EvExtra = 2
SPECIFICATION Spec
CHECK_DEADLOCK FALSE
PROPERTY
    DeployDestroysNothing

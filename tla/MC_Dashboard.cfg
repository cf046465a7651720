SPECIFICATION FairSpec
CONSTANTS
    Platforms = {"Google", "Meta"}
    TopN = 1
    Ads <- MCAds
    Datasets <- MCDatasets
    Connections = 2
    MaxReseeds = 1
CHECK_DEADLOCK FALSE
INVARIANTS
    OneDatasetPerAnswer
    CoverageWhole
    RankedBest
    PageAgrees
    MissingMeansReseeded
PROPERTY ReseedEnds

SPECIFICATION Spec
INVARIANTS
    MapIsOfThisCall
    RelationsAreOfRetainedFiles
    PlansKeepTheirPurpose
    OutlineStaysAcyclic
    SatisfiedWasChecked
    RecommendedIsOffered
    FailuresAreCutOff
    OmittedWasGiven
    OwnHashIsCurrent
    DoneIsTheWholeResponse
    ToolsAreRefusedOnce
CHECK_DEADLOCK FALSE
CONSTANTS
    RepoFiles <- MCFiles
    Versions <- MCVersions
    MatchScore <- MCMatch
    Calls <- MCQuestions
    LiteralText <- MCLiteral
    FirstTracked <- MCTracked
    Retrackings <- MCRetrackings
    StartsName = {}
    ContainsName = {}
    MaxSymbolTokens = 20
    MaxSymbolsPerFile = 4
    MaxRelationsPerFile = 4
    MaxSymbolFiles = 1
    MaxFanout = 2
    MaxLookup = 3
    MaxRewrites = 1
    MaxEdits = 1
    MaxCalls = 2
    MaxFiles = 4
    MaxSpecialFiles = 2
    MaxManifest = 5
    MaxInstruction = 2
    MaxReadme = 2
    PlannerContexts <- MCContexts
    Batches <- MCBatches
    ModifiedSets <- MCModifiedSets
    FileLines = 4
    MaxRangeLines = 1
    MaxExcerptBytes = 4
    MaxPlanCandidates = 3
    MaxPlanFiles = 2
    MaxPlanActions = 2
    MaxPlanBytes = 12
    MinPlannerConfidence = 80
    MaxVerificationCommands = 2
    Prompts <- MCPrompts
    Outlines <- MCOutlines
    WorkPaths = {"p", "q"}
    WorkCommands <- MCWorkCommands
    BlockerKeys = {"k"}
    MaxSubgoals = 4
    MaxCriteria = 2
    MaxWorkChecks = 2
    MaxBlockers = 1
    MaxRelations = 2
    MaxLedgerSteps = 5
    PathCount = 2
    SymbolMatchScore <- MCSymbolMatches
    RelatedScore <- MCRelatedMatches
    TaskNamesTools = FALSE
    CheckPlan <- MCCheckPlan
    NoProgressLimit = 2
    MaxFailureObservations = 2
    MaxObservations = 1
    MaxEvidence = 1
    MaxQuestions = 1
    MaxCandidates = 2
    MaxSelections = 4
    MaxScope = 1
    MaxRelevant = 2
    MinConfidence = 20
    ToolBatches <- MCToolBatches
    MaxFolds = 4
    MaxVerifications = 2
    PromptPaths <- MCPromptPaths
    TaskHits <- MCTaskHits
    SymbolHits <- MCSymbolHits
    RelationHits <- MCRelationHits
    ItemBytes <- MCItemBytes
    MaxItems = 6
    PromptTasks = {"t"}
    Contents = {1, 2}
    ReadRanges <- MCReadRanges
    AutoRange <- MCAutoRange
    WorkStates <- MCWorkStates
    InstructionsFrom <- MCInstructions
    MaxInspectedFiles = 1
    MaxFileExcerpts = 2
    MaxSummaries = 1
    MaxModified = 1
    MaxUserModified = 1
    MaxFingerprints = 6
    MaxSymbolPaths = 2
    MaxInstructionPaths = 1
    MaxWorkingSet = 3
    MaxShownPaths = 2
    PhaseBudget <- MCPhaseBudget
    MaxPacket = 10
    FixedBytes = 2
    RangeBytes = 3
    MaxPromptEvents = 4
    MaxPromptEdits = 1
    ModelIds <- MCModelIds
    CatalogItems <- MCCatalogItems
    CallIds = {"c", "i"}
    ProviderCalls = {"p", "q"}
    Namings <- MCNamings
    ChannelCapacity = 1
    MaxEvents = 3
    MaxSteps = 2

SPECIFICATION MCSpec
CHECK_DEADLOCK FALSE
CONSTANTS
    Keys <- MCKeys
    Real <- MCReal
    QuestionIds <- MCQuestionIds
    Objects <- MCObjects
    Parts <- MCParts
    PartIds <- MCPartIds
    FactLists <- MCFactLists
    ProseLists <- MCProseLists
    Confidences = {20, 95}
    MAX_STEPS = 5
    MAX_REWRITES = 5
    Requests <- MCRequests
    Entities <- MCEntities
    Namespaces <- MCNamespaces
    Home <- MCHome
    Links <- MCLinks
    Builders = {"one", "two"}
    Prose = {"q"}
    Easy = {"e"}
    TRIALS = 1
    EASY_TRIALS = 1
    Workers = {"w1", "w2"}
    Versions = {"text", "nothing"}
    Withheld = "nothing"
    Roles = {"worker"}
    Nodes <- MCNodes
    Good = {"good"}
    Outputs <- MCOutputs
    CAP = 2
    Miners = {"m1", "m2"}
    Together <- MCTogether
INVARIANTS TypeOK StructureWasTried ActsOnce QuietRebuildCovers SummaryStaysHome OkMeansJudged NothingUnmined FixturesAreTransient
PROPERTIES PlannerPromise CorrectivePromise LoopsEnd

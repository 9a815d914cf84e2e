\* Two reviewers, three revisions; the resolution modules with their own inputs.
CONSTANTS
    n1 = n1
    n2 = n2
    e1 = e1
    e2 = e2
    A = A
    B = B
    t1 = t1
    t2 = t2
    Nodes = {n1, n2}
    Edges = {e1, e2}
    Concepts = {A, B}
    Types = {t1, t2}
    Source <- MCSource
    Target <- MCTarget
    Relations <- MCRelations
    Graphs <- MCGraphs
    Reviewers = {c1, c2}
    MaxRevision = 3
    None = None
    RunIds = {r1, r2}
    RunNodes <- RNodes
    RunGraphs <- RGraphs
    MaxCluster = 3
    MaxDecisions = 4
    Mentions = {1, 2, 3, 4}
    Workers = {w1, w2}
    EngineInputs <- EInputs
    MaxCalls = 3
    MaxPairs = 5
    RecallInputs <- LInputs
    Terms <- LTerms
    Similarity <- LSimilarity
    MaxAliasCalls = 2
    MaxBlock = 3
    Limit = 2
    MaxVectors = 4
    Sources <- GSources
    Quotes <- GQuotes
    Apart <- GApart
    MaxDepth = 3
    MaxChanges = 2
    Joined = Joined
    ExperimentInputs <- XInputs
    Writers = {w1, w2}
    Unit = 12
SPECIFICATION MCSpec
INVARIANTS RevisionNamesContent EdgesStayTyped ClustersFollowDecisions EngineIsSound RecallIsSound WhatIsShownIsExact
PROPERTIES NobodyIsOverwritten DecisionsStand AnalysisEnds
CHECK_DEADLOCK FALSE

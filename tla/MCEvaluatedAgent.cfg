SPECIFICATION Spec
CONSTANTS
    Candidates = {"P0", "P2", "P3", "P4", "P5"}
    Batches <- MCBatches
    MaxModelCalls = 4
    MaxToolRounds = 3
    MaxToolCalls = 6
    MaxRepairs = 1
    RecursionLimit = 20
    CaseCount = 2
    MaxTurns = 3
    MaxCommits = 1
INVARIANTS
    BudgetsHold
    AnswersAreHonest
    ResultsAreWhole
    OneRevisionPerRun
CHECK_DEADLOCK FALSE

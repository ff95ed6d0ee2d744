SPECIFICATION WalkSpec
CONSTANTS
    Symbols = {1, 2, 3}
    FileOf <- MCFiles
    Ranges = {1, 2}
    BadRanges = {2}
    Graphs <- MCGraphs
    Requested <- MCRequested
    Natures <- MCNatures
    Budgets <- MCBudgets
    Attempts = 2
    MaxLimitations = 3
CHECK_DEADLOCK FALSE
INVARIANT AlwaysReportable
INVARIANT VerdictIsTrue
INVARIANT RequestsAreBounded

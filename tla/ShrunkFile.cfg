SPECIFICATION AlgorithmsSpec
CONSTANTS
    Paths <- MCPaths
    Base <- MCBase
    Candidates <- MCCandidates
    Builtins <- MCBuiltins
    Budgets <- MCBudgets
CHECK_DEADLOCK FALSE
INVARIANT GraphNeverSpoilsContext

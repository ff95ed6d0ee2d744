SPECIFICATION MCSpec
CONSTANTS
    written = written
    generated = generated
    Files <- MCFiles
    Component <- MCComponent
    RiskyPaths = {}
    GeneratedPaths <- MCGenerated
    LockPaths = {}
    Budgets <- MCBudgets
    MaxEdits = 2
    MaxFailures = 1
INVARIANT ReviewIsOfOneState
INVARIANT PlansAgree

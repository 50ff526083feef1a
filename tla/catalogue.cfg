SPECIFICATION Spec
CONSTANTS
    Stems <- MCStems
    Places = 5
    MaxTakes = 3
    MaxRuns = 2
INVARIANTS HeardAsTaken

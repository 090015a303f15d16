SPECIFICATION Spec
CONSTANTS
    Fixtures <- MCFixtures
    Modules <- MCModules
    Words <- MCWords
    Points <- MCPoints
    Passages <- MCPassages
    Questions <- MCQuestions
    SkillFocus <- MCSkillFocus
    Content <- MCContent
    Texts = {"b"}
    Alphabet <- MCAlphabet
    DEFAULT_LIMIT = 1
    MAX_LIMIT = 2
    MaxRuns = 3
    MaxVisits = 2
    MaxMoves = 2
    MaxFaults = 1
INVARIANTS
    Converges
    PanelSound
CHECK_DEADLOCK FALSE

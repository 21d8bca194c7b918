CONSTANTS
    Names <- MCNames
    Given <- MCGiven
    Calls <- MCCalls
    Default <- MCDefault
    DefaultLimit = 20
    MinLimit = 1
    DefaultBudget = 14
    LimitMargin = 8
    Bodies <- MCBodies
SPECIFICATION MCSpec
INVARIANTS
    NoImagePasses
    SoundSettings

SPECIFICATION Spec
CONSTANTS
    Urls <- MCUrls
    Params <- MCParams
INVARIANTS
    ConnectsAsGiven
    PathArrives
    ParamsArrive

SPECIFICATION Spec
CONSTANTS
    None = None
    Own = "own"
    Infrastructures = {"own", "foreign"}
    HexDigests = {"one", "other"}
    PeerKeys = {"peer"}
    Views <- MCViews
    Drafts <- MCDrafts
    Pastes <- MCPastes
    Served <- MCServed
    MaxRequests = 2
    MaxAccepted = 2
INVARIANTS
    SignedWasShown
    NothingIsUnshown
    EveryPlanCanBeShown
    RefusalsAreTheContract
    OneDefinitionPerDigest
    PanelShowsTheDefinition
    PastesReadBack

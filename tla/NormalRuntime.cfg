SPECIFICATION FairSpec
CHECK_DEADLOCK FALSE
CONSTANTS
    Sessions = {"client"}
    RawIds = {1, 2, 9}
    BackendIds = {1, 2}
    Tokens = {t, u}
    t = t
    u = u
    None = None
    Absent = Absent
    Lines <- MCLines
    Says <- MCSays
    Split = {}
    Emits <- MCEmits
    EmitSays <- MCEmitSays
    Scripts <- MCScripts
    MaxGens = 2
INVARIANTS
    NormalTypeOK
    OldCallsSpared
    DrainedAtExit
    BackendSeesOnlyItsOwn
PROPERTIES
    LifetimeSpec
    CallServiceSpec
    LoopComesBack
    RequestEnds
    GoneClientFreesBackend

SPECIFICATION Spec
CHECK_DEADLOCK FALSE
CONSTANTS
    Sessions = {"client"}
    RawIds = {1, 2, 9}
    BackendIds = {1, 2}
    Tokens = {t, u}
    t = t
    u = u
    None = None
    Absent = Absent
    Lines <- MCLines
    Says <- MCSays
    Split = {"c2"}
    Emits <- MCEmits
    EmitSays <- MCEmitSays
    Scripts <- CutScripts
    MaxGens = 2
INVARIANT
    EveryLineClassified

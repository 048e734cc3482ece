\* A cancelled call and its answer.
SPECIFICATION Spec
CONSTANTS
    s1 = s1
    s2 = s2
    r1 = r1
    t1 = t1
    c1 = c1
    c2 = c2
    Sessions <- MCSessions
    RawIds <- MCRawIds
    BackendIds <- MCBackendIds
    Tokens <- MCTokens
    None = None
    Absent = Absent
    Calls <- MCCalls
    SessionOf <- MCSessionOf
    IdOf <- MCIdOf
    TokenOf <- MCTokenOf
    MaxGens = 2
    Asks = {}
    Scripts <- CancelScripts
CHECK_DEADLOCK FALSE
INVARIANTS
    CancelledNotAnswered

\* A cancellation that comes after the answer.
SPECIFICATION PeersSpec
CHECK_DEADLOCK FALSE
CONSTANTS
    s1 = s1
    s2 = s2
    r1 = r1
    t1 = t1
    c1 = c1
    c2 = c2
    a1 = a1
    a2 = a2
    Sessions <- MCSessions
    RawIds <- MCRawIds
    BackendIds <- MCBackendIds
    Tokens <- MCTokens
    None = None
    Absent = Absent
    Calls <- MCCalls
    SessionOf <- MCSessionOf
    IdOf <- MCIdOf
    TokenOf <- MCTokenOf
    MaxGens = 2
    Asks <- MCAsks
    AskId <- MCAskId
    AskToken <- MCAskToken
    Scripts <- CrossScripts
INVARIANTS
    CancelsKeepDirection

\* Starts, attachments, stops and restarts of one executable, or of an old and a new one.
SPECIFICATION FairSpec
CONSTANTS
    w1 = w1
    w2 = w2
    old = old
    new = new
    Wrappers = {w1, w2}
    OpsOf <- Everything
    Installs <- OneOrTwo
    MaxBrokers = 2
    MaxCrashes = 1
    None = None
CHECK_DEADLOCK FALSE
INVARIANTS
    DaemonTypeOK
    LoneStartOwnsDaemon
PROPERTIES
    EveryStartEnds

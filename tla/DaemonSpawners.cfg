\* Two starts of one executable that overlap.
SPECIFICATION Spec
CONSTANTS
    w1 = w1
    w2 = w2
    old = old
    new = new
    Wrappers = {w1, w2}
    OpsOf <- TwoStarts
    Installs <- OneVersion
    MaxBrokers = 2
    MaxCrashes = 0
    None = None
CHECK_DEADLOCK FALSE
INVARIANTS
    OneBrokerServes

CONSTANTS
    c1 = c1
    c2 = c2
    Chans <- MCChans
    MaxConfigures = 2
    HopTolerance = 10
SPECIFICATION Spec

INVARIANT HopFailuresEscalate

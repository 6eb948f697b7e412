SPECIFICATION Spec
CONSTANTS
    Work <- MCWork
    Workers = {w1, w2}
    Verdicts = {accept, reject}
    Failed = failed
INVARIANT PoolDrains
PROPERTY ImplementsBatch
CHECK_DEADLOCK FALSE

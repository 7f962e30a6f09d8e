CONSTANTS
    Candidates <- MCCandidates
    Names = {n1, n2}
    Mappings <- MCMappings
    Nil = Nil
    MaxSymbols = 3
    MaxAddr = 5
    MaxSymSize = 2
    MaxResolves = 1

SPECIFICATION Spec
\* After its Resolve calls the cache has nothing left to do.
CHECK_DEADLOCK FALSE

INVARIANT TypeOK

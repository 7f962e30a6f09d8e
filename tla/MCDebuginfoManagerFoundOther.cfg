CONSTANTS
    c1 = c1
    c2 = c2
    c3 = c3
    c4 = c4
    b1 = b1
    b2 = b2
    Callers <- MCCallers3
    BuildIDs = {b1, b2}
    FoundBuildID <- MCFoundOther
    Target <- MCTarget3
    MaxParallel = 2
    StripDebuginfos = TRUE
    HasText <- MCHasText
    CacheDisabled = FALSE
    NoCall = NoCall
    Strategies <- MCAllStrategies

SPECIFICATION Spec
\* Every EnsureUploaded call returns; the callers then have nothing to do.
CHECK_DEADLOCK FALSE

SYMMETRY MCSymmetry3
INVARIANT SuccessImpliesUploaded

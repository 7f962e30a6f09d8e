CONSTANTS
    c1 = c1
    c2 = c2
    c3 = c3
    c4 = c4
    b1 = b1
    b2 = b2
    Callers <- MCCallers3
    BuildIDs = {b1}
    FoundBuildID <- MCFoundSame
    Target <- MCTarget3
    MaxParallel = 2
    StripDebuginfos = FALSE
    HasText <- MCHasText
    CacheDisabled = FALSE
    NoCall = NoCall
    Strategies <- MCBodyStrategy

SPECIFICATION Spec
\* Every EnsureUploaded call returns; the callers then have nothing to do.
\* Stripping is off: extraction only adds ways to fail, which the Extract
\* step still offers (src.ELF() failing).
CHECK_DEADLOCK FALSE

PROPERTY ImplementsService

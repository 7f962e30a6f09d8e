CONSTANTS
    ProcessMappings <- MCDisjointMappings
    DumpFiles <- MCDumpFiles
    KernelAddrs <- MCKernelAddrs
    UserAddrs <- MCUserAddrs
    KernelSyms = {ks1}
    VdsoResolve <- MCVdsoReady
    vs1 = vs1
    vs2 = vs2
    MCNil = MCNil
    JitSyms = {js1, vs1}
    NotFound = NotFound
    Unknown = Unknown
    DisableJITSymbolization = FALSE
    MaxSamples = 2
    MaxKernelFrames = 2
    MaxUserFrames = 1

SPECIFICATION Spec
\* Convert returns and the converter is discarded.
CHECK_DEADLOCK FALSE

INVARIANT TypeOK
INVARIANT SamplesMatchStacks
INVARIANT ProfileTablesConsistent

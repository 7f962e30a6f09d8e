CONSTANTS
    ProcessMappings <- MCDisjointMappings
    DumpFiles <- MCDumpFiles
    KernelAddrs <- MCKernelAddrs
    UserAddrs <- MCUserAddrs
    KernelSyms = {ks1}
    VdsoResolve <- MCVdsoNoop
    vs1 = vs1
    vs2 = vs2
    MCNil = MCNil
    JitSyms = {js1, vs1}
    NotFound = NotFound
    Unknown = Unknown
    DisableJITSymbolization = TRUE
    MaxSamples = 2
    MaxKernelFrames = 2
    MaxUserFrames = 1

SPECIFICATION Spec
\* Convert returns and the converter is discarded.
CHECK_DEADLOCK FALSE

INVARIANT SamplesMatchStacks
INVARIANT ProfileTablesConsistent

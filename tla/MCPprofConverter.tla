-------------------------- MODULE MCPprofConverter --------------------------
(* Instantiates PprofConverter for TLC: one mapping of each of the five    *)
(* kinds the Convert switch tells apart (two native ones), an address      *)
(* outside all of them, two kernel addresses, and batches of up to two     *)
(* samples, which is the least that lets a dedup index be hit by a later   *)
(* sample.  The VDSO symbolizer is the VDSO cache, instantiated.          *)
EXTENDS PprofConverter

CONSTANTS vs1, vs2, MCNil

\* The VDSO cache the converter is given, as NewCache builds it: two
\* adjacent functions at file offsets 0 and 1.
MCVdsoTable == << [start |-> 0, size |-> 1, name |-> vs1],
                  [start |-> 1, size |-> 1, name |-> vs2] >>

VDSO == INSTANCE VDSOCache WITH
    Candidates <- <<"vdso.so", "vdso64.so">>, Names <- {vs1, vs2}, Mappings <- {},
    Nil <- MCNil, MaxSymbols <- 2, MaxAddr <- 1, MaxSymSize <- 1, MaxResolves <- 0,
    state <- "ready", tried <- 0, symtab <- MCVdsoTable, resolves <- 0,
    last <- [addr |-> -1, name |-> "", err |-> "none"]

\* The symbolizer when NewCache succeeded, and the no-op one when it failed.
MCVdsoReady(addr, m) == VDSO!ResolveAnswers(MCVdsoTable, addr, m)
MCVdsoNoop(addr, m) == {VDSO!NoopAnswer(addr)}

\* libc and libm have disjoint file offsets: their normalized addresses
\* (0..1 and 8..9) never coincide.
MCDisjointMappings ==
    << [start |-> 0, limit |-> 2, offset |-> 0, file |-> "libc.so"],
       [start |-> 2, limit |-> 4, offset |-> 8, file |-> "libm.so"],
       [start |-> 4, limit |-> 6, offset |-> 0, file |-> "[vdso]"],
       [start |-> 6, limit |-> 7, offset |-> 0, file |-> "jit"],
       [start |-> 7, limit |-> 8, offset |-> 0, file |-> "jit-7.dump"] >>

\* libm's text starts at the same file offset as libc's, as two shared
\* libraries usually do: libc 0 and libm 2 both normalize to 0.
MCOverlappingMappings ==
    << [start |-> 0, limit |-> 2, offset |-> 0, file |-> "libc.so"],
       [start |-> 2, limit |-> 4, offset |-> 0, file |-> "libm.so"],
       [start |-> 4, limit |-> 6, offset |-> 0, file |-> "[vdso]"],
       [start |-> 6, limit |-> 7, offset |-> 0, file |-> "jit"],
       [start |-> 7, limit |-> 8, offset |-> 0, file |-> "jit-7.dump"] >>

\* Two anonymous executable regions of a JIT, as when a runtime recompiles
\* a method into a second code region under the same symbol name.
MCTwoJitRegions ==
    << [start |-> 0, limit |-> 2, offset |-> 0, file |-> "libc.so"],
       [start |-> 2, limit |-> 3, offset |-> 0, file |-> "jit"],
       [start |-> 3, limit |-> 4, offset |-> 0, file |-> "jit"] >>

MCDumpFiles == {"jit-7.dump"}
MCKernelAddrs == {100, 101}
\* one address in libc, two in the VDSO (vs1 and vs2), one in the perf-map
\* and one in the jitdump mapping, and 8, which no mapping holds
MCUserAddrs == {0, 4, 5, 6, 7, 8}
\* a libc and a libm address, which normalize alike under
\* MCOverlappingMappings
MCCollidingAddrs == {0, 2}
\* one address in each JIT region of MCTwoJitRegions
MCJitRegionAddrs == {2, 3}
=============================================================================

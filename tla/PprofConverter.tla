--------------------------- MODULE PprofConverter ---------------------------
(***************************************************************************)
(* One use of pprof.Converter (src/pkg/pprof/pprof.go): NewConverter       *)
(* builds the mapping table, then Convert resolves the kernel addresses of *)
(* all samples in one call and routes every frame of every sample through  *)
(* one of the five symbolization paths (kernel, VDSO, perf map, jitdump,   *)
(* native address), deduplicating locations and functions as it goes.      *)
(*                                                                         *)
(* The converter is single-threaded; the nondeterminism of the model is    *)
(* the input batch (chosen in Init) and the answers of the collaborators   *)
(* the code calls: the kernel-symbol resolver, the VDSO symbolizer, the    *)
(* address normalizer, the perf-map and jitdump caches and the maps they   *)
(* return.  Addresses are small naturals, names are model values.          *)
(***************************************************************************)
EXTENDS Integers, SequencesExt

CONSTANTS
    ProcessMappings,  \* Seq of [start, limit, offset, file]: process.Mappings
    DumpFiles,        \* files among them whose name ends in ".dump"
    KernelAddrs,      \* addresses a kernel stack may hold
    UserAddrs,        \* addresses a user stack may hold
    KernelSyms,       \* names ksym.Resolve may return
    VdsoResolve(_, _),\* the VDSO symbolizer: the [name, err] answers Resolve(addr, m) may give
    JitSyms,          \* names a perf map or jitdump Lookup may return
    NotFound,         \* the literal "not found" of addKernelLocation
    Unknown,          \* the literal "unknown" of addVDSOLocation
    DisableJITSymbolization,
    MaxSamples,       \* bound: samples in one batch
    MaxKernelFrames,  \* bound: frames of one kernel stack
    MaxUserFrames     \* bound: frames of one user stack

ASSUME /\ DisableJITSymbolization \in BOOLEAN
       /\ {NotFound, Unknown} \cap (KernelSyms \cup JitSyms) = {}
       /\ MaxSamples \in Nat /\ MaxKernelFrames \in Nat /\ MaxUserFrames \in Nat

VARIABLES
    rawData,         \* the []profile.RawSample argument of Convert
    kernelSymbols,   \* the map ksym.Resolve returned (empty on error)
    phase,           \* "resolve" | "convert" | "done"
    si, pos,         \* loop position: sample index, frame index in it
    cur,             \* pprofSample.Location under construction (location ids)
    samples,         \* c.result.Sample: one sequence of location ids each
    locations,       \* c.result.Location
    functions,       \* c.result.Function
    functionIndex,   \* c.functionIndex: name -> function id
    index,           \* the five location indexes: kind -> key -> location id
    cachedPerfMap,   \* "none" until c.perfMap() fetched, then "ok" | "err"
    cachedJitdump,   \* c.cachedJitdump / cachedJitdumpErr: path -> "ok" | "err"
    frameDrops       \* frameDrop{mapping_nil} metric

vars == <<rawData, kernelSymbols, phase, si, pos, cur, samples, locations,
          functions, functionIndex, index, cachedPerfMap, cachedJitdump,
          frameDrops>>

memoVars == <<cachedPerfMap, cachedJitdump>>
tableVars == <<locations, functions, functionIndex, index>>

LocationKinds == {"addr", "perfmap", "jitdump", "kernel", "vdso"}
NoFunction == 0     \* an address-only location has no Line
EmptyMap == [x \in {} |-> x]

-----------------------------------------------------------------------------
(* NewConverter: the process mappings in order, then the synthetic kernel  *)
(* mapping with ID len+1 and no address range.                             *)
PprofMappings ==
    ProcessMappings \o <<[start |-> 0, limit |-> 0, offset |-> 0,
                          file |-> "[kernel.kallsyms]"]>>

\* Mutant: the kernel mapping id counted one past the appended entry.
KernelMappingIdPastEnd == Len(ProcessMappings) + 2

KernelMappingId == Len(ProcessMappings) + 1

(* mappingForAddr: the first mapping whose [Start, Limit) holds addr, or -1. *)
mappingForAddr(addr) ==
    LET hits == {i \in DOMAIN PprofMappings :
                    PprofMappings[i].start <= addr /\ addr < PprofMappings[i].limit}
    IN IF hits = {} THEN -1 ELSE Min(hits)

(* The address normalizer's answer when it succeeds: file-relative address. *)
Normalize(m, addr) == addr - PprofMappings[m].start + PprofMappings[m].offset

RawSample == [kernelStack : BoundedSeq(KernelAddrs, MaxKernelFrames),
              userStack   : BoundedSeq(UserAddrs, MaxUserFrames)]

Frames(s) == s.kernelStack \o s.userStack
Frame == Frames(rawData[si])[pos]
InKernelStack == pos <= Len(rawData[si].kernelStack)

-----------------------------------------------------------------------------
(* addFunction: dedup by name, else id len+1.                              *)
FunctionId(name) ==
    IF name \in DOMAIN functionIndex THEN functionIndex[name] ELSE Len(functions) + 1

\* Mutant: the new function is appended but never indexed.
addFunctionUnindexed(name) ==
    IF name \in DOMAIN functionIndex
    THEN UNCHANGED <<functions, functionIndex>>
    ELSE /\ functions' = Append(functions, [id |-> Len(functions) + 1, name |-> name])
         /\ UNCHANGED functionIndex

addFunction(name) ==
    IF name \in DOMAIN functionIndex
    THEN UNCHANGED <<functions, functionIndex>>
    ELSE /\ functions' = Append(functions, [id |-> Len(functions) + 1, name |-> name])
         /\ functionIndex' = functionIndex @@ (name :> Len(functions) + 1)

(* The dedup-or-create shared by the kernel, VDSO, perf-map and jitdump    *)
(* paths: a location with one Line whose function is named key, indexed    *)
(* under key in the index of its kind; the location is appended to the     *)
(* sample under construction.                                              *)
AddLineLocation(kind, key, m) ==
    IF key \in DOMAIN index[kind]
    THEN /\ cur' = Append(cur, index[kind][key])
         /\ UNCHANGED tableVars
    ELSE LET l == Len(locations) + 1 IN
         /\ addFunction(key)
         /\ locations' = Append(locations, [id |-> l, mapping |-> m, address |-> 0,
                                            function |-> FunctionId(key)])
         /\ index' = [index EXCEPT ![kind] = @ @@ (key :> l)]
         /\ cur' = Append(cur, l)

(* addAddrLocationNoNormalization: dedup by address alone.                 *)
addAddrLocationNoNormalization(m, addr) ==
    IF addr \in DOMAIN index["addr"]
    THEN /\ cur' = Append(cur, index["addr"][addr])
         /\ UNCHANGED tableVars
    ELSE LET l == Len(locations) + 1 IN
         /\ locations' = Append(locations, [id |-> l, mapping |-> m, address |-> addr,
                                            function |-> NoFunction])
         /\ index' = [index EXCEPT !["addr"] = @ @@ (addr :> l)]
         /\ cur' = Append(cur, l)
         /\ UNCHANGED <<functions, functionIndex>>

(* c.perfMap(): fetched once, then the memo (result or error) is reused.   *)
perfMap(res) ==
    IF cachedPerfMap # "none"
    THEN /\ res = cachedPerfMap
         /\ UNCHANGED cachedPerfMap
    ELSE cachedPerfMap' = res

(* c.jitdump(path): one memo entry per path.                               *)
jitdump(path, res) ==
    IF path \in DOMAIN cachedJitdump
    THEN /\ res = cachedJitdump[path]
         /\ UNCHANGED cachedJitdump
    ELSE cachedJitdump' = cachedJitdump @@ (path :> res)

-----------------------------------------------------------------------------
(* Convert, step 1: the union of all kernel addresses is resolved in one   *)
(* call; on error the map is empty and every kernel frame is "not found".  *)
ResolveKernelSymbols ==
    /\ phase = "resolve"
    /\ LET requested == UNION {ToSet(rawData[i].kernelStack) : i \in DOMAIN rawData}
       IN \/ \E found \in SUBSET requested :
                \E syms \in [found -> KernelSyms] : kernelSymbols' = syms
          \/ kernelSymbols' = EmptyMap
    /\ phase' = "convert"
    /\ si' = 1
    /\ pos' = 1
    /\ UNCHANGED <<rawData, cur, samples, frameDrops>>
    /\ UNCHANGED tableVars
    /\ UNCHANGED memoVars

(* A kernel frame: the resolved symbol, or "not found", keys a location of *)
(* the synthetic kernel mapping.                                           *)
addKernelLocation ==
    /\ phase = "convert" /\ si <= Len(rawData) /\ InKernelStack
    /\ LET sym == IF Frame \in DOMAIN kernelSymbols THEN kernelSymbols[Frame] ELSE NotFound
       IN AddLineLocation("kernel", sym, KernelMappingId)
    /\ pos' = pos + 1
    /\ UNCHANGED <<rawData, kernelSymbols, phase, si, samples, frameDrops>>
    /\ UNCHANGED memoVars

(* A user frame, with m the index of the mapping that holds it.            *)
UserFrame(m) ==
    /\ phase = "convert" /\ si <= Len(rawData)
    /\ ~InKernelStack
    /\ pos <= Len(Frames(rawData[si]))
    /\ m = mappingForAddr(Frame)

(* A user frame outside every mapping is counted and skipped.              *)
DropFrame ==
    /\ UserFrame(-1)
    /\ frameDrops' = frameDrops + 1
    /\ pos' = pos + 1
    /\ UNCHANGED <<rawData, kernelSymbols, phase, si, cur, samples>>
    /\ UNCHANGED tableVars
    /\ UNCHANGED memoVars

(* addVDSOLocation: the symbolizer's name, or "unknown" on any error.     *)
VdsoName(r) == IF r.err = "none" THEN r.name ELSE Unknown

(* File "[vdso]": Resolve(addr, processMapping), deduplicated by name.    *)
addVDSOLocation ==
    /\ \E m \in DOMAIN ProcessMappings :
          /\ UserFrame(m)
          /\ PprofMappings[m].file = "[vdso]"
          /\ \E r \in VdsoResolve(Frame, ProcessMappings[m]) : AddLineLocation("vdso", VdsoName(r), m)
    /\ pos' = pos + 1
    /\ UNCHANGED <<rawData, kernelSymbols, phase, si, samples, frameDrops>>
    /\ UNCHANGED memoVars

(* File "jit": the pid's perf map, falling back to the raw address when JIT *)
(* symbolization is disabled, the map is missing or the lookup fails.      *)
addPerfMapLocation ==
    /\ \E m \in DOMAIN ProcessMappings :
          /\ UserFrame(m)
          /\ PprofMappings[m].file = "jit"
          /\ \/ /\ DisableJITSymbolization
                /\ addAddrLocationNoNormalization(m, Frame)
                /\ UNCHANGED memoVars
             \/ /\ ~DisableJITSymbolization
                /\ \E res \in {"ok", "err"}, sym \in JitSyms \cup {"lookup failed"} :
                      /\ perfMap(res)
                      /\ IF res = "err" \/ sym = "lookup failed"
                         THEN addAddrLocationNoNormalization(m, Frame)
                         ELSE AddLineLocation("perfmap", sym, m)
                /\ UNCHANGED cachedJitdump
    /\ pos' = pos + 1
    /\ UNCHANGED <<rawData, kernelSymbols, phase, si, samples, frameDrops>>

(* File ending in ".dump": as the perf-map path, with the jitdump of that  *)
(* file.                                                                   *)
addJITDumpLocation ==
    /\ \E m \in DOMAIN ProcessMappings :
          /\ UserFrame(m)
          /\ PprofMappings[m].file \notin {"[vdso]", "jit"}
          /\ PprofMappings[m].file \in DumpFiles
          /\ \/ /\ DisableJITSymbolization
                /\ addAddrLocationNoNormalization(m, Frame)
                /\ UNCHANGED memoVars
             \/ /\ ~DisableJITSymbolization
                /\ \E res \in {"ok", "err"}, sym \in JitSyms \cup {"lookup failed"} :
                      /\ jitdump(PprofMappings[m].file, res)
                      /\ IF res = "err" \/ sym = "lookup failed"
                         THEN addAddrLocationNoNormalization(m, Frame)
                         ELSE AddLineLocation("jitdump", sym, m)
                /\ UNCHANGED cachedPerfMap
    /\ pos' = pos + 1
    /\ UNCHANGED <<rawData, kernelSymbols, phase, si, samples, frameDrops>>

(* Any other file: the normalized address, or the raw one when the         *)
(* normalizer fails.                                                       *)
addAddrLocation ==
    /\ \E m \in DOMAIN ProcessMappings :
          /\ UserFrame(m)
          /\ PprofMappings[m].file \notin {"[vdso]", "jit"} \cup DumpFiles
          /\ \E normalized \in {Normalize(m, Frame), Frame} :
                addAddrLocationNoNormalization(m, normalized)
    /\ pos' = pos + 1
    /\ UNCHANGED <<rawData, kernelSymbols, phase, si, samples, frameDrops>>
    /\ UNCHANGED memoVars

\* Mutant: the sample is appended but the accumulator is not reset.
AppendSampleNoReset ==
    /\ phase = "convert" /\ si <= Len(rawData)
    /\ pos > Len(Frames(rawData[si]))
    /\ samples' = Append(samples, cur)
    /\ UNCHANGED cur
    /\ si' = si + 1
    /\ pos' = 1
    /\ UNCHANGED <<rawData, kernelSymbols, phase, frameDrops>>
    /\ UNCHANGED tableVars
    /\ UNCHANGED memoVars

(* All frames of the sample are routed: it joins the profile.             *)
AppendSample ==
    /\ phase = "convert" /\ si <= Len(rawData)
    /\ pos > Len(Frames(rawData[si]))
    /\ samples' = Append(samples, cur)
    /\ cur' = <<>>
    /\ si' = si + 1
    /\ pos' = 1
    /\ UNCHANGED <<rawData, kernelSymbols, phase, frameDrops>>
    /\ UNCHANGED tableVars
    /\ UNCHANGED memoVars

(* Convert returns c.result.                                               *)
ConvertReturn ==
    /\ phase = "convert" /\ si > Len(rawData)
    /\ phase' = "done"
    /\ UNCHANGED <<rawData, kernelSymbols, si, pos, cur, samples, frameDrops>>
    /\ UNCHANGED tableVars
    /\ UNCHANGED memoVars

Init ==
    /\ rawData \in UNION {[1..n -> RawSample] : n \in 0..MaxSamples}
    /\ kernelSymbols = EmptyMap
    /\ phase = "resolve"
    /\ si = 1
    /\ pos = 1
    /\ cur = <<>>
    /\ samples = <<>>
    /\ locations = <<>>
    /\ functions = <<>>
    /\ functionIndex = EmptyMap
    /\ index = [k \in LocationKinds |-> EmptyMap]
    /\ cachedPerfMap = "none"
    /\ cachedJitdump = EmptyMap
    /\ frameDrops = 0

Next ==
    \/ ResolveKernelSymbols
    \/ addKernelLocation
    \/ DropFrame
    \/ addVDSOLocation
    \/ addPerfMapLocation
    \/ addJITDumpLocation
    \/ addAddrLocation
    \/ AppendSample
    \/ ConvertReturn

Spec == Init /\ [][Next]_vars

-----------------------------------------------------------------------------
\* The names the VDSO symbolizer may give for a frame of a [vdso] mapping.
VdsoNames ==
    UNION {{VdsoName(r) : r \in VdsoResolve(a, ProcessMappings[m])} :
              a \in UserAddrs, m \in {i \in DOMAIN ProcessMappings : ProcessMappings[i].file = "[vdso]"}}

TypeOK ==
    /\ phase \in {"resolve", "convert", "done"}
    /\ si \in 1..(MaxSamples + 1) /\ pos \in 1..(MaxKernelFrames + MaxUserFrames + 1)
    /\ locations \in Seq([id : Nat, mapping : DOMAIN PprofMappings,
                          address : Int, function : Nat])
    /\ functions \in Seq([id : Nat, name : KernelSyms \cup VdsoNames \cup JitSyms
                                         \cup {NotFound, Unknown}])
    /\ cachedPerfMap \in {"none", "ok", "err"}
    /\ frameDrops \in Nat

(* The location a frame of a raw sample should become, as the spec's       *)
(* routing table reads: kernel frames under the kernel mapping, named by   *)
(* the resolved symbol or "not found"; user frames under the mapping that  *)
(* holds their address.                                                    *)
KernelName(addr) ==
    IF addr \in DOMAIN kernelSymbols THEN kernelSymbols[addr] ELSE NotFound

Kept(stack) == SelectSeq(stack, LAMBDA a : mappingForAddr(a) # -1)

FrameMatches(l, s, j) ==
    LET k == s.kernelStack
        loc == locations[l]
    IN IF j <= Len(k)
       THEN /\ loc.mapping = KernelMappingId
            /\ loc.function # NoFunction
            /\ functions[loc.function].name = KernelName(k[j])
       ELSE loc.mapping = mappingForAddr(Kept(s.userStack)[j - Len(k)])

(* Convert, for every sample it has appended: the kernel frames come first *)
(* and in order, each user frame outside every mapping is dropped (and     *)
(* counted) while every other frame yields exactly one location, and each  *)
(* location is attributed to the mapping the frame came from.  This is the *)
(* frame-routing of Convert across the dedup indexes of earlier samples.   *)
SamplesMatchStacks ==
    /\ \A i \in DOMAIN samples :
          /\ Len(samples[i]) = Len(rawData[i].kernelStack) + Len(Kept(rawData[i].userStack))
          /\ \A j \in DOMAIN samples[i] : FrameMatches(samples[i][j], rawData[i], j)
    /\ phase = "done" =>
          frameDrops = Cardinality({ij \in (DOMAIN rawData) \X (1..MaxUserFrames) :
                                      /\ ij[2] \in DOMAIN rawData[ij[1]].userStack
                                      /\ mappingForAddr(rawData[ij[1]].userStack[ij[2]]) = -1})

IndexEntries == UNION {{<<k, key>> : key \in DOMAIN index[k]} : k \in LocationKinds}

(* The tables of the profile (spec, section 3): location and function ids *)
(* are dense and 1-based, every reference resolves, each dedup key of the  *)
(* five indexes resolves to one location holding that key, every location  *)
(* is reachable from exactly one key, and functions are unique by name.    *)
(* The four line paths share the function index while keeping separate    *)
(* location indexes, and the two JIT paths fall back to the address index  *)
(* that the native path also fills.                                        *)
ProfileTablesConsistent ==
    /\ \A l \in DOMAIN locations :
          /\ locations[l].id = l
          /\ locations[l].function \in {NoFunction} \cup DOMAIN functions
          /\ Cardinality({e \in IndexEntries : index[e[1]][e[2]] = l}) = 1
    /\ \A e \in IndexEntries :
          /\ index[e[1]][e[2]] \in DOMAIN locations
          /\ LET loc == locations[index[e[1]][e[2]]] IN
             IF e[1] = "addr"
             THEN loc.address = e[2] /\ loc.function = NoFunction
             ELSE loc.function # NoFunction /\ functions[loc.function].name = e[2]
    /\ DOMAIN functionIndex = {functions[f].name : f \in DOMAIN functions}
    /\ \A f \in DOMAIN functions :
          /\ functions[f].id = f
          /\ functionIndex[functions[f].name] = f
    /\ \A s \in Range(samples) \cup {cur} : Range(s) \subseteq DOMAIN locations

=============================================================================

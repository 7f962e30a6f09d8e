# TLA+ models of the parca-agent profile converter and debuginfo manager

This directory holds TLA+ models of the concurrent or stateful parts of the agent under
`src/`: the pprof converter and the debuginfo manager, with an abstract specification of the upload service the manager implements. It also models the VDSO symbol cache the converter calls (package `vdso`, bundled in `src/cmd/eh-frame/main.go`). It also holds the TLC
configurations that check them. `PROJECT.json` lists the following:

- every component;
- every run and its expected outcome;
- the mutants that show each property can fail;
- the source lines each definition models;
- the findings;
- the hazards of the code.

## 1. The system and its parts

| Part | Source | State | Operations | Status |
|---|---|---|---|---|
| Profile Converter | `src/pkg/pprof/pprof.go` | the mapping table, plus the per-call location and function tables with their dedup indexes (`addrLocationIndex`, `kernelLocationIndex`, `vdsoLocationIndex`, `perfmapLocationIndex`, `jitdumpLocationIndex`, `functionIndex`), and the memoised perf map and jitdumps | `NewConverter`, then `Convert` for the kernel pre-resolution and per-frame routing, and the `add*Location`, `addFunction`, `perfMap` and `jitdump` helpers | modelled |
| Debuginfo Manager | `src/pkg/debuginfo/manager.go` | `shouldInitiateCache` (write TTL), `hashCache` (access TTL), two singleflight groups, the upload semaphore, and `src.DebugFile` | `EnsureUploaded`, `shouldInitiate`, `ExtractOrFind`, `Extract`/`extract`, `Upload`/`upload`, `uploadFile` via gRPC or a signed URL, and `MarkUploadFinished` and `Close` | modelled (metrics and tracing left out) |
| VDSO symbol cache | `src/cmd/eh-frame/main.go` lines 110-272 (package `vdso`); the converter sees it as `VDSOSymbolizer` (pprof.go:33) | the constructor's step, candidates tried, the sorted symbol table | `NewCache`, `Resolve`, `NoopCache.Resolve` | modelled (the external symbolsearcher from `spec.md` §4.1) |
| Object-file pool | external (`objectfile`) | reference counts | `Open`, `HoldOn` | not modelled |
| eh-frame CLI | `src/cmd/eh-frame/main.go` lines 35-60 (a Dockerfile follows at 62-109) | none | prints a table built by package `unwind`, which is not in `src/` | not modelled (pure I/O) |
| Observability stack and docs CI | `src/scripts/local-observability/docker-compose.yaml`, `src/unnamed/part_000` | none | — | not modelled (configuration) |

### How the parts interact

- The profiler calls `Convert` once per batch of raw samples. The conversion calls out to the kernel-symbol resolver, the VDSO symbolizer and the perf-map and jitdump caches, but it touches no other agent state.
- The VDSO symbolizer is the VDSO cache that `NewCache` built at startup, or a no-op one when that failed. `MCPprofConverter` composes the two models: it instantiates `VDSOCache` (`INSTANCE ... WITH`, with the cache's state fixed to the built table) and hands its `ResolveAnswers` to the converter as `VdsoResolve`.
- Independently, each discovered executable leads to a call of `EnsureUploaded`. Many such calls run concurrently, and several can be for the same build ID.
- The converter and the manager share no state. A composition of those two would check nothing that the separate models do not, so there is none.

### What is hard here

- **Converter:** the dedup indexes are shared by kinds of frame that differ: native frames of every mapping, and JIT frames once JIT symbolization is disabled or its lookup fails. Together with partial failures (a failed kernel resolution, a failed map fetch, a failed lookup), this has to keep the tables consistent and keep every location on the mapping its frame came from.
- **Manager:** it interleaves singleflight `Do`/`Forget` across goroutines, races a semaphore wait against a context timeout, and mixes fail-open RPCs, TTL caches that expire at any time, and a multi-RPC upload protocol in which any step can fail.

## 2. Modules and how they correspond to the code

### `PprofConverter.tla`: one `Convert` call, from `NewConverter`

**Constants.** They give the process mappings, the dump-file names, the sets of kernel and user addresses, and the symbol names the kernel and JIT resolvers can return. `VdsoResolve(addr, m)` is an operator constant: the answers of the VDSO symbolizer. `DisableJITSymbolization` is the config flag. `MaxSamples`, `MaxKernelFrames` and `MaxUserFrames` bound the batch.

**Variables.** They follow the `Converter` struct:

- `locations`, `functions` and `functionIndex`;
- `index`: one function per location kind, for the five location indexes;
- `cachedPerfMap` and `cachedJitdump`.

Three more variables follow `Convert`'s local state:

- `si`, `pos` and `cur`: the loop counters and the sample under construction;
- `samples`;
- `kernelSymbols`.

`frameDrops` counts the `frameDrop` metric.

**Actions.** There is one action per step of the loop:

- `ResolveKernelSymbols` for lines 137-148;
- `addKernelLocation`;
- `UserFrame`, which routes by `mappingForAddr` into `addVDSOLocation`, `addPerfMapLocation`, `addJITDumpLocation` or `addAddrLocation`;
- `DropFrame`, for a user frame outside every mapping;
- `AppendSample`;
- `ConvertReturn`.

Each resolver answer (symbol, error, "not found") is a `\E` over a small set. `addVDSOLocation` takes an answer of `VdsoResolve` for the frame's own address and mapping, and `VdsoName` turns any error into `"unknown"` (pprof.go:235-239).

**Mappings.** `PprofMappings` appends the synthetic kernel mapping exactly as `NewConverter` does.

### `DebuginfoManager.tla`: concurrent `EnsureUploaded` calls for a set of callers

**Callers.** Each caller `p` has a program counter `pc[p]` at the points where the Go code blocks or changes shared state:

- the `shouldInitiate` RPC;
- the `src.DebugFile` read;
- `ExtractOrFind`;
- the singleflight waits;
- the token acquire;
- `upload`'s hash-cache lookup (`GetHash`), the read and hash of the file and the `Put` (`HashFile`), and `InitiateUpload`;
- the body transfer;
- `MarkUploadFinished`.

**Shared state.**

- `extractFlight` and `uploadFlight` are the singleflight maps, keyed by build ID. An entry is `NoCall` or a call record with its leader and outcome.
- `tokens` is the semaphore.
- `shouldInitiateCache` and `hashCache` are the caches.
- `debugFile` is `src.DebugFile`.
- `server` is the backend's view of each build ID: `none`, `initiated` or `uploaded`.
- `bodies` is a history variable: the set of build IDs whose body reached the server.
- `hashReads` is a history variable: per build ID, the files hashed since its hash-cache entry was last absent. `ExpireHash` resets it.
- `closed` is what `Close` has closed. `Close` is enabled once every caller has returned, the only moment at which the agent calls it. It closes the Finder and `shouldInitiateCache` but not `hashCache`. No property checks this, because what an unclosed burrow cache keeps running is decided by a package that is not in this tree.

**Two build IDs per call.** `b(p)` is `src.BuildID`, on which `EnsureUploaded`, `src.DebugFile` and extraction key. `ub(p)` is `dbg.BuildID`, on which `Upload` and `upload` key (line 363). The two differ only for a found file, through the constant `FoundBuildID`. It is the identity in every run except `manager_found_other`.

**How the model follows singleflight.**

- `Do` joins an existing call (`dups++`) or installs a new one.
- The leader's `doCall` deletes the entry only if it is still its own.
- `Forget` deletes unconditionally.

**Failures and expiry.**

- Every RPC and file operation may fail, and the token acquire may time out, each as a disjunct of its action.
- `ExpireShouldInitiate` and `ExpireHash` let a cache entry disappear at any time. This over-approximates both TTL policies.

### `DebuginfoUpload.tla`: the service the manager promises

This is the abstract specification. Per caller it has a status: `idle`, `busy`, `ok` or `fail`. Per build ID it has the server's state (`none → initiated → uploaded`, never backwards), the set of build IDs whose body arrived, and the skip set of the should-initiate cache. Its actions are:

- `Begin`: a call starts.
- `Succeed`: a call returns nil, which requires the server to have the file. The caller may remember it in the skip set in the same step.
- `Fail`: a started call returns an error.
- `Open`: the server opens an upload.
- `Receive`: a body arrives, only into an opened upload.
- `Finish`: an upload is marked finished, only after its body arrived.
- `Remember` and `Evict`: the skip set gains or loses a build ID.

Its fairness says that every call eventually returns.

`DebuginfoManager` ends with the refinement mapping `Service == INSTANCE DebuginfoUpload WITH ...`:

- `status` comes from `pc` and `ret`;
- `stored` is `server`;
- `received` is the build IDs in `bodies`;
- `skip` is `shouldInitiateCache`.

Singleflight, tokens, extraction and hashing map to stuttering steps. `ImplementsService == Service!Spec` is checked as a `PROPERTY`.

### `VDSOCache.tla` and `SymbolSearcher.tla`: the VDSO symbol cache

It translates `NewCache` and `Resolve` of package `vdso` (main.go:190-272). The `symbolsearcher` package is not in this tree, so the search alone is taken from `spec.md` §4.1, kept in its own module `SymbolSearcher` and marked `spec_modelled` in `PROJECT.json`. `ResolveAnswers(t, addr, m)` and `NoopAnswer(addr)` give the answers of a built and of a no-op cache; the `Resolve` actions and the converter's composition both use them.

- `KernelRelease` may fail (line 191).
- `OpenCandidate` tries `vdso.so` and then `vdso64.so` through the pool and breaks at the first that opens. When both fail, `obj` is nil and `NewCache` returns `merr` (lines 201-213).
- The code opens `/usr/lib/modules/<release>/vdso/<candidate>` (line 202), while `spec.md` §4.1 names `/usr/lib/modules/<release>/<candidate>`. The path is a string and is left out of the model.
- `LoadSymbols`: `obj.ELF()` or `DynamicSymbols()` may fail; otherwise the searcher is built over a table chosen among all tables sorted by start address, size-0 entries included (section and absolute symbols, as the readelf listing at lines 218-230 shows).
- Every construction failure leads to `failed`. The converter then holds a no-op symbolizer, and `ResolveNoop` models both `NoopCache.Resolve` (line 181) and `Resolve` on a nil `*Cache` (lines 242-244). Both return `("", nil)`, whatever the mapping.
- `Resolve` returns `MappingNil` for a nil mapping and `AddressOutOfRange` outside the mapping. It returns `BaseCalculation` or `Unknown` when `Normalize` fails. Otherwise it searches the table.
- The search is a recursive binary search, `LastAtOrBelow`, followed by the `[start, start+size)` check.
- The result counters are left out.

## 3. Runs

| Run | Config | Expect | What it shows |
|---|---|---|---|
| converter_jit | `MCPprofConverter.cfg` | pass | With JIT symbolization on, `TypeOK`, `SamplesMatchStacks` and `ProfileTablesConsistent` hold over every batch of up to 2 samples. The VDSO symbolizer is the VDSO cache model with a built table, so its names, its `unknown` and the name `vs1` it shares with the perf map all meet in the one function table. |
| converter_nojit | `MCPprofConverterNoJit.cfg` | pass | `SamplesMatchStacks` and `ProfileTablesConsistent`: with JIT symbolization disabled, JIT frames fall back to address locations and share the address index, and the tables stay consistent. The VDSO symbolizer is the no-op one that a failed `NewCache` leaves, so VDSO frames share one location of function `""`. |
| converter_offset_collision | `MCPprofConverterCollision.cfg` | violation | libc and libm both map file offset 0. Address dedup (pprof.go:274) ignores the mapping, so a libm frame gets libc's location. |
| manager_safety | `MCDebuginfoManagerSafety.cfg` | pass | 3 callers, 1 build ID, 2 tokens, stripping on, caches on. A cached skip or a nil return always means the server has the file (`CacheImpliesUploaded`, `SuccessImpliesUploaded`), and `MarkUploadFinished` only follows a received body (`UploadedOnlyWithBody`). |
| manager_liveness | `MCDebuginfoManagerLiveness.cfg` | pass | With 2 tokens, stripping on and 3 callers, every call returns and every token comes back (`AllCallsReturn`), including callers that wait on an extract or upload leader, share its success or failure and run `Forget`. |
| manager_refinement | `MCDebuginfoManagerRefinement.cfg` | pass | 3 callers, 2 tokens, stripping off: the manager implements `DebuginfoUpload` (`ImplementsService`). With two tokens a second caller can wait in `uploadSingleflight` while the first leads, so the run includes shared results and the interleavings in which the `Forget` race runs two uploads of one build ID at once. The race costs duplicate work but never moves the server backwards, sends a body outside an opened upload, or returns nil early. |
| vdso_cache | `MCVDSOCache.cfg` | pass | `TypeOK` over `NewCache` and one `Resolve` on every sorted table of up to 3 symbols on addresses 0..5 (593k states): the constructor's failures, the no-op cache and every error `Resolve` returns. The search itself is the project's own (the `symbolsearcher` package is not in this tree), so no property is stated about it. |
| converter_jit_symbol_collision | `MCPprofConverterJitCollision.cfg` | violation | With two `jit` regions and the same perf-map symbol in both, the second region's frame gets the first region's location (pprof.go:313). |
| manager_upload_race | `MCDebuginfoManagerUploadRace.cfg` | violation | `UploadSingleFlight` fails. The unconditional `Forget` at manager.go:399 deletes the next leader's entry, and a third caller uploads concurrently. |
| manager_extract_race | `MCDebuginfoManagerExtractRace.cfg` | violation | `ExtractSingleFlight` fails by the same mechanism through the shared-failure `Forget` at manager.go:280. It takes 4 callers: a leader with a waiter, a new leader, and the caller that gets in. |
| manager_hash_race | `MCDebuginfoManagerHashRace.cfg` | violation | `HashedOncePerTTL` fails (spec §8: one hash I/O per (build ID, modtime) within the TTL). The first upload fails while hashing, the upload `Forget` race lets two uploads of the build ID run at once, and both miss the hash cache between the lookup (manager.go:442) and the `Put`. |
| manager_found_other | `MCDebuginfoManagerFoundOther.cfg` | violation | `SuccessImpliesUploaded` fails once the Finder finds, for src b1, a debuginfo file of build ID b2 (`FoundBuildID`). The comment at manager.go:182-184 allows this. `Upload` keys on `dbg.BuildID` (line 363), so b2 is uploaded, the call returns nil, and b1 never reaches the server or the should-initiate cache. |

Every property of a passing run has a mutant in `PROJECT.json`: a plausible bug in a mapped definition that TLC shows breaks it. Examples are a dropped index update, a missing reset of the sample under construction, a semaphore acquire without a bound, a token never released, and an RPC error ignored.

### Bounds and why they suffice

**Converter.**

- The bounds are 2 samples, 2 kernel frames and 1 user frame per sample.
- User addresses are chosen so that a frame hits each kind of mapping (native, vdso, perf-map JIT, jitdump JIT) and one hits none (address 8). The `[vdso]` mapping holds two addresses, which the VDSO table resolves to different functions, so a location reused by name for the wrong address would show.
- Two samples are enough to exercise reuse of every index across samples, and re-use of the memoised perf map and jitdump.
- Two kernel frames per sample exercise reuse within one sample and the ordering of kernel frames.

**Manager.**

- One build ID suffices because the callers of different build IDs touch disjoint map entries and cache keys. They interact only through the semaphore.
- No run disables the caches. `ExpireShouldInitiate` and `ExpireHash` may empty a cache at any moment, so the cached model already contains every behaviour of the no-op caches `New` installs when caching is disabled.
- `manager_found_other` uses two build IDs, the src's and the found file's. One caller would already show the violation; the run keeps the three callers of the safety run.
- Three callers are the fewest that expose the upload race.
- The liveness and refinement runs have two tokens. With one token no caller could ever wait in `uploadSingleflight`: a waiter holds a token before `Do` (line 391), and the leader holds the only one until its goroutine ends. Two tokens let a waiter share the leader's result and let the `Forget` race start a second upload while the first is in flight; TLC confirms both states are reached.
- Those two runs give the server only the `GRPC` strategy. `SIGNED_URL` differs from it only in the transport, which the model does not tell apart, and `UNSPECIFIED` fails exactly as a failed transfer does, which `uploadFile` offers anyway. The safety runs give all three.
- Four callers are the fewest that expose the extract race.
- The refinement run turns stripping off. Extraction only adds ways for a call to fail, and `Extract` still offers those (`src.ELF()` failing). Without stripping the run finishes in under two minutes.
- The VDSO run checks one `Resolve` per behaviour, but over every table of up to 3 symbols with sizes 0..2. That covers empty tables, aliases, adjacent and gapped symbols, and addresses before, inside, between and after them. An odd-length and an even-length table each give both branches of the binary search.
- The safety cfgs use symmetry over callers. This is sound because every caller runs the same code on the same build ID and the invariants are symmetric. The liveness cfg uses no symmetry.

## 4. Fairness

`Spec` in the manager requires weak fairness of each caller's `Step(p)`. The code justifies this:

- Each caller is a goroutine that Go schedules.
- From `Upload` on, the token wait, every RPC of `upload` and the transfer run under the upload timeout (`context.WithTimeout` at line 357).
- The first `shouldInitiate` call (line 147) and `ExtractOrFind` run under the caller's context, with no timeout of the manager's own. For them fairness is an assumption about the environment: the agent's context and the debuginfo server eventually answer, with a result or an error.

The model therefore lets any waiting step end in a failure. Cache expiry is an environment action and is not assumed to be fair, so liveness does not depend on eviction.

The converter is sequential, and none of its properties is a liveness property.

## 5. What is not modelled, and why

- All metrics and tracing. Metrics are write-only counters that no property observes.
- The reference counting of object files (`HoldOn`, `objectfile.Pool`), which is outside `src/`. So is the `symbolsearcher` package, whose search the VDSO model takes from the spec.
- The content of sample values. The `int64` conversion at pprof.go:152 would only wrap for counts of 2^63 or more, which a sampler does not produce.
- The names that symbolization produces. They are abstracted to a few model values.
- `main()` of the eh-frame tool (main.go:35-60). It parses flags and prints a table built by package `unwind`, which is not in `src/`. The Dockerfile bundled at main.go:62-109 is build configuration.
- `process.Mapping.Normalize` is outside `src/`. The VDSO model normalizes as `addr - start + offset` and lets the two errors it classifies happen at any address of the mapping.
- Modtime granularity in the hash-cache key (manager.go:435). There is one file version per build ID, so a file rewritten within the same second, which would reuse a stale hash, is not modelled.
- The FIFO order of `semaphore.Weighted`. The model lets any waiter take a free token. This is a superset of the FIFO behaviours, which is sound for the safety properties. Liveness holds even so, because a waiter can always time out.

## 6. Plan for further work

1. Repeated discovery of the same executable: a caller that retries after a failure, to check that retries eventually succeed when the backend does.
2. File versions with a modtime, to check the hash-cache key of manager.go:435 against a rewrite within one second.
3. A converter run in which the perf-map cache returns `(nil, nil)` (pprof.go:331), to show that the missing memo refetches. The converter then needs fetch counters again; they were removed with the property that only restated the memo checks.

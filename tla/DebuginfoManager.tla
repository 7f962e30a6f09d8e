-------------------------- MODULE DebuginfoManager --------------------------
(***************************************************************************)
(* debuginfo.Manager (src/pkg/debuginfo/manager.go): concurrent            *)
(* EnsureUploaded calls, one goroutine each, for the object files of       *)
(* discovered processes.  A call checks shouldInitiate, finds or extracts  *)
(* the debuginfo file (extraction deduplicated by extractSingleflight),    *)
(* then uploads it under the uploadTaskTokens semaphore, deduplicated by   *)
(* uploadSingleflight: hash, InitiateUpload, body transfer, then           *)
(* MarkUploadFinished.                                                     *)
(*                                                                         *)
(* Each caller is a process with a program counter; one step is one        *)
(* critical section or one call to a collaborator.  The debuginfo server   *)
(* keeps, per build ID, whether an upload was initiated or marked finished *)
(* and which uploaders sent it a body.  Every RPC, the finder, the pool,   *)
(* the extractor and the reader may fail; the upload timeout makes the     *)
(* semaphore wait and every RPC of the upload fail.                        *)
(***************************************************************************)
EXTENDS Integers, FiniteSets

CONSTANTS
    Callers,          \* goroutines calling EnsureUploaded
    BuildIDs,         \* build IDs of the object files
    Target,           \* Callers -> BuildIDs: the src each caller passes
    FoundBuildID,     \* BuildIDs -> BuildIDs: build ID of the file the Finder finds for a src
    MaxParallel,      \* uploadMaxParallel: width of uploadTaskTokens
    StripDebuginfos,  \* di.stripDebuginfos
    HasText,          \* BuildIDs -> BOOLEAN: hasTextSection of the src ELF
    CacheDisabled,    \* New(... cacheDisabled ...): both caches are no-ops
    Strategies,       \* UploadInstructions.UploadStrategy values the server answers
    NoCall            \* no singleflight call / no debug file

ASSUME /\ Target \in [Callers -> BuildIDs]
       /\ FoundBuildID \in [BuildIDs -> BuildIDs]
       /\ MaxParallel \in Nat \ {0}
       /\ StripDebuginfos \in BOOLEAN /\ CacheDisabled \in BOOLEAN
       /\ HasText \in [BuildIDs -> BOOLEAN]
       /\ NoCall \notin Callers
       /\ Strategies \subseteq {"GRPC", "SIGNED_URL", "UNSPECIFIED"}

VARIABLES
    pc,                   \* Callers -> program counter
    ret,                  \* Callers -> "ok" | "fail": error EnsureUploaded returned
    dbg,                  \* Callers -> local dbg object file
    debugFile,            \* BuildIDs -> src.DebugFile
    shouldInitiateCache,  \* build IDs present in di.shouldInitiateCache
    hashCache,            \* build IDs present in di.hashCache (one modtime each)
    extractFlight,        \* extractSingleflight's map: BuildIDs -> leader | NoCall
    uploadFlight,         \* uploadSingleflight's map
    extractCall,          \* Callers -> [state, dups]: the extract call a caller leads
    uploadCall,           \* Callers -> [state, dups]: the upload call a caller leads
    joined,               \* Callers -> leader whose call the caller waits on
    tokens,               \* uploadTaskTokens in use
    strategy,             \* Callers -> UploadStrategy of the caller's instructions
    server,               \* BuildIDs -> "none" | "initiated" | "uploaded"
    bodies,               \* <<build ID, uploader>> pairs whose body the server received
    hashReads,            \* BuildIDs -> files hashed since the hashCache entry was last absent
    closed                \* what Close has closed

vars == <<pc, ret, dbg, debugFile, shouldInitiateCache, hashCache, extractFlight,
          uploadFlight, extractCall, uploadCall, joined, tokens, strategy, server, bodies,
          hashReads, closed>>

DebugFiles == {"found", "extracted", "src"}   \* which object file dbg is

\* src.BuildID: EnsureUploaded, ExtractOrFind and Extract key on it.
b(p) == Target[p]

\* dbg.BuildID: Upload and upload key on it.  Extraction keeps the build
\* ID; a file the Finder found may carry another (manager.go:182-184).
ub(p) == IF dbg[p] = "found" THEN FoundBuildID[b(p)] ELSE b(p)

\* burrow cache Put; the noop cache of New when cacheDisabled drops it.
Put(cache, key) == IF CacheDisabled THEN cache ELSE cache \cup {key}
Cached(cache, key) == ~CacheDisabled /\ key \in cache

Goto(p, l) == pc' = [pc EXCEPT ![p] = l]
Return(p, r) == /\ pc' = [pc EXCEPT ![p] = "done"]
                /\ ret' = [ret EXCEPT ![p] = r]

(* dbg, then src.DebugFile = dbg (EnsureUploaded after ExtractOrFind).     *)
SetDebugFile(p, f) ==
    /\ dbg' = [dbg EXCEPT ![p] = f]
    /\ debugFile' = [debugFile EXCEPT ![b(p)] = f]

-----------------------------------------------------------------------------
\* Mutant: a failed ShouldInitiateUpload is cached like a "no" (fail closed).
shouldInitiateCachingErrors(id, Initiate, Skip) ==
    \/ /\ Cached(shouldInitiateCache, id)
       /\ Skip
       /\ UNCHANGED shouldInitiateCache
    \/ /\ ~Cached(shouldInitiateCache, id)
       /\ \/ /\ server[id] = "uploaded"
             /\ shouldInitiateCache' = Put(shouldInitiateCache, id)
             /\ Skip
          \/ /\ server[id] # "uploaded"
             /\ Initiate
             /\ UNCHANGED shouldInitiateCache
          \/ /\ shouldInitiateCache' = Put(shouldInitiateCache, id)
             /\ Skip

(* shouldInitiate: a cached build ID is skipped; otherwise the server is   *)
(* asked, a "no" is cached and skipped, and a "yes" or an error (fail      *)
(* open) initiates.  Initiate and Skip are the caller's continuations.     *)
shouldInitiate(id, Initiate, Skip) ==
    \/ /\ Cached(shouldInitiateCache, id)
       /\ Skip
       /\ UNCHANGED shouldInitiateCache
    \/ /\ ~Cached(shouldInitiateCache, id)
       /\ \/ /\ server[id] = "uploaded"
             /\ shouldInitiateCache' = Put(shouldInitiateCache, id)
             /\ Skip
          \/ /\ server[id] # "uploaded"
             /\ Initiate
             /\ UNCHANGED shouldInitiateCache
          \/ /\ Initiate            \* ShouldInitiateUpload returned an error
             /\ UNCHANGED shouldInitiateCache

(* EnsureUploaded, first step: skip what needs no upload.                  *)
EnsureUploaded(p) ==
    /\ pc[p] = "start"
    /\ shouldInitiate(b(p), Goto(p, "debugFile") /\ UNCHANGED ret, Return(p, "ok"))
    /\ UNCHANGED <<dbg, debugFile, hashCache, extractFlight, uploadFlight, extractCall,
                   uploadCall, joined, tokens, strategy, server, bodies, hashReads, closed>>

(* EnsureUploaded reads src.DebugFile: reuse it, or find or extract one.   *)
ReadDebugFile(p) ==
    /\ pc[p] = "debugFile"
    /\ IF debugFile[b(p)] # NoCall
       THEN /\ dbg' = [dbg EXCEPT ![p] = debugFile[b(p)]]
            /\ Goto(p, "acquire")
       ELSE /\ Goto(p, "find")
            /\ UNCHANGED dbg
    /\ UNCHANGED <<ret, debugFile, shouldInitiateCache, hashCache, extractFlight,
                   uploadFlight, extractCall, uploadCall, joined, tokens, strategy,
                   server, bodies, hashReads, closed>>

(* ExtractOrFind: a debuginfo file the Finder finds and the pool opens is  *)
(* used; otherwise extraction follows.                                     *)
Find(p) ==
    /\ pc[p] = "find"
    /\ \/ /\ SetDebugFile(p, "found")
          /\ Goto(p, "acquire")
       \/ /\ Goto(p, "extract")     \* not found, or Open failed
          /\ UNCHANGED <<dbg, debugFile>>
    /\ UNCHANGED <<ret, shouldInitiateCache, hashCache, extractFlight, uploadFlight,
                   extractCall, uploadCall, joined, tokens, strategy, server, bodies, hashReads, closed>>

(* Extract: without stripping or a .text section the src is its own debug  *)
(* file; otherwise extractSingleflight.Do joins the extraction in flight   *)
(* for the build ID or installs a new one led by this caller.              *)
Extract(p) ==
    /\ pc[p] = "extract"
    /\ \/ /\ Return(p, "fail")      \* src.ELF() failed
          /\ UNCHANGED <<dbg, debugFile, extractFlight, extractCall, joined>>
       \/ /\ ~(StripDebuginfos /\ HasText[b(p)])
          /\ SetDebugFile(p, "src")
          /\ Goto(p, "acquire")
          /\ UNCHANGED <<ret, extractFlight, extractCall, joined>>
       \/ /\ StripDebuginfos /\ HasText[b(p)]
          /\ LET q == extractFlight[b(p)] IN
             IF q # NoCall
             THEN /\ extractCall' = [extractCall EXCEPT ![q].dups = @ + 1]
                  /\ joined' = [joined EXCEPT ![p] = q]
                  /\ Goto(p, "extractWait")
                  /\ UNCHANGED extractFlight
             ELSE /\ extractFlight' = [extractFlight EXCEPT ![b(p)] = p]
                  /\ extractCall' = [extractCall EXCEPT ![p] = [state |-> "running", dups |-> 0]]
                  /\ Goto(p, "extracting")
                  /\ UNCHANGED joined
          /\ UNCHANGED <<ret, dbg, debugFile>>
    /\ UNCHANGED <<shouldInitiateCache, hashCache, uploadFlight, uploadCall, tokens,
                   strategy, server, bodies, hashReads, closed>>

(* The leader runs extract (temp file, reader, strip, seek, pool.NewFile,  *)
(* any of which may fail); singleflight's doCall then records the result   *)
(* and deletes the map entry if it is still this call's.                   *)
extract(p) ==
    /\ pc[p] = "extracting"
    /\ \E r \in {"ok", "fail"} : extractCall' = [extractCall EXCEPT ![p].state = r]
    /\ extractFlight' = IF extractFlight[b(p)] = p
                        THEN [extractFlight EXCEPT ![b(p)] = NoCall] ELSE extractFlight
    /\ Goto(p, "extractReturn")
    /\ UNCHANGED <<ret, dbg, debugFile, shouldInitiateCache, hashCache, uploadFlight,
                   uploadCall, joined, tokens, strategy, server, bodies, hashReads, closed>>

(* Extract after Do returned the result r of the call led by q: on error, *)
(* Forget(buildID) when the result was shared, and fail; else the         *)
(* extracted file becomes src.DebugFile.                                  *)
ExtractDone(p, q, shared) ==
    IF extractCall[q].state = "fail"
    THEN /\ extractFlight' = IF shared THEN [extractFlight EXCEPT ![b(p)] = NoCall]
                                       ELSE extractFlight
         /\ Return(p, "fail")
         /\ UNCHANGED <<dbg, debugFile>>
    ELSE /\ SetDebugFile(p, "extracted")
         /\ Goto(p, "acquire")
         /\ UNCHANGED <<ret, extractFlight>>

ExtractLeaderReturn(p) ==
    /\ pc[p] = "extractReturn"
    /\ ExtractDone(p, p, extractCall[p].dups > 0)
    /\ UNCHANGED <<shouldInitiateCache, hashCache, uploadFlight, extractCall, uploadCall,
                   joined, tokens, strategy, server, bodies, hashReads, closed>>

ExtractWaiterReturn(p) ==
    /\ pc[p] = "extractWait"
    /\ extractCall[joined[p]].state # "running"
    /\ ExtractDone(p, joined[p], TRUE)
    /\ UNCHANGED <<shouldInitiateCache, hashCache, uploadFlight, extractCall, uploadCall,
                   joined, tokens, strategy, server, bodies, hashReads, closed>>

-----------------------------------------------------------------------------
\* Mutant: the token is taken without waiting for a free one.
AcquireTokenUnbounded(p) ==
    /\ pc[p] = "acquire"
    /\ \/ /\ tokens' = tokens + 1
          /\ Goto(p, "uploadDo")
          /\ UNCHANGED ret
       \/ /\ Return(p, "fail")
          /\ UNCHANGED tokens
    /\ UNCHANGED <<dbg, debugFile, shouldInitiateCache, hashCache, extractFlight,
                   uploadFlight, extractCall, uploadCall, joined, strategy, server, bodies, hashReads, closed>>

(* Upload's goroutine acquires a token of uploadTaskTokens; the upload     *)
(* timeout may end the wait, failing EnsureUploaded.                       *)
AcquireToken(p) ==
    /\ pc[p] = "acquire"
    /\ \/ /\ tokens < MaxParallel
          /\ tokens' = tokens + 1
          /\ Goto(p, "uploadDo")
          /\ UNCHANGED ret
       \/ /\ Return(p, "fail")
          /\ UNCHANGED tokens
    /\ UNCHANGED <<dbg, debugFile, shouldInitiateCache, hashCache, extractFlight,
                   uploadFlight, extractCall, uploadCall, joined, strategy, server, bodies, hashReads, closed>>

(* uploadSingleflight.Do: join the upload in flight for the build ID or    *)
(* lead a new one.                                                         *)
UploadDo(p) ==
    /\ pc[p] = "uploadDo"
    /\ LET q == uploadFlight[ub(p)] IN
       IF q # NoCall
       THEN /\ uploadCall' = [uploadCall EXCEPT ![q].dups = @ + 1]
            /\ joined' = [joined EXCEPT ![p] = q]
            /\ Goto(p, "uploadWait")
            /\ UNCHANGED uploadFlight
       ELSE /\ uploadFlight' = [uploadFlight EXCEPT ![ub(p)] = p]
            /\ uploadCall' = [uploadCall EXCEPT ![p] = [state |-> "running", dups |-> 0]]
            /\ Goto(p, "upload")
            /\ UNCHANGED joined
    /\ UNCHANGED <<ret, dbg, debugFile, shouldInitiateCache, hashCache, extractFlight,
                   extractCall, tokens, strategy, server, bodies, hashReads, closed>>

(* upload returns r: singleflight's doCall records it and deletes the map *)
(* entry if it is still this call's.                                      *)
UploadFinish(p, r) ==
    /\ uploadCall' = [uploadCall EXCEPT ![p].state = r]
    /\ uploadFlight' = IF uploadFlight[ub(p)] = p
                       THEN [uploadFlight EXCEPT ![ub(p)] = NoCall] ELSE uploadFlight
    /\ Goto(p, "uploadReturn")

(* upload, first step: shouldInitiate again, the server may have the file *)
(* by now.                                                                 *)
uploadShouldInitiate(p) ==
    /\ pc[p] = "upload"
    /\ shouldInitiate(ub(p), Goto(p, "hash") /\ UNCHANGED <<uploadCall, uploadFlight>>,
                         UploadFinish(p, "ok"))
    /\ UNCHANGED <<ret, dbg, debugFile, hashCache, extractFlight, extractCall, joined,
                   tokens, strategy, server, bodies, hashReads, closed>>

(* The hash: hashCache.GetIfPresent, then on a miss the file is read and  *)
(* hashed, which takes long, and the hash is Put; other uploads run in     *)
(* between the miss and the Put.                                           *)
GetHash(p) ==
    /\ pc[p] = "hash"
    /\ Goto(p, IF Cached(hashCache, ub(p)) THEN "initiate" ELSE "hashing")
    /\ UNCHANGED <<ret, dbg, debugFile, shouldInitiateCache, hashCache, extractFlight,
                   uploadFlight, extractCall, uploadCall, joined, tokens, strategy,
                   server, bodies, hashReads, closed>>

HashFile(p) ==
    /\ pc[p] = "hashing"
    /\ \/ /\ UploadFinish(p, "fail")      \* Reader or hash.Reader failed
          /\ UNCHANGED <<hashCache, hashReads>>
       \/ /\ hashCache' = Put(hashCache, ub(p))
          /\ hashReads' = [hashReads EXCEPT ![ub(p)] = @ + 1]
          /\ Goto(p, "initiate")
          /\ UNCHANGED <<uploadCall, uploadFlight>>
    /\ UNCHANGED <<ret, dbg, debugFile, shouldInitiateCache, extractFlight, extractCall,
                   joined, tokens, strategy, server, bodies, closed>>

\* Mutant: an InitiateUpload error other than AlreadyExists is not checked
\* and the body is sent anyway.
InitiateUploadIgnoringError(p) ==
    /\ pc[p] = "initiate"
    /\ \/ /\ server[ub(p)] = "uploaded"
          /\ shouldInitiateCache' = Put(shouldInitiateCache, ub(p))
          /\ UploadFinish(p, "ok")
          /\ UNCHANGED <<server, strategy>>
       \/ /\ server[ub(p)] # "uploaded"
          /\ server' \in {server, [server EXCEPT ![ub(p)] = "initiated"]}
          /\ \E st \in Strategies : strategy' = [strategy EXCEPT ![p] = st]
          /\ Goto(p, "transfer")
          /\ UNCHANGED <<shouldInitiateCache, uploadCall, uploadFlight>>
    /\ UNCHANGED <<ret, dbg, debugFile, hashCache, extractFlight, extractCall, joined,
                   tokens, bodies, hashReads, closed>>

(* InitiateUpload: AlreadyExists is cached and is a success; otherwise the *)
(* server opens an upload and answers with an upload strategy.             *)
InitiateUpload(p) ==
    /\ pc[p] = "initiate"
    /\ \/ /\ UploadFinish(p, "fail")      \* InitiateUpload failed
          /\ UNCHANGED <<shouldInitiateCache, server, strategy>>
       \/ /\ server[ub(p)] = "uploaded"      \* codes.AlreadyExists
          /\ shouldInitiateCache' = Put(shouldInitiateCache, ub(p))
          /\ UploadFinish(p, "ok")
          /\ UNCHANGED <<server, strategy>>
       \/ /\ server[ub(p)] # "uploaded"
          /\ server' = [server EXCEPT ![ub(p)] = "initiated"]
          /\ \E st \in Strategies : strategy' = [strategy EXCEPT ![p] = st]
          /\ Goto(p, "transfer")
          /\ UNCHANGED <<shouldInitiateCache, uploadCall, uploadFlight>>
    /\ UNCHANGED <<ret, dbg, debugFile, hashCache, extractFlight, extractCall, joined,
                   tokens, bodies, hashReads, closed>>

\* Mutant: the error of uploadFile is dropped and the upload is marked finished.
uploadFileIgnoringError(p) ==
    /\ pc[p] = "transfer"
    /\ \/ /\ strategy[p] \in {"GRPC", "SIGNED_URL"}
          /\ bodies' = bodies \cup {<<ub(p), p>>}
       \/ UNCHANGED bodies
    /\ Goto(p, "mark")
    /\ UNCHANGED <<ret, dbg, debugFile, shouldInitiateCache, hashCache, extractFlight,
                   extractCall, uploadCall, uploadFlight, joined, tokens, strategy, server, hashReads, closed>>

(* uploadFile: the body goes over gRPC or to the signed URL; an unspecified *)
(* or unknown strategy, a reader error, a transport error or a non-2xx     *)
(* status fails the upload.                                                *)
uploadFile(p) ==
    /\ pc[p] = "transfer"
    /\ \/ /\ strategy[p] \in {"GRPC", "SIGNED_URL"}
          /\ bodies' = bodies \cup {<<ub(p), p>>}
          /\ Goto(p, "mark")
          /\ UNCHANGED <<uploadCall, uploadFlight>>
       \/ /\ UploadFinish(p, "fail")
          /\ UNCHANGED bodies
    /\ UNCHANGED <<ret, dbg, debugFile, shouldInitiateCache, hashCache, extractFlight,
                   extractCall, joined, tokens, strategy, server, hashReads, closed>>

\* Mutant: the error of MarkUploadFinished is dropped.
MarkUploadFinishedIgnoringError(p) ==
    /\ pc[p] = "mark"
    /\ \/ /\ server' = [server EXCEPT ![ub(p)] = "uploaded"]
          /\ UploadFinish(p, "ok")
       \/ /\ UploadFinish(p, "ok")
          /\ UNCHANGED server
    /\ UNCHANGED <<ret, dbg, debugFile, shouldInitiateCache, hashCache, extractFlight,
                   extractCall, joined, tokens, strategy, bodies, hashReads, closed>>

(* MarkUploadFinished, after the body was transferred.                     *)
MarkUploadFinished(p) ==
    /\ pc[p] = "mark"
    /\ \/ /\ server' = [server EXCEPT ![ub(p)] = "uploaded"]
          /\ UploadFinish(p, "ok")
       \/ /\ UploadFinish(p, "fail")
          /\ UNCHANGED server
    /\ UNCHANGED <<ret, dbg, debugFile, shouldInitiateCache, hashCache, extractFlight,
                   extractCall, joined, tokens, strategy, bodies, hashReads, closed>>

\* Mutant: the token is released only when the upload succeeded.
UploadDoneLeakingToken(p, q) ==
    /\ uploadFlight' = IF uploadCall[q].state = "fail"
                       THEN [uploadFlight EXCEPT ![ub(p)] = NoCall] ELSE uploadFlight
    /\ tokens' = IF uploadCall[q].state = "fail" THEN tokens ELSE tokens - 1
    /\ Return(p, uploadCall[q].state)

(* Upload's goroutine after Do returned the result of the call led by q:   *)
(* a failed upload is forgotten (not cached), the token is released and   *)
(* the error is the one EnsureUploaded returns.                            *)
UploadDone(p, q) ==
    /\ uploadFlight' = IF uploadCall[q].state = "fail"
                       THEN [uploadFlight EXCEPT ![ub(p)] = NoCall] ELSE uploadFlight
    /\ tokens' = tokens - 1
    /\ Return(p, uploadCall[q].state)

UploadLeaderReturn(p) ==
    /\ pc[p] = "uploadReturn"
    /\ UploadDone(p, p)
    /\ UNCHANGED <<dbg, debugFile, shouldInitiateCache, hashCache, extractFlight,
                   extractCall, uploadCall, joined, strategy, server, bodies, hashReads, closed>>

UploadWaiterReturn(p) ==
    /\ pc[p] = "uploadWait"
    /\ uploadCall[joined[p]].state # "running"
    /\ UploadDone(p, joined[p])
    /\ UNCHANGED <<dbg, debugFile, shouldInitiateCache, hashCache, extractFlight,
                   extractCall, uploadCall, joined, strategy, server, bodies, hashReads, closed>>

-----------------------------------------------------------------------------
(* The caches' own eviction: write TTL of shouldInitiateCache, access TTL  *)
(* of hashCache.                                                           *)
ExpireShouldInitiate(id) ==
    /\ id \in shouldInitiateCache
    /\ shouldInitiateCache' = shouldInitiateCache \ {id}
    /\ UNCHANGED <<pc, ret, dbg, debugFile, hashCache, extractFlight, uploadFlight,
                   extractCall, uploadCall, joined, tokens, strategy, server, bodies, hashReads, closed>>

ExpireHash(id) ==
    /\ id \in hashCache
    /\ hashCache' = hashCache \ {id}
    /\ hashReads' = [hashReads EXCEPT ![id] = 0]
    /\ UNCHANGED <<pc, ret, dbg, debugFile, shouldInitiateCache, extractFlight,
                   uploadFlight, extractCall, uploadCall, joined, tokens, strategy,
                   server, bodies, closed>>

(* Close, once the agent has stopped calling EnsureUploaded: it closes the *)
(* Finder and shouldInitiateCache.                                         *)
Close ==
    /\ \A p \in Callers : pc[p] = "done"
    /\ closed = {}
    /\ closed' = {"Finder", "shouldInitiateCache"}
    /\ UNCHANGED <<pc, ret, dbg, debugFile, shouldInitiateCache, hashCache, extractFlight,
                   uploadFlight, extractCall, uploadCall, joined, tokens, strategy,
                   server, bodies, hashReads>>

Init ==
    /\ pc = [p \in Callers |-> "start"]
    /\ ret = [p \in Callers |-> "none"]
    /\ dbg = [p \in Callers |-> NoCall]
    /\ debugFile = [id \in BuildIDs |-> NoCall]
    /\ shouldInitiateCache = {}
    /\ hashCache = {}
    /\ extractFlight = [id \in BuildIDs |-> NoCall]
    /\ uploadFlight = [id \in BuildIDs |-> NoCall]
    /\ extractCall = [p \in Callers |-> [state |-> "none", dups |-> 0]]
    /\ uploadCall = [p \in Callers |-> [state |-> "none", dups |-> 0]]
    /\ joined = [p \in Callers |-> NoCall]
    /\ tokens = 0
    /\ strategy = [p \in Callers |-> "UNSPECIFIED"]
    /\ server = [id \in BuildIDs |-> "none"]
    /\ bodies = {}
    /\ hashReads = [id \in BuildIDs |-> 0]
    /\ closed = {}

Step(p) ==
    \/ EnsureUploaded(p)
    \/ ReadDebugFile(p)
    \/ Find(p)
    \/ Extract(p)
    \/ extract(p)
    \/ ExtractLeaderReturn(p)
    \/ ExtractWaiterReturn(p)
    \/ AcquireToken(p)
    \/ UploadDo(p)
    \/ uploadShouldInitiate(p)
    \/ GetHash(p)
    \/ HashFile(p)
    \/ InitiateUpload(p)
    \/ uploadFile(p)
    \/ MarkUploadFinished(p)
    \/ UploadLeaderReturn(p)
    \/ UploadWaiterReturn(p)

Next ==
    \/ \E p \in Callers : Step(p)
    \/ \E id \in BuildIDs : ExpireShouldInitiate(id) \/ ExpireHash(id)
    \/ Close

(* Every goroutine is scheduled, every RPC returns (from Upload on the    *)
(* upload timeout bounds it; before, the caller's context and the server  *)
(* are assumed to answer) and the timeout ends a semaphore wait: each     *)
(* caller that can step eventually does.  Cache eviction is not assumed  *)
(* to happen.                                                              *)
Fairness == \A p \in Callers : WF_vars(Step(p))

Spec == Init /\ [][Next]_vars /\ Fairness

-----------------------------------------------------------------------------
Pcs == {"start", "debugFile", "find", "extract", "extracting", "extractReturn",
        "extractWait", "acquire", "uploadDo", "upload", "hash", "hashing", "initiate", "transfer",
        "mark", "uploadReturn", "uploadWait", "done"}
CallRecord == [state : {"none", "running", "ok", "fail"}, dups : 0..Cardinality(Callers)]

TypeOK ==
    /\ pc \in [Callers -> Pcs]
    /\ ret \in [Callers -> {"none", "ok", "fail"}]
    /\ dbg \in [Callers -> DebugFiles \cup {NoCall}]
    /\ debugFile \in [BuildIDs -> DebugFiles \cup {NoCall}]
    /\ shouldInitiateCache \subseteq BuildIDs /\ hashCache \subseteq BuildIDs
    /\ extractFlight \in [BuildIDs -> Callers \cup {NoCall}]
    /\ uploadFlight \in [BuildIDs -> Callers \cup {NoCall}]
    /\ extractCall \in [Callers -> CallRecord] /\ uploadCall \in [Callers -> CallRecord]
    /\ joined \in [Callers -> Callers \cup {NoCall}]
    /\ tokens \in 0..MaxParallel
    /\ strategy \in [Callers -> Strategies]
    /\ server \in [BuildIDs -> {"none", "initiated", "uploaded"}]
    /\ bodies \subseteq BuildIDs \X Callers
    /\ hashReads \in [BuildIDs -> 0..Cardinality(Callers)]
    /\ closed \subseteq {"Finder", "shouldInitiateCache", "hashCache"}

(* shouldInitiateCache only suppresses build IDs the server has: the       *)
(* "no" of ShouldInitiateUpload and AlreadyExists of InitiateUpload are    *)
(* cached, a failed check is not (fail open), in either of the two places *)
(* shouldInitiate is called and whatever the other callers are doing.     *)
CacheImpliesUploaded ==
    \A id \in shouldInitiateCache : server[id] = "uploaded"

(* EnsureUploaded returns nil only when the server has the debuginfo:     *)
(* directly, through a cache hit, as a waiter sharing the leader's upload, *)
(* or through AlreadyExists.                                               *)
SuccessImpliesUploaded ==
    \A p \in Callers : (pc[p] = "done" /\ ret[p] = "ok") => server[b(p)] = "uploaded"

(* The server marks an upload finished only for a build ID whose body it   *)
(* received: upload calls MarkUploadFinished only after uploadFile         *)
(* succeeded.                                                              *)
UploadedOnlyWithBody ==
    \A id \in BuildIDs : server[id] = "uploaded" => \E p \in Callers : <<id, p>> \in bodies

(* Every EnsureUploaded call returns and every upload token is given back: *)
(* singleflight waiters are woken by their leader, semaphore waits end in *)
(* a token or the timeout, and no path leaks a token.                      *)
AllCallsReturn ==
    <>[](tokens = 0 /\ \A p \in Callers : pc[p] = "done")

(* Spec, section 5: within one build ID at most one upload is in flight    *)
(* (uploadSingleflight), i.e. at most one caller is inside upload().       *)
UploadSingleFlight ==
    \A id \in BuildIDs :
        Cardinality({p \in Callers : ub(p) = id /\ pc[p] \in {"upload", "hash", "hashing", "initiate", "transfer", "mark"}}) <= 1

(* Spec, section 8: for any build ID at most one strip runs at a time      *)
(* (extractSingleflight).                                                  *)
ExtractSingleFlight ==
    \A id \in BuildIDs :
        Cardinality({p \in Callers : b(p) = id /\ pc[p] = "extracting"}) <= 1



(* Spec, section 8: hashing the same (build ID, modtime) twice within the  *)
(* hashCache's TTL reads the file at most once.  upload checks the cache,  *)
(* hashes the file and then Puts the hash, so this relies on no two       *)
(* uploads of one build ID running at once.                                *)
HashedOncePerTTL ==
    ~CacheDisabled => \A id \in BuildIDs : hashReads[id] <= 1


-----------------------------------------------------------------------------
(* The refinement mapping onto DebuginfoUpload: a caller is idle before    *)
(* its first step and has returned its error once done; the server's      *)
(* state, the bodies it received and shouldInitiateCache are the abstract *)
(* service's.  Singleflight, tokens, extraction and hashing are internal.  *)
CallStatus(p) ==
    CASE pc[p] = "start" -> "idle"
      [] pc[p] = "done"  -> ret[p]
      [] OTHER           -> "busy"

Service == INSTANCE DebuginfoUpload WITH
    status   <- [p \in Callers |-> CallStatus(p)],
    stored   <- server,
    received <- {id \in BuildIDs : \E p \in Callers : <<id, p>> \in bodies},
    skip     <- shouldInitiateCache

(* The manager implements the service of DebuginfoUpload: no interleaving *)
(* of callers, failures and cache evictions moves the server backwards,    *)
(* sends a body before InitiateUpload opened the upload, returns a call    *)
(* twice or with nil before the server has the file; and under fair       *)
(* scheduling every EnsureUploaded call returns.                           *)
ImplementsService == Service!Spec

=============================================================================

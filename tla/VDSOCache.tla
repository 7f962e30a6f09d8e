----------------------------- MODULE VDSOCache ------------------------------
(***************************************************************************)
(* The VDSO symbol cache, package vdso (src/cmd/eh-frame/main.go, lines    *)
(* 110-272).  NewCache reads the kernel release, opens the first candidate *)
(* of vdso.so and vdso64.so under /usr/lib/modules/<release>/vdso/ that    *)
(* the object-file pool opens, and builds a symbolsearcher over its        *)
(* dynamic symbols.  Any failure returns (nil, err): the converter is then *)
(* given a no-op symbolizer (spec.md, section 4.1), and a nil *Cache       *)
(* answers ("", nil) as NoopCache does.  Resolve(addr, m) normalizes addr  *)
(* against the mapping and searches the table for the symbol whose         *)
(* [start, start+size) holds it.                                           *)
(*                                                                         *)
(* The symbolsearcher is not in this tree; its search is taken from the    *)
(* spec.  The dynamic symbol table is a nondeterministic choice among all  *)
(* tables of at most MaxSymbols entries, sizes 0 included (section and     *)
(* absolute symbols, as the readelf listing at lines 218-230 shows), that  *)
(* the searcher holds sorted by address.                                   *)
(***************************************************************************)
EXTENDS Integers, SequencesExt, SymbolSearcher

CONSTANTS
    Candidates,   \* <<"vdso.so", "vdso64.so">>
    Names,        \* symbol names of the dynamic symbol table
    Mappings,     \* mappings Resolve may be given (besides nil)
    Nil,          \* the nil mapping
    MaxSymbols,   \* bound: entries of the symbol table
    MaxAddr,      \* bound: addresses are 0..MaxAddr
    MaxSymSize,   \* bound: a symbol's size is 0..MaxSymSize
    MaxResolves   \* bound: Resolve calls

ASSUME Nil \notin Mappings

VARIABLES
    state,     \* NewCache's step: "release" | "opening" | "loading"; then "ready" | "failed"
    tried,     \* candidates tried so far
    symtab,    \* the sorted symbol searcher
    resolves,  \* Resolve calls made
    last       \* [addr, name, err] of the last Resolve: searched address and answer

vars == <<state, tried, symtab, resolves, last>>

Addrs == 0..MaxAddr
Symbol == [start : Addrs, size : 0..MaxSymSize, name : Names]
Errors == {"MappingNil", "AddressOutOfRange", "BaseCalculation", "Unknown", "NotFound"}
NoResult == [addr |-> -1, name |-> "", err |-> "none"]

\* The tables a dynamic symbol section may yield once sorted by address.
SortedTables ==
    {t \in BoundedSeq(Symbol, MaxSymbols) : IsSorted(t, ByStart)}

(* The answers Resolve of the cache built over table t may give for addr   *)
(* and the mapping m: a nil mapping, an address outside the mapping, and   *)
(* a failed normalization are errors; otherwise the searcher answers.      *)
(* The address of an answer is the one searched.                           *)
ResolveAnswers(t, addr, m) ==
    LET Answer(a, name, err) == [addr |-> a, name |-> name, err |-> err]
        a == addr - m.start + m.offset
    IN IF m = Nil THEN {Answer(addr, "", "MappingNil")}
       ELSE IF ~(m.start <= addr /\ addr < m.limit)
            THEN {Answer(addr, "", "AddressOutOfRange")}
       ELSE {Answer(a, "", err) : err \in {"BaseCalculation", "Unknown"}}
            \cup {IF Search(t, a) = "NotFound" THEN Answer(a, "", "NotFound")
                                              ELSE Answer(a, Search(t, a), "none")}

(* The no-op symbolizer's answer, and that of Resolve on a nil *Cache.     *)
NoopAnswer(addr) == [addr |-> addr, name |-> "", err |-> "none"]

-----------------------------------------------------------------------------
(* NewCache: metadata.KernelRelease may fail.                              *)
KernelRelease ==
    /\ state = "release"
    /\ state' \in {"opening", "failed"}
    /\ UNCHANGED <<tried, symtab, resolves, last>>

\* Mutant: the candidate loop runs one past the last file before giving up.
OpenCandidatePastEnd ==
    /\ state = "opening"
    /\ tried <= Len(Candidates)
    /\ \/ /\ state' = "loading"
          /\ UNCHANGED tried
       \/ /\ tried' = tried + 1
          /\ state' = IF tried = Len(Candidates) THEN "failed" ELSE state
    /\ UNCHANGED <<symtab, resolves, last>>

(* The candidate loop: the pool opens the next file, and the loop breaks, *)
(* or the error is appended to merr and the loop continues; when no file  *)
(* opened, obj is nil and NewCache returns merr.                          *)
OpenCandidate ==
    /\ state = "opening"
    /\ tried < Len(Candidates)
    /\ \/ /\ state' = "loading"
          /\ UNCHANGED tried
       \/ /\ tried' = tried + 1
          /\ state' = IF tried + 1 = Len(Candidates) THEN "failed" ELSE state
    /\ UNCHANGED <<symtab, resolves, last>>

(* obj.ELF() and ef.DynamicSymbols() may fail; otherwise the searcher is  *)
(* built over the dynamic symbols.                                        *)
LoadSymbols ==
    /\ state = "loading"
    /\ \/ /\ state' = "failed"
          /\ UNCHANGED symtab
       \/ /\ state' = "ready"
          /\ \E t \in SortedTables : symtab' = t
    /\ UNCHANGED <<tried, resolves, last>>

(* Resolve after NewCache failed: the no-op symbolizer, or Resolve on the  *)
(* nil *Cache, answers ("", nil) whatever the mapping.                     *)
ResolveNoop(addr, m) ==
    /\ state = "failed"
    /\ resolves < MaxResolves
    /\ resolves' = resolves + 1
    /\ last' = NoopAnswer(addr)
    /\ UNCHANGED <<state, tried, symtab>>

(* Resolve on the built cache.  The lookup counters are left out.          *)
Resolve(addr, m) ==
    /\ state = "ready"
    /\ resolves < MaxResolves
    /\ resolves' = resolves + 1
    /\ last' \in ResolveAnswers(symtab, addr, m)
    /\ UNCHANGED <<state, tried, symtab>>

Init ==
    /\ state = "release"
    /\ tried = 0
    /\ symtab = <<>>
    /\ resolves = 0
    /\ last = NoResult

Next ==
    \/ KernelRelease
    \/ OpenCandidate
    \/ LoadSymbols
    \/ \E addr \in Addrs, m \in Mappings \cup {Nil} : ResolveNoop(addr, m) \/ Resolve(addr, m)

Spec == Init /\ [][Next]_vars

-----------------------------------------------------------------------------
TypeOK ==
    /\ state \in {"release", "opening", "loading", "ready", "failed"}
    /\ tried \in 0..Len(Candidates)
    /\ symtab \in SortedTables
    /\ resolves \in 0..MaxResolves
    /\ last \in [addr : Int, name : Names \cup {""}, err : Errors \cup {"none"}]

=============================================================================

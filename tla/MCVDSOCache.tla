----------------------------- MODULE MCVDSOCache ----------------------------
(* Instantiates VDSOCache for TLC: both candidate files, every sorted     *)
(* symbol table of up to three entries over addresses 0..5, and a [vdso]  *)
(* mapping whose addresses 1..5 normalize onto 0..4 while 0 lies outside. *)
EXTENDS VDSOCache

MCCandidates == <<"vdso.so", "vdso64.so">>
MCMappings == {[start |-> 1, limit |-> 6, offset |-> 0]}
=============================================================================

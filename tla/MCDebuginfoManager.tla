------------------------- MODULE MCDebuginfoManager -------------------------
(* Instantiates DebuginfoManager for TLC.                                  *)
EXTENDS DebuginfoManager, TLC

CONSTANTS c1, c2, c3, c4, b1, b2

\* Three callers for one build ID: a leader, a waiter, and a latecomer
\* that arrives after a call has finished.
MCCallers3 == {c1, c2, c3}
\* Four: enough for two calls to start after the first one failed.
MCCallers4 == {c1, c2, c3, c4}
MCTarget3 == [p \in MCCallers3 |-> b1]
MCTarget4 == [p \in MCCallers4 |-> b1]
MCHasText == [id \in BuildIDs |-> TRUE]
\* The Finder finds a debuginfo file of the src's own build ID ...
MCFoundSame == [id \in BuildIDs |-> id]
\* ... or, for b1, one of b2 (a debuginfo package of another build).
MCFoundOther == [id \in BuildIDs |-> b2]
\* Every strategy the server may answer.  SIGNED_URL differs from GRPC only
\* in the transport, which the model does not tell apart; and UNSPECIFIED
\* fails exactly as a failed transfer does, so the liveness and refinement
\* runs give only GRPC.
MCAllStrategies == {"GRPC", "SIGNED_URL", "UNSPECIFIED"}
MCBodyStrategy == {"GRPC"}
MCSymmetry4 == Permutations(MCCallers4)
MCSymmetry3 == Permutations(MCCallers3)
=============================================================================

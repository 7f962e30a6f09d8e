-------------------------- MODULE DebuginfoUpload ---------------------------
(***************************************************************************)
(* What the debuginfo manager promises its callers and the server, with    *)
(* no singleflight, semaphore, extraction or hashing in sight (spec.md,    *)
(* sections 4.3 and 5):                                                    *)
(*   - the server's state of a build ID only moves forward:                *)
(*     none -> initiated -> uploaded;                                      *)
(*   - a body is sent only into an upload the server has opened, and an    *)
(*     upload is marked finished only after a body arrived;                *)
(*   - the should-initiate cache only remembers build IDs the server has,  *)
(*     and may forget them at any time;                                    *)
(*   - every EnsureUploaded call returns exactly once, and returns nil     *)
(*     only when the server has the build ID.                              *)
(***************************************************************************)
CONSTANTS Callers, BuildIDs, Target

VARIABLES
    status,    \* Callers -> "idle" | "busy" | "ok" | "fail"
    stored,    \* BuildIDs -> "none" | "initiated" | "uploaded": the server
    received,  \* build IDs the server received a body for
    skip       \* build IDs the agent will not try to upload

avars == <<status, stored, received, skip>>

Init ==
    /\ status = [p \in Callers |-> "idle"]
    /\ stored = [id \in BuildIDs |-> "none"]
    /\ received = {}
    /\ skip = {}

Running(p) == status[p] \in {"idle", "busy"}

(* A call that needs to do work starts.                                    *)
Begin(p) ==
    /\ status[p] = "idle"
    /\ status' = [status EXCEPT ![p] = "busy"]
    /\ UNCHANGED <<stored, received, skip>>

(* A call returns nil: the server has the file.  Learning that, the agent  *)
(* may remember it in the same step.                                       *)
Succeed(p) ==
    /\ Running(p)
    /\ stored[Target[p]] = "uploaded"
    /\ status' = [status EXCEPT ![p] = "ok"]
    /\ skip' \in {skip, skip \cup {Target[p]}}
    /\ UNCHANGED <<stored, received>>

(* A call that has started may fail at any point.                          *)
Fail(p) ==
    /\ status[p] = "busy"
    /\ status' = [status EXCEPT ![p] = "fail"]
    /\ UNCHANGED <<stored, received, skip>>

Open(id) ==
    /\ stored[id] # "uploaded"
    /\ stored' = [stored EXCEPT ![id] = "initiated"]
    /\ UNCHANGED <<status, received, skip>>

Receive(id) ==
    /\ stored[id] # "none"
    /\ received' = received \cup {id}
    /\ UNCHANGED <<status, stored, skip>>

Finish(id) ==
    /\ id \in received
    /\ stored' = [stored EXCEPT ![id] = "uploaded"]
    /\ UNCHANGED <<status, received, skip>>

Remember(id) ==
    /\ stored[id] = "uploaded"
    /\ skip' = skip \cup {id}
    /\ UNCHANGED <<status, stored, received>>

Evict(id) ==
    /\ id \in skip
    /\ skip' = skip \ {id}
    /\ UNCHANGED <<status, stored, received>>

Next ==
    \/ \E p \in Callers : Begin(p) \/ Succeed(p) \/ Fail(p)
    \/ \E id \in BuildIDs : Open(id) \/ Receive(id) \/ Finish(id)
                            \/ Remember(id) \/ Evict(id)

(* Every call eventually starts or returns, and a started one returns.     *)
Spec == Init /\ [][Next]_avars
             /\ \A p \in Callers : WF_avars(Begin(p) \/ Succeed(p) \/ Fail(p))

=============================================================================

---------------------------- MODULE MCExecutor ----------------------------
(* Small instances of Executor for TLC. *)
EXTENDS ExecutorProperties, TLC

(* Three deliveries, none of which is cancelled, killed, refused or late: *)
(* the part of the states in which a CR is created, changed and recreated. *)
Undisturbed ==
    /\ cancelled = {} /\ expired = {}
    /\ \A r \in Requests : /\ pc[r] # "killed"
                           /\ wire[r] \notin ApiErrors
                           /\ result[r] \in {"Ready", None}

Symmetry == Permutations(Requests) \cup Permutations(Names) \cup Permutations(Specs)

============================================================================

--------------------------- MODULE MCOrderProcess ---------------------------
(* Small instances of OrderProcess for TLC. *)
EXTENDS OrderProcess, TLC

CONSTANTS o1, o2, f1, f2

\* Every endpoint runs, as the repository's documentation has it.
AllEndpoints == Endpoint

\* The endpoints whose persistence the repository leaves open
Unconfigured == {"Saga", "Planner"}

OrderSymmetry == Permutations({o1, o2}) \cup Permutations({f1, f2})
=============================================================================

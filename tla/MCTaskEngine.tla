---------------------------- MODULE MCTaskEngine ----------------------------
(* Model-checking instances of TaskEngine. *)
EXTENDS TaskEngine, TLC

\* Handlers are interchangeable: nothing orders them.
RunSymmetry == Permutations(Runs)

=============================================================================

---------------------------- MODULE MCIngestion -----------------------------
(* Model-checking instance of Ingestion: one document of two chunks. *)
EXTENDS Ingestion, TLC

MCDocs == {"doc"}
MCChunksOf == [d \in {"doc"} |-> <<1, 2>>]
\* Two uploads, an upload and a restart, and many restarts.
MCBudgets == {[uploads |-> 2, restarts |-> 0], [uploads |-> 1, restarts |-> 1],
              [uploads |-> 0, restarts |-> 5]}
PodSymmetry == Permutations(Pods)
=============================================================================

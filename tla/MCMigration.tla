---------------------------- MODULE MCMigration ----------------------------
(* Instances of Migration for model checking. *)
EXTENDS Migration, TLC

CONSTANTS n1, n2, n3

\* Every bucket starts on node n1 with a second copy on node n2.
MCFirstRule == [k \in Buckets |-> <<n1, n2>>]

\* The operators' connections are interchangeable.
MCSymmetry == Permutations(Agents)
=============================================================================

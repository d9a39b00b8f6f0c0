----------------------------- MODULE MCRecycler -----------------------------
(* An instance of Recycler for model checking. *)
EXTENDS Recycler

CONSTANTS n1, n2

\* Both nodes hold bucket 0, and n2 also bucket 1; the SUs are as many buckets.
MCMURule == <<{n1, n2}, {n2}>>
MCSURule == <<{n1}, {n1}>>
=============================================================================

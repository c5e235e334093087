----------------------------- MODULE MCIngestion -----------------------------
(***************************************************************************)
(* Ingestion for TLC: one registered device of alice's and, where a run    *)
(* asks for it, one unregistered device id; bob owns nothing.              *)
(***************************************************************************)
EXTENDS Ingestion, TLC

CONSTANTS d1, d2, alice, bob

MCOwner == [d \in Devices |-> IF d = d1 THEN alice ELSE Nobody]

\* Requests are interchangeable until they are received.
Symmetry == Permutations(Posts)
==============================================================================

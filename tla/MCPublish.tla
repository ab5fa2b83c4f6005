------------------------------ MODULE MCPublish ------------------------------
(* Publish with interchangeable captures. *)
EXTENDS Publish, TLC

Symmetry == Permutations(Captures)
=============================================================================

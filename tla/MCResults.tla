------------------------------ MODULE MCResults ------------------------------
(* The threads and the results of an instance of Results are alike.        *)
EXTENDS Results, TLC

Alike == Permutations(Workers) \cup Permutations(Results)

=============================================================================

---------------------------- MODULE MCAdmission ----------------------------
(* The addresses and the requests of Admission are interchangeable. *)
EXTENDS Admission, TLC

Symmetry == Permutations(Ips) \cup Permutations(Reqs)
=============================================================================

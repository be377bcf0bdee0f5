------------------------- MODULE MCRegistrationJobs -------------------------
(* A small instance of RegistrationJobs for TLC. *)
EXTENDS RegistrationJobs, TLC

CONSTANTS r1, r2, w1, w2

RegistrationSymmetry == Permutations({r1, r2}) \cup Permutations({w1, w2})
=============================================================================

---------------------------- MODULE MCEnrollment ----------------------------
(***************************************************************************)
(* Enrollment on small instances.                                           *)
(***************************************************************************)
EXTENDS Enrollment, TLC

\* Nothing orders user names or requests.
Symmetry == Permutations(Usernames) \cup Permutations(Requests)
=============================================================================

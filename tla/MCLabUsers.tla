------------------------------ MODULE MCLabUsers ------------------------------
(* LabUsers on a small instance.                                           *)
EXTENDS LabUsers, TLC

\* Users are interchangeable, and so are administrators.
Symmetry == Permutations(Names) \cup Permutations(Admins)
=============================================================================

------------------------------ MODULE MCDossier ------------------------------
(* Dossier on small instances.                                             *)
EXTENDS Dossier, TLC

\* One file each check of the pipe refuses, and one that all let pass.
Files ==
  {[mimetype |-> "image/png", begins |-> "image/png", large |-> FALSE],
   [mimetype |-> "image/png", begins |-> "image/png", large |-> TRUE],
   [mimetype |-> "image/gif", begins |-> "other", large |-> FALSE],
   [mimetype |-> "application/pdf", begins |-> "other", large |-> FALSE]}

\* Names of rows, tabs and slots are interchangeable.
Symmetry == Permutations(Profile) \cup Permutations(Doc)
              \cup Permutations(Verification) \cup Permutations(Tab)
              \cup Permutations(Call) \cup Permutations(Value)
=============================================================================

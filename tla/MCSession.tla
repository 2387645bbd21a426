----------------------------- MODULE MCSession -----------------------------
(***************************************************************************)
(* Values for model checking Session: small sets of model values.          *)
(***************************************************************************)
EXTENDS SessionInvariant, TLC

\* Topics and slots are interchangeable: no definition names one.
Symmetry == Permutations(Topic) \cup Permutations(Slot)

=============================================================================

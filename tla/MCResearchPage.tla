--------------------------- MODULE MCResearchPage ---------------------------
(***************************************************************************)
(* ResearchPage for TLC: tasks and clients are model values.               *)
(***************************************************************************)
EXTENDS ResearchPage, TLC

Symmetry == Permutations(Clients)
=============================================================================

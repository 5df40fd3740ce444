-------------------------- MODULE WorkflowRequests --------------------------
(***************************************************************************)
(* What the requests to the graphs that do not search bring with them.     *)
(***************************************************************************)
EXTENDS WorkflowNodes

CONSTANTS GivenCalculations, \* what a request can bring: the sets of
          GivenClaims        \* calculations, and of claims

ASSUME RequestAssumption ==
  /\ \A cs \in GivenCalculations : IsFiniteSet(cs) /\ cs \subseteq Calculations
  /\ \A cs \in GivenClaims : IsFiniteSet(cs) /\ cs \subseteq Claims
=============================================================================

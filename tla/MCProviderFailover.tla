------------------------- MODULE MCProviderFailover -------------------------
(***************************************************************************)
(* ProviderFailover for TLC: three candidates, numbered by their priority, *)
(* and calls that are model values.                                        *)
(***************************************************************************)
EXTENDS ProviderFailover

CONSTANT Ranks  \* how many candidates there are

MCCandidates == 1..Ranks
MCPriority   == [p \in 1..Ranks |-> p]
=============================================================================

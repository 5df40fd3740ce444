----------------------------- MODULE MCProgress -----------------------------
(***************************************************************************)
(* Progress for TLC: three candidates, numbered by their priority.         *)
(***************************************************************************)
EXTENDS Progress

CONSTANT Ranks  \* how many candidates there are

MCCandidates == 1..Ranks
MCPriority   == [p \in 1..Ranks |-> p]
=============================================================================

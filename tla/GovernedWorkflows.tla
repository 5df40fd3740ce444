------------------------- MODULE GovernedWorkflows --------------------------
(***************************************************************************)
(* One run of one of the four graphs.  They share the nodes of             *)
(* WorkflowNodes and nothing else: no state of a run is left for another   *)
(* one.                                                                    *)
(***************************************************************************)
EXTENDS WorkflowRequests, Debate

VARIABLES
  graph, \* which graph runs
  at,    \* its next node
  state, \* the values of its channels
  calls, \* the attempts of the research graph's waiting nodes
  entry, \* the audit entry
  given  \* the claims a report request brought (history)

vars == <<graph, at, state, calls, entry, given>>

Research == INSTANCE ResearchWorkflow
Health   == INSTANCE HealthWorkflow
Dossier  == INSTANCE DueDiligence
Reports  == INSTANCE ReportWorkflow

NoCalls == [n \in Research!IONodes |-> 0]

Init ==
  \/ graph = "research" /\ Research!Init /\ given = {}
  \/ graph = "financial_health" /\ Health!Init /\ calls = NoCalls /\ given = {}
  \/ graph = "due_diligence" /\ Dossier!Init /\ calls = NoCalls /\ given = {}
  \/ graph = "report" /\ Reports!Init /\ calls = NoCalls

Next ==
  /\ \/ graph = "research" /\ Research!Next /\ UNCHANGED given
     \/ graph = "financial_health" /\ Health!Next /\ UNCHANGED <<calls, given>>
     \/ graph = "due_diligence" /\ Dossier!Next /\ UNCHANGED <<calls, given>>
     \/ graph = "report" /\ Reports!Next /\ UNCHANGED calls
  /\ UNCHANGED graph

Spec == Init /\ [][Next]_vars

\* LangGraph runs the next node as long as there is one, and what the waiting
\* nodes wait for has time limits of its own.
FairSpec == Spec /\ WF_vars(Next)

-----------------------------------------------------------------------------
(* Properties *)

\* A research answer stands on what was found (see ResearchWorkflow).
AnswerIsGrounded == graph = "research" => Research!AnswerIsGrounded

\* The runner may read confidence 0 as "the run abstained".
ZeroConfidenceIsAbstention ==
  graph = "research" => Research!ZeroConfidenceIsAbstention

\* Neither an error nor a warning is forgotten by the nodes that come after:
\* each graph's nodes write both keys.
NothingIsForgotten ==
  [][/\ state.error_code # None => state'.error_code # None
     /\ state.warnings \subseteq state'.warnings]_vars

\* Every graph ends, whatever fails and is retried.
RunEnds == <>(at \in {"end", "raised", "raised late"})

\* A report that is released stands on what its run has: a health report on what
\* was fetched, by nodes none of which failed; a dossier on all its sections and
\* the verification that counts; a report on exactly the claims it was asked to
\* vouch for.
ReleasedReportIsSound ==
  /\ graph = "financial_health" => Health!ReportIsDerived
  /\ graph = "due_diligence" => Dossier!ReleasedReportIsComplete
  /\ graph = "report" => Reports!ReportKeepsItsClaims

\* Each of the graphs is a governed run, with what it takes for an outcome and
\* for an acceptable verification.
ImplementsGovernedRun ==
  /\ CASE graph = "research"         -> Research!Abstract!Init
       [] graph = "financial_health" -> Health!Abstract!Init
       [] graph = "due_diligence"    -> Dossier!Abstract!Init
       [] graph = "report"           -> Reports!Abstract!Init
  /\ [][CASE graph = "research"         ->
                [Research!Abstract!Next]_(Research!Abstract!vars)
         [] graph = "financial_health" ->
                [Health!Abstract!Next]_(Health!Abstract!vars)
         [] graph = "due_diligence"    ->
                [Dossier!Abstract!Next]_(Dossier!Abstract!vars)
         [] graph = "report"           ->
                [Reports!Abstract!Next]_(Reports!Abstract!vars)]_vars

-----------------------------------------------------------------------------
(* What the source says and the code does not do *)

\* _make_claims: claims are derived "so that they satisfy V001, V002, V003":
\* none cites an evidence that is not there.
DerivedClaimsResolve == graph = "research" => Research!DerivedClaimsResolve
=============================================================================

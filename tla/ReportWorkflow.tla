--------------------------- MODULE ReportWorkflow ---------------------------
(***************************************************************************)
(* One run of the report graph (finsage/agents/report/graph.py), which     *)
(* makes a report of a finished research run: its evidences, calculations, *)
(* claims and policy status come with the request, as the caller restored  *)
(* them, and are verified again.                                           *)
(***************************************************************************)
EXTENDS WorkflowRequests

VARIABLES
  at,    \* the node that runs next, "end", or "raised"
  state, \* the values of the channels
  entry, \* the audit entry
  given  \* the claims of the request (history)

vars == <<at, state, entry, given>>

\* load_research_run, load_evidence and load_calculations pass on what the
\* request brings: they are one node here.
EdgeFrom ==
  [load |-> "assemble_claims", assemble_claims |-> "generate_sections",
   generate_sections |-> "verify_sections", abstain |-> "audit",
   assemble_report |-> "audit"]

Nodes == DOMAIN EdgeFrom \cup {"verify_sections", "audit"}

\* The state has no confidence: only the answer carries it.
Init ==
  /\ at    = "load"
  /\ state \in [policy_status : {None, "allow", "block"}, warnings : {{}},
                evidences : SUBSET Evidences,
                calculations : GivenCalculations, claims : GivenClaims,
                sections : {{}}, verification_result : {None},
                final_answer : {None}, answer_confidence : {0},
                error_code : {None}]
  /\ entry = None
  /\ given = state.claims

Return(n, update) ==
  /\ at = n /\ at' = EdgeFrom[n]
  /\ state' = Merge(state, update)
  /\ UNCHANGED <<entry, given>>

Load == Return("load", [evidences |-> state.evidences])

\* assemble_claims: restored claims are kept, or else derived.
AssembleClaims ==
  Return("assemble_claims",
         [claims |-> IF state.claims # {} THEN state.claims
                     ELSE MakeClaims(state.evidences, state.calculations)])

\* generate_sections: what the sections are made of.
GenerateSections ==
  Return("generate_sections", [sections |-> state.claims])

\* Mutant: the policy status of the research run is not asked.
VerifySectionsWithoutPolicy ==
  /\ at = "verify_sections"
  /\ LET v == Verify(state.claims, state.evidences, state.calculations,
                     None, FALSE)
     IN  /\ state' = Merge(state, [verification_result |-> v,
              error_code |-> IF v = "FAIL" THEN "FIN-4101" ELSE None])
         /\ at' = IF v = "FAIL" THEN "abstain" ELSE "assemble_report"
  /\ UNCHANGED <<entry, given>>

\* verify_sections and route_after_verify_sections.
VerifySections ==
  /\ at = "verify_sections"
  /\ state' = Merge(state, VerificationNode(state))
  /\ at' = IF state'.verification_result = "FAIL" THEN "abstain"
                                                  ELSE "assemble_report"
  /\ UNCHANGED <<entry, given>>

\* make_report_abstention.
Abstain ==
  Return("abstain", [final_answer |-> "abstention",
                     warnings |-> state.warnings \cup {"abstained"},
                     answer_confidence |-> 0])

AssembleReport ==
  Return("assemble_report",
         [final_answer |-> "answer",
          answer_confidence |-> Confidence(state, state.verification_result)])

Audit ==
  /\ at = "audit" /\ at' = "end"
  /\ entry' \in AuditResults(state)
  /\ UNCHANGED <<state, given>>

\* An exception that a node does not catch, or a cancelled caller.
Raise ==
  /\ at \in Nodes
  /\ at' = "raised"
  /\ entry' \in {entry} \cup (IF at = "audit" THEN AuditResults(state) ELSE {})
  /\ UNCHANGED <<state, given>>

Done == at \in {"end", "raised"} /\ UNCHANGED vars

Next ==
  \/ Load \/ AssembleClaims \/ GenerateSections \/ VerifySections
  \/ Abstain \/ AssembleReport \/ Audit \/ Raise \/ Done

Spec == Init /\ [][Next]_vars

-----------------------------------------------------------------------------
(* Properties *)

\* A report vouches for the restored claims themselves: each is in a section,
\* passed the rules against what was restored with it, and none comes from a
\* run that the policy gate stopped.
ReportKeepsItsClaims ==
  state.final_answer = "answer" =>
    /\ given # {} => state.sections = given
    /\ state.policy_status # "block"
    /\ \A c \in given : ~Unsound(c, state.evidences, state.calculations)

\* The graph is a governed run; a report without evidence may stand.
Abstract == INSTANCE GovernedRun WITH
  Acceptable <- {"PASS", "ABSTAIN"}, error <- state.error_code,
  verdict <- state.verification_result, outcome <- state.final_answer

ImplementsGovernedRun == Abstract!Spec
=============================================================================

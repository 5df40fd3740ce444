---------------------------- MODULE DueDiligence ----------------------------
(***************************************************************************)
(* One run of the due diligence graph (finsage/agents/due_diligence/       *)
(* graph.py): the policy gate, eight fixed phases that write the dossier,  *)
(* the report, which is checked before it is made and again after, and the *)
(* abstention that replaces it.  Evidences, calculations and claims come   *)
(* with the request.                                                       *)
(***************************************************************************)
EXTENDS WorkflowRequests

VARIABLES
  at,    \* the node that runs next, "end", "raised", or "raised late", that
         \* is in the audit
  state, \* the values of the channels
  entry  \* the audit entry

vars == <<at, state, entry>>

\* DUE_DILIGENCE_PHASES.
Phases == <<"WARMUP", "COMPANY_PROFILE", "BUSINESS_MODEL", "FINANCIALS",
            "COMPETITION", "RISK", "RED_FLAGS", "FOLLOW_UP">>

\* The node after the i-th phase.
AfterPhase(i) == IF i = Len(Phases) THEN "REPORT" ELSE Phases[i + 1]

Nodes == ToSet(Phases) \cup
         {"POLICY", "REPORT", "VERIFICATION", "ABSTAIN", "AUDIT"}

Init ==
  /\ at    = "POLICY"
  /\ state \in [entities : EntityKinds, policy_status : {None}, warnings : {{}},
                evidences : SUBSET Evidences,
                calculations : GivenCalculations, claims : GivenClaims,
                dossier : {<<>>}, report : {None}, verification_result : {None},
                final_answer : {None}, confidence : {0}, error_code : {None}]
  /\ entry = None

\* route_after_policy.
Policy ==
  /\ at = "POLICY"
  /\ \E matches \in QueryPatterns :
       state' = Merge(state, PolicyNode(state, Assess(matches, state.entities)))
  /\ at' = IF state'.policy_status = "block" THEN "ABSTAIN" ELSE Phases[1]
  /\ UNCHANGED entry

\* A phase adds its section to the dossier.
Phase(i) ==
  /\ at = Phases[i] /\ at' = AfterPhase(i)
  /\ state' = Merge(state, [dossier |-> Append(state.dossier, at)])
  /\ UNCHANGED entry

\* The report, with a check of its own for the sake of the confidence.
Report ==
  /\ at = "REPORT" /\ at' = "VERIFICATION"
  /\ state' = Merge(state,
       [report |-> state.dossier, final_answer |-> "answer",
        verification_result |-> VerifyState(state),
        confidence |-> Confidence(state, VerifyState(state))])
  /\ UNCHANGED entry

\* route_after_verification: want of evidence leaves the report standing.
AfterVerification(s) ==
  IF s.verification_result = "FAIL" THEN "ABSTAIN" ELSE "AUDIT"

Verification ==
  /\ at = "VERIFICATION"
  /\ state' = Merge(state, VerificationNode(state))
  /\ at' = AfterVerification(state')
  /\ UNCHANGED entry

\* The abstention replaces the answer there is.
Abstain ==
  /\ at = "ABSTAIN" /\ at' = "AUDIT"
  /\ state' = Merge(state, AbstentionNode(state))
  /\ UNCHANGED entry

Audit ==
  /\ at = "AUDIT" /\ at' = "end"
  /\ entry' \in AuditResults(state)
  /\ UNCHANGED state

\* An exception that a node does not catch, or a cancelled caller.
Raise ==
  /\ at \in Nodes
  /\ at' = IF at = "AUDIT" THEN "raised late" ELSE "raised"
  /\ entry' \in {entry} \cup (IF at = "AUDIT" THEN AuditResults(state) ELSE {})
  /\ UNCHANGED state

Done == at \in {"end", "raised", "raised late"} /\ UNCHANGED vars

Next ==
  \/ Policy \/ \E i \in 1..Len(Phases) : Phase(i)
  \/ Report \/ Verification \/ Abstain \/ Audit \/ Raise \/ Done

Spec == Init /\ [][Next]_vars

-----------------------------------------------------------------------------
(* Properties *)

\* A report that leaves the graph has all eight sections in their order, its
\* claims passed the rules, and its confidence is that of its verification:
\* without evidence it stays below the lowest grade, 45 percent.
ReleasedReportIsComplete ==
  at = "end" /\ state.final_answer = "answer" =>
    /\ state.report = Phases
    /\ state.confidence = Confidence(state, state.verification_result)
    /\ \A c \in state.claims :
         ~Unsound(c, state.evidences, state.calculations)
    /\ state.verification_result = "ABSTAIN" => state.confidence < 45

\* What is decided when the graph is past its last edge; the report that is
\* written before it is verified is not an outcome.
Outcome == IF at \in {"AUDIT", "end", "raised late"} THEN state.final_answer
           ELSE None

\* The graph is a governed run: the verification confirms the result that the
\* report anticipated, and a report without evidence may stand.
Abstract == INSTANCE GovernedRun WITH
  Acceptable <- {"PASS", "ABSTAIN"}, error <- state.error_code,
  verdict <- state.verification_result, outcome <- Outcome

ImplementsGovernedRun == Abstract!Spec
=============================================================================

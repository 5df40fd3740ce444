--------------------------- MODULE HealthWorkflow ---------------------------
(***************************************************************************)
(* One run of the financial health graph (finsage/agents/financial_health/ *)
(* graph.py).  It has no search: its claims are numbers, and what keeps a  *)
(* run that failed from being reported is not a look at the error code     *)
(* but that nothing is left to report.                                     *)
(***************************************************************************)
EXTENDS WorkflowNodes

VARIABLES
  at,    \* the node that runs next, "end", or "raised"
  state, \* the values of the channels
  entry  \* the audit entry

vars == <<at, state, entry>>

EdgeFrom ==
  [parse_query |-> "entity", entity |-> "policy",
   financial_data |-> "financial_rule_engine",
   financial_rule_engine |-> "financial_calculation",
   financial_calculation |-> "narrative_analysis",
   narrative_analysis |-> "cross_check", cross_check |-> "claim_generation",
   claim_generation |-> "verification", report |-> "audit",
   abstain |-> "audit"]

Nodes == DOMAIN EdgeFrom \cup {"policy", "verification", "audit"}

\* _policy_gate.
PolicyGate(s) ==
  IF s.policy_status = "block" \/ s.error_code # None
  THEN "abstain" ELSE "financial_data"

\* _after_verify.
AfterVerify(s) ==
  IF s.verification_result = "PASS" /\ s.cross_check_status # "conflict"
  THEN "report" ELSE "abstain"

\* No confidence yet.
NotSet == -1

\* The graph's state declares no evidences: the nodes read none.
Init ==
  /\ at    = "parse_query"
  /\ state \in [valuation : BOOLEAN, entities : {None},
                policy_status : {None}, warnings : {{}}, evidences : {{}},
                financial_data : {<<>>}, calculations : {{}},
                rule_results : {{}}, cross_check_status : {None},
                claims : {{}}, verification_result : {None},
                final_answer : {None}, confidence : {NotSet}, error_code : {None}]
  /\ entry = None

Return(n, update) ==
  /\ at = n /\ at' = EdgeFrom[n]
  /\ state' = Merge(state, update)
  /\ UNCHANGED entry

\* Nodes whose output no rule reads.
Pass ==
  \/ Return("parse_query", [narrative |-> None])
  \/ Return("narrative_analysis", [narrative |-> None])

Entity == \E kind \in EntityKinds : Return("entity", [entities |-> kind])

Policy ==
  /\ at = "policy"
  /\ \E matches \in QueryPatterns :
       state' = Merge(state, PolicyNode(state, Assess(matches, state.entities)))
  /\ at' = PolicyGate(state')
  /\ UNCHANGED entry

\* financial_data: the figures, an error of a provider, or the time limit.
FinancialData ==
  \/ \E figures \in FiguresFor(state) :
       Return("financial_data", FinancialNode(state, figures))
  \/ \E c \in (IF state.entities = "ticker"
              THEN {"FIN-2001", "FIN-2004", "FIN-2101"} ELSE {}) \cup
             (IF HasTimeout THEN {"FIN-5002"} ELSE {}) :
       Return("financial_data", [error_code |-> c])

\* _nested_margin: a rule per row with revenue and net income.
Rules(figures) == MarginRows(figures)

RuleEngine ==
  Return("financial_rule_engine",
         [rule_results |-> Rules(state.financial_data)])

Calculation ==
  \/ Return("financial_calculation", CalculationFailure)
  \/ Return("financial_calculation", CalculationNode(state))

\* cross_check: data from which nothing could be derived.
CrossCheck ==
  \/ /\ state.financial_data # <<>> /\ state.calculations = {}
     /\ state.rule_results = {}
     /\ Return("cross_check", [cross_check_status |-> "conflict",
                               error_code |-> "FIN-2101"])
  \/ /\ \/ state.financial_data = <<>> \/ state.calculations # {}
        \/ state.rule_results # {}
     /\ Return("cross_check", [cross_check_status |-> "ok"])

Claim ==
  \E llm \in {None, "ok", "fails"} :
    Return("claim_generation", ClaimNode(state, llm))

Verification ==
  /\ at = "verification"
  /\ state' = Merge(state, VerificationNode(state))
  /\ at' = AfterVerify(state')
  /\ UNCHANGED entry

\* report: nothing has written the confidence by now, so it is 0.9.
Report ==
  Return("report",
         [final_answer |-> "answer",
          confidence |-> IF state.confidence = NotSet THEN 90
                         ELSE state.confidence])

Abstain == Return("abstain", AbstentionNode(state))

Audit ==
  /\ at = "audit" /\ at' = "end"
  /\ entry' \in AuditResults(state)
  /\ UNCHANGED state

\* An exception that a node does not catch, or a cancelled caller.
Raise ==
  /\ at \in Nodes
  /\ at' = "raised"
  /\ entry' \in {entry} \cup (IF at = "audit" THEN AuditResults(state) ELSE {})
  /\ UNCHANGED state

Done == at \in {"end", "raised"} /\ UNCHANGED vars

Next ==
  \/ Pass \/ Entity \/ Policy \/ FinancialData \/ RuleEngine \/ Calculation \/ CrossCheck
  \/ Claim \/ Verification \/ Report \/ Abstain \/ Audit \/ Raise \/ Done

Spec == Init /\ [][Next]_vars

-----------------------------------------------------------------------------
(* Properties *)

\* A report is made of what was fetched: the query was let pass, no node
\* failed, although the edges after the policy gate never ask, and each
\* number in it was computed from figures of this run; where two providers
\* gave different ones, a warning says so.
ReportIsDerived ==
  state.final_answer = "answer" =>
    /\ state.policy_status = "allow" /\ state.error_code = None
    /\ state.calculations # {}
    /\ state.calculations =
         Calculate(state.financial_data, {}, state.valuation)
    /\ DetectMetricConflicts(state.financial_data) # {} =>
         "provider_data_conflict" \in state.warnings

\* The graph is a governed run.
Abstract == INSTANCE GovernedRun WITH
  Acceptable <- {"PASS"}, error <- state.error_code,
  verdict <- state.verification_result, outcome <- state.final_answer

ImplementsGovernedRun == Abstract!Spec
=============================================================================

--------------------------- MODULE WorkflowNodes ---------------------------
(***************************************************************************)
(* The nodes the four workflow graphs share (finsage/workflows/nodes.py)   *)
(* and the rules behind them (finsage/governance).  A node takes the state *)
(* of its graph and returns an update of some of its keys.                 *)
(*                                                                         *)
(* Texts are left out: what is kept of an evidence is its identity, its    *)
(* two scores, the companies and periods it names, and whether it holds    *)
(* injected instructions; of a query, the patterns it matches.             *)
(***************************************************************************)
EXTENDS FinancialMetrics

CONSTANTS
  Evidences,  \* the evidences a search can return, numbered by their rank:
              \* relevance_score descending, ties in the order of retrieval
  Relevance,  \* Relevance[e]: its relevance_score, in percent
  Authority,  \* Authority[e]: its authority_score, in percent
  Naming,     \* Naming[e]: the tickers and periods its text holds, as pairs
  Injected,   \* those whose text matches the injection patterns
  MaxEvidence, \* MAX_EVIDENCE
  GivenFigures,  \* what the providers can give, as lists of readings
  MaxAttempts, \* RetryPolicy.max_attempts; 1 is a graph without one
  HasTimeout   \* a time limit is set for the nodes that wait

ASSUME EvidenceAssumption ==
  /\ Evidences \subseteq Nat /\ IsFiniteSet(Evidences)
  /\ Relevance \in [Evidences -> 0..100]
  /\ Authority \in [Evidences -> 0..100]
  /\ Naming \in [Evidences -> SUBSET (STRING \X Nat)]
  /\ Injected \subseteq Evidences
  /\ MaxEvidence \in Nat

ASSUME FiguresAssumption ==
  <<>> \in GivenFigures /\ GivenFigures \subseteq Seq(Readings)

ASSUME ReliabilityAssumption ==
  /\ MaxAttempts \in Nat \ {0}
  /\ HasTimeout \in BOOLEAN

-----------------------------------------------------------------------------
(* Values *)

\* No value: a key that is None, or absent.
None == "none"

Codes == {"FIN-2001", "FIN-2101", "FIN-2004", "FIN-3001", "FIN-3003",
          "FIN-3101", "FIN-4001", "FIN-4101", "FIN-5002"}

Verdicts == {"PASS", "FAIL", "ABSTAIN"}

\* The entities of a query: what the nodes ask of them.
EntityKinds == {None, "company", "ticker"}

Calculations == [id : CalculationIds, sources : SUBSET Evidences]

Claims == [type : {"fact", "numeric", "research"}, cites : SUBSET Evidences,
           calc : CalculationIds]

\* LangGraph merges what a node returns into its channels: a key that the
\* graph's state does not declare is dropped.
Merge(state, update) ==
  [k \in DOMAIN state |-> IF k \in DOMAIN update THEN update[k] ELSE state[k]]

\* state.get(key) of a flag.
Flag(state, key) == key \in DOMAIN state /\ state[key] = TRUE

-----------------------------------------------------------------------------
(* Nodes *)

\* PolicyGate.assess(): the first rule that applies decides.  The tools that are
\* asked for are allowed ones, and no verdict is "abstain".
Assess(matches, entities) ==
  IF "advice" \in matches
  THEN [status |-> "block", warnings |-> {"query_contains_investment_advice"}]
  ELSE IF "injection" \in matches
  THEN [status |-> "block", warnings |-> {"prompt_injection_detected"}]
  ELSE [status |-> "allow",
        warnings |-> IF entities = None THEN {"no_entities_found"} ELSE {}]

\* What a query can match of the patterns of the gate.
QueryPatterns == SUBSET {"advice", "injection"}

\* policy: a blocked query gets an error code at once.
PolicyNode(state, verdict) ==
  [policy_status |-> verdict.status,
   warnings   |-> state.warnings \cup verdict.warnings,
   error_code |-> IF verdict.status = "block" THEN "FIN-4001"
                                              ELSE state.error_code]

\* build_financial(): without a ticker no provider is asked.
FiguresFor(state) == IF state.entities = "ticker" THEN GivenFigures ELSE {<<>>}

\* financial_data: a conflict is told.  The graphs' states do not declare
\* data_conflict.
FinancialNode(state, figures) ==
  IF DetectMetricConflicts(figures) = {} THEN [financial_data |-> figures]
  ELSE [financial_data |-> figures, data_conflict |-> TRUE,
        warnings |-> state.warnings \cup {"provider_data_conflict"}]

\* The evidences that name the company and the period of a reading.
Supporting(evidences, m) ==
  {e \in evidences : <<m.ticker, m.period>> \in Naming[e]}

\* The default calc_runner: the net margin of each row.
NetMargins(figures, evidences) ==
  {[id |-> [name |-> "net_margin", metric |-> "", period |-> row[1],
            currency |-> row[2]],
    sources |-> Supporting(evidences,
                  figures[LastOf(Cell(figures, row, "net_income"))])] :
     row \in MarginRows(figures)}

\* _valuation_calculations(): the growth of each metric goes on.
Projections(figures, evidences) ==
  {LET last == figures[Newest(figures, Series(figures, metric))]
   IN  [id |-> [name |-> "project_growth", metric |-> metric,
                period |-> last.period, currency |-> ""],
        sources |-> Supporting(evidences, last)] :
     metric \in GrowingMetrics(figures)}

\* calculation: with what a valuation query asks for.
Calculate(figures, evidences, valuation) ==
  NetMargins(figures, evidences) \cup
  (IF valuation THEN Projections(figures, evidences) ELSE {})

\* A discounted cash flow is not computed without its assumptions.
CalculationNode(state) ==
  [calculations |-> Calculate(state.financial_data, state.evidences,
                              state.valuation),
   warnings |-> state.warnings \cup
                  (IF state.valuation /\ CashFlows(state.financial_data) # {}
                   THEN {"dcf_skipped"} ELSE {})]

\* The calculation runner fails.
CalculationFailure == [calculations |-> {}, error_code |-> "FIN-3101"]

\* evidence: the MaxEvidence most relevant ones, each once.
TopEvidence(evidences) ==
  {e \in evidences : Cardinality({f \in evidences : f < e}) < MaxEvidence}

\* _make_claims: a fact per evidence, a number per calculation.
MakeClaims(evidences, calculations) ==
  {[type |-> "fact", cites |-> {e}, calc |-> NoCalculation] : e \in evidences} \cup
  {[type |-> "numeric", cites |-> c.sources, calc |-> c.id] : c \in calculations}

\* sanitize_retrieved_content(): the warnings for the texts it replaces.
SanitizeWarnings(evidences) ==
  IF evidences \cap Injected = {} THEN {} ELSE {"retrieved_injection_blocked"}

\* Mutant: only the claims' own warnings.
ClaimWarningsOnly(state, llm) ==
  IF SanitizeWarnings(state.evidences) # {} THEN SanitizeWarnings(state.evidences)
  ELSE IF llm = "fails" THEN {"claim_llm_failed"} ELSE {}

\* claim: the claims, and warnings.  llm says how the language model fared:
\* None when there is none, "ok", or "fails", which leaves the draft that was
\* made without it.  Both kinds of warning start from the state's, and the
\* second assignment replaces the first.
ClaimWarnings(state, llm) ==
  state.warnings \cup
    (IF SanitizeWarnings(state.evidences) # {}
     THEN SanitizeWarnings(state.evidences)
     ELSE IF llm = "fails" THEN {"claim_llm_failed"} ELSE {})

ClaimNode(state, llm) ==
  [claims   |-> MakeClaims(state.evidences, state.calculations),
   warnings |-> ClaimWarnings(state, llm)]

-----------------------------------------------------------------------------
(* Verification (governance/verification.py) *)

Ids(calculations) == {c.id : c \in calculations}

\* V003, V001, V002: a citation that leads nowhere, a calculation that does
\* not exist, a number with neither, a fact without evidence.
Unsound(claim, evidences, calculations) ==
  \/ ~(claim.cites \subseteq evidences)
  \/ claim.calc # NoCalculation /\ claim.calc \notin Ids(calculations)
  \/ claim.type = "numeric" /\ claim.cites = {} /\ claim.calc = NoCalculation
  \/ claim.type = "fact" /\ claim.cites = {}

\* V008: nothing at all, or claims that neither evidence nor a calculation
\* supports.
Unsupported(claims, evidences, calculations) ==
  /\ calculations = {}
  /\ \/ claims = {} /\ evidences = {}
     \/ claims # {} /\ \A c \in claims : c.cites = {}

\* Mutant: unresolved citations pass.
VerifyTrustingCitations(claims, evidences, calculations, policy, conflict) ==
  IF policy = "block" \/ conflict THEN "FAIL"
  ELSE IF Unsupported(claims, evidences, calculations) THEN "ABSTAIN"
  ELSE "PASS"

\* Mutant: no abstention for want of evidence.
VerifyWithoutV008(claims, evidences, calculations, policy, conflict) ==
  IF \/ policy = "block" \/ conflict
     \/ \E c \in claims : Unsound(c, evidences, calculations) THEN "FAIL"
  ELSE "PASS"

\* verify(), with V009 and V007 (policy, data conflict).  No graph passes an
\* expected period, currency or unit: V004 to V006 never apply.
Verify(claims, evidences, calculations, policy, conflict) ==
  IF \/ policy = "block" \/ conflict
     \/ \E c \in claims : Unsound(c, evidences, calculations) THEN "FAIL"
  ELSE IF Unsupported(claims, evidences, calculations) THEN "ABSTAIN"
  ELSE "PASS"

VerifyState(state) ==
  Verify(state.claims, state.evidences, state.calculations,
         state.policy_status, Flag(state, "data_conflict"))

\* verification: FAIL is an error, which replaces an earlier one.
VerificationNode(state) ==
  [verification_result |-> VerifyState(state),
   error_code |-> IF VerifyState(state) = "FAIL" THEN "FIN-4101"
                                                 ELSE state.error_code]

-----------------------------------------------------------------------------
(* Confidence (governance/confidence.py, compute_answer_confidence) *)

\* The scores of the members of a set, each from 0 to 100, added up: the points
\* below them are counted.
Total(score, members) ==
  Cardinality(UNION {(1..score[m]) \X {m} : m \in members})

Mean(score, members) ==
  IF members = {} THEN 0 ELSE Total(score, members) \div Cardinality(members)

\* The share of the claims that cite an evidence.
Coverage(claims, evidences) ==
  IF claims = {} THEN IF evidences = {} THEN 0 ELSE 100
  ELSE (100 * Cardinality({c \in claims : c.cites # {}}))
         \div Cardinality(claims)

\* What the verification leaves of a score.
Gate(score, verdict) ==
  IF verdict = "PASS" THEN score
  ELSE IF verdict = "FAIL" THEN 0 ELSE (3 * score) \div 10

\* compute_confidence in percent, rounded down: five factors of equal weight
\* (the last, temporal_validity, is 1), the verification's gate and the cap of
\* a data conflict.  Nothing at all to stand on is no confidence.
Confidence(state, verdict) ==
  LET quality == Mean(Relevance, state.evidences)
                 + Mean(Authority, state.evidences)
                 + Coverage(state.claims, state.evidences)
                 + (IF state.calculations = {} THEN 0 ELSE 100) + 100
      score   == Gate(quality \div 5, verdict)
  IN  IF state.evidences = {} /\ state.calculations = {} THEN 0
      ELSE IF Flag(state, "data_conflict") /\ score > 80 THEN 80
      ELSE score

-----------------------------------------------------------------------------
(* Endings *)

\* abstain: the error code, or the want of evidence, is the reason.
AbstentionNode(state) ==
  [final_answer |-> "abstention",
   warnings     |-> state.warnings \cup {"abstained"},
   confidence   |-> 0]

\* answer.
AnswerNode(state) ==
  [final_answer |-> "answer",
   confidence   |-> Confidence(state, state.verification_result)]

\* audit: the entry's status; a sink that fails is passed over.
AuditStatus(state) == IF state.error_code = None THEN "success" ELSE "error"
AuditResults(state) == {AuditStatus(state), "lost"}
=============================================================================

-------------------------- MODULE ResearchWorkflow --------------------------
(***************************************************************************)
(* One run of the research graph (finsage/agents/research_qa/graph.py):    *)
(* the nodes in the order of its edges, with the wrappers that retry and   *)
(* limit the two nodes that wait for the outside (workflows/               *)
(* reliability.py).  An action is a node, or one attempt of such a node.   *)
(***************************************************************************)
EXTENDS Debate

VARIABLES
  at,       \* the node that runs next, "end", or "raised"
  state,    \* the values of the channels
  calls,    \* calls[n]: attempts of the waiting node n
  entry     \* the audit entry

vars == <<at, state, calls, entry>>

IONodes == {"retrieval", "financial_data"}

\* The fixed edges.
EdgeFrom ==
  [parse_query |-> "intent", intent |-> "entity", entity |-> "policy",
   policy |-> "route", retrieval |-> "financial_data",
   financial_data |-> "calculation", calculation |-> "evidence",
   evidence |-> "claim", claim |-> "sentiment", sentiment |-> "debate",
   debate |-> "verification", answer |-> "audit", abstain |-> "audit"]

Nodes == DOMAIN EdgeFrom \cup {"route", "verification", "audit"}

\* The intents, up to what the route tells apart.
Intents == {"NUMERIC", "RESEARCH", "FACT"}

-----------------------------------------------------------------------------
(* The conditional edges *)

\* choose_route and _ROUTE_MAP.
ChooseRoute(s) ==
  IF s.policy_status = "block" \/ s.error_code # None THEN "abstain"
  ELSE IF s.intent = "NUMERIC" /\ s.entities = "ticker" THEN "financial_data"
  ELSE "retrieval"

\* Mutant: the error code is not asked.
AfterVerificationIgnoringErrors(s) ==
  IF s.verification_result = "PASS" THEN "answer" ELSE "abstain"

\* Mutant: want of evidence selects evidence again.
AfterVerificationSelectsAgain(s) ==
  CASE s.error_code = None /\ s.verification_result = "PASS" -> "answer"
    [] s.error_code = None /\ s.verification_result = "ABSTAIN" -> "evidence"
    [] OTHER -> "abstain"

\* _after_verification.
AfterVerification(s) ==
  IF s.error_code = None /\ s.verification_result = "PASS"
  THEN "answer" ELSE "abstain"

-----------------------------------------------------------------------------
(* The waiting nodes *)

\* What one attempt can return: an update, with the error code of the exception
\* it caught if there was one.
RetrievalResults ==
  [evidences : SUBSET Evidences] \cup
  [evidences : {{}}, error_code : {"FIN-3001", "FIN-3003"}]

\* A provider only fails when it is asked.  What was fetched by then is lost.
FinancialResults(s) ==
  {FinancialNode(s, figures) : figures \in FiguresFor(s)} \cup
  (IF s.entities = "ticker"
   THEN [financial_data : {<<>>}, error_code : {"FIN-2001", "FIN-2004", "FIN-2101"}]
   ELSE {})

Results(n, s) ==
  IF n = "retrieval" THEN RetrievalResults ELSE FinancialResults(s)

\* _DEFAULT_RETRYABLE.
Retryable == {"FIN-2001", "FIN-2004", "FIN-3001"}

WorthRetrying(r) == "error_code" \in DOMAIN r /\ r.error_code \in Retryable

-----------------------------------------------------------------------------
Init ==
  /\ at    = "parse_query"
  /\ state \in [intent : {None}, entities : {None}, valuation : BOOLEAN,
                policy_status : {None}, warnings : {{}}, evidences : {{}},
                financial_data : {<<>>}, calculations : {{}}, claims : {{}},
                debate_result : {NoDebate}, verification_result : {None},
                final_answer : {None}, confidence : {0}, error_code : {None}]
  /\ calls    = [n \in IONodes |-> 0]
  /\ entry    = None

\* Node n returns an update and its edge is taken.
Return(n, update) ==
  /\ at = n /\ at' = EdgeFrom[n]
  /\ state' = Merge(state, update)

\* Nodes whose output no rule reads: it is derived from what is there already.
Pass ==
  /\ at \in {"parse_query", "sentiment"}
  /\ at' = EdgeFrom[at]
  /\ UNCHANGED <<state, calls, entry>>

Intent ==
  /\ \E i \in Intents : Return("intent", [intent |-> i])
  /\ UNCHANGED <<calls, entry>>

Entity ==
  /\ \E kind \in EntityKinds : Return("entity", [entities |-> kind])
  /\ UNCHANGED <<calls, entry>>

Policy ==
  /\ \E matches \in QueryPatterns :
       Return("policy", PolicyNode(state, Assess(matches, state.entities)))
  /\ UNCHANGED <<calls, entry>>

Route ==
  /\ at = "route" /\ at' = ChooseRoute(state)
  /\ UNCHANGED <<state, calls, entry>>

\* state_aware_retry: the attempt failed in a way that is worth another one.
\* Nothing of it reaches the state.
TryAgain(n, r) ==
  /\ at = n /\ n \in IONodes
  /\ calls[n] + 1 < MaxAttempts
  /\ WorthRetrying(r)
  /\ calls' = [calls EXCEPT ![n] = @ + 1]
  /\ UNCHANGED <<at, state, entry>>

\* The attempt is the last one: it succeeded, failed for good, or there are
\* no more.
Conclude(n, r) ==
  /\ n \in IONodes
  /\ ~WorthRetrying(r) \/ calls[n] + 1 >= MaxAttempts
  /\ Return(n, r)
  /\ calls' = [calls EXCEPT ![n] = @ + 1]
  /\ UNCHANGED entry

\* with_timeout: the time is up during an attempt, or between two.
TimeOut(n) ==
  /\ HasTimeout /\ n \in IONodes
  /\ Return(n, [error_code |-> "FIN-5002"])
  /\ UNCHANGED <<calls, entry>>

\* An exception that a node does not catch, or a cancelled task: the run is
\* over, without the nodes that were left.  A node that is not a coroutine runs
\* in a thread and finishes unheard: the audit entry may still be written.
Raise ==
  /\ at \in Nodes
  /\ at' = "raised"
  /\ entry' \in {entry} \cup (IF at = "audit" THEN AuditResults(state) ELSE {})
  /\ UNCHANGED <<state, calls>>

\* The calculation runner fails, or computes.
Calculation ==
  /\ \/ Return("calculation", CalculationFailure)
     \/ Return("calculation", CalculationNode(state))
  /\ UNCHANGED <<calls, entry>>

EvidenceSelection ==
  /\ Return("evidence", [evidences |-> TopEvidence(state.evidences)])
  /\ UNCHANGED <<calls, entry>>

Claim ==
  /\ \E llm \in {None, "ok", "fails"} :
       Return("claim", ClaimNode(state, llm))
  /\ UNCHANGED <<calls, entry>>

\* The two sides may have different models, which fail each for itself.
Debating ==
  /\ \E bull, bear \in GivenDrafts :
       Return("debate", DebateNode(state, bull, bear))
  /\ UNCHANGED <<calls, entry>>

Verification ==
  /\ at = "verification"
  /\ state' = Merge(state, VerificationNode(state))
  /\ at' = AfterVerification(state')
  /\ UNCHANGED <<calls, entry>>

Answer ==
  /\ Return("answer", AnswerNode(state))
  /\ UNCHANGED <<calls, entry>>

Abstain ==
  /\ Return("abstain", AbstentionNode(state))
  /\ UNCHANGED <<calls, entry>>

Audit ==
  /\ at = "audit" /\ at' = "end"
  /\ entry' \in AuditResults(state)
  /\ UNCHANGED <<state, calls>>

\* The graph is done.
Done == at \in {"end", "raised"} /\ UNCHANGED vars

Next ==
  \/ Pass \/ Intent \/ Entity \/ Policy \/ Route
  \/ \E n \in IONodes : \/ \E r \in Results(n, state) : TryAgain(n, r) \/ Conclude(n, r)
                        \/ TimeOut(n)
  \/ Calculation \/ EvidenceSelection \/ Claim \/ Debating
  \/ Verification \/ Answer \/ Abstain \/ Audit \/ Raise \/ Done

Spec == Init /\ [][Next]_vars

-----------------------------------------------------------------------------
(* Properties *)

\* An answer is grounded: no node failed on the way, the gate let the query
\* pass, every citation leads to one of the few evidences that are shown,
\* every number has its calculation or its evidence, and there is something
\* to stand on.  The arguments of the debate whose disagreement the answer
\* carries cite nothing else either, and where two providers gave different
\* figures, a warning says so.
AnswerIsGrounded ==
  state.final_answer = "answer" =>
    /\ state.error_code = None /\ state.policy_status = "allow"
    /\ Cardinality(state.evidences) <= MaxEvidence
    /\ state.evidences # {} \/ state.calculations # {}
    /\ \A c \in state.claims :
         /\ c.cites \subseteq state.evidences
         /\ c.cites # {} \/ c.calc \in Ids(state.calculations)
    /\ Cited(state.debate_result.bull) \cup Cited(state.debate_result.bear)
         \subseteq state.evidences
    /\ DetectMetricConflicts(state.financial_data) # {} =>
         "provider_data_conflict" \in state.warnings

\* The runner reads "confidence is 0" as "the run abstained": that is so.
ZeroConfidenceIsAbstention ==
  state.final_answer # None =>
    (state.confidence = 0 <=> state.final_answer = "abstention")

\* The graph is a governed run: its outcome is final_answer.
Abstract == INSTANCE GovernedRun WITH
  Acceptable <- {"PASS"}, error <- state.error_code,
  verdict <- state.verification_result, outcome <- state.final_answer

ImplementsGovernedRun == Abstract!Spec

-----------------------------------------------------------------------------
(* What the source says and the code does not do *)

\* _make_claims: claims are derived "so that they satisfy V001, V002, V003":
\* none cites an evidence that is not there.
DerivedClaimsResolve ==
  \A c \in state.claims : c.cites \subseteq state.evidences
=============================================================================

----------------------- MODULE GovernedWorkflowsProofs -----------------------
(***************************************************************************)
(* The graphs keep their promises, whatever is found, given and computed   *)
(* and whichever nodes fail.  Each graph has an inductive invariant that   *)
(* says what is known of its channels at each of its nodes; a step of a    *)
(* graph preserves it, drops no error and no warning, and is a step of the *)
(* run that GovernedRun describes.                                         *)
(*                                                                         *)
(* The graphs' modules are instances, each with definitions of its own of  *)
(* what it shares with the others: the lemmas named ...Shares say that     *)
(* they are the same.                                                      *)
(***************************************************************************)
EXTENDS GovernedWorkflows, FiniteSetTheorems, Sequences, SequenceTheorems, TLAPS

(* Nodes, selection *)

\* What a node returns replaces the keys the graph declares.
LEMMA MergeApply ==
  ASSUME NEW s, NEW u
  PROVE  /\ DOMAIN Merge(s, u) = DOMAIN s
         /\ \A k \in DOMAIN s :
              Merge(s, u)[k] = IF k \in DOMAIN u THEN u[k] ELSE s[k]
BY DEF Merge

\* A set whose members have different ranks below n has n members at most.
LEMMA RankedSet ==
  ASSUME NEW T, NEW n \in Nat, NEW rank \in [T -> 0..(n - 1)],
         \A x, y \in T : rank[x] = rank[y] => x = y
  PROVE  IsFiniteSet(T) /\ Cardinality(T) <= n
<1>1. rank \in Injection(T, 0..(n - 1))
  BY DEF Injection, IsInjective
<1>2. IsFiniteSet(0..(n - 1)) /\ Cardinality(0..(n - 1)) = n
  BY FS_Interval
<1> QED BY <1>1, <1>2, FS_Injection

\* An evidence before another one has fewer before it.
LEMMA FewerBefore ==
  ASSUME NEW S, S \subseteq Nat, IsFiniteSet(S), NEW x \in S, NEW y \in S, x < y
  PROVE  Cardinality({f \in S : f < x}) < Cardinality({f \in S : f < y})
<1> DEFINE before(z) == {f \in S : f < z}
<1>1. before(x) \subseteq before(y) /\ x \in before(y) /\ x \notin before(x)
  <2>1. x \in Nat /\ y \in Nat /\ \A f \in S : f \in Nat
    OBVIOUS
  <2>2. ~(x < x) /\ \A f \in S : f < x => f < y
    BY <2>1
  <2> QED BY <2>2
<1>2. IsFiniteSet(before(x)) /\ IsFiniteSet(before(y))
  BY FS_Subset
<1>3. Cardinality(before(x)) <= Cardinality(before(y)) /\ Cardinality(before(x)) # Cardinality(before(y))
  BY <1>1, <1>2, FS_Subset
<1> QED BY <1>2, <1>3, FS_CardinalityType

\* At most MaxEvidence are selected.
LEMMA SelectionIsSmall ==
  ASSUME NEW S \in SUBSET Evidences
  PROVE  TopEvidence(S) \subseteq S /\ Cardinality(TopEvidence(S)) <= MaxEvidence
<1> DEFINE before(z) == {f \in S : f < z}
           T == TopEvidence(S)
           rank == [e \in T |-> Cardinality(before(e))]
<1>1. IsFiniteSet(S) /\ S \subseteq Nat /\ MaxEvidence \in Nat
  BY EvidenceAssumption, FS_Subset
<1>2. T \subseteq S /\ \A e \in T : Cardinality(before(e)) < MaxEvidence
  BY DEF TopEvidence
<1>3. \A e \in T : Cardinality(before(e)) \in Nat
  BY <1>1, FS_Subset, FS_CardinalityType
<1>4. rank \in [T -> 0..(MaxEvidence - 1)]
  BY <1>1, <1>2, <1>3
<1>5. \A x, y \in T : x < y => rank[x] < rank[y]
  BY <1>1, <1>2, FewerBefore
<1>6. \A x, y \in T : rank[x] = rank[y] => x = y
  <2> SUFFICES ASSUME NEW x \in T, NEW y \in T, rank[x] = rank[y] PROVE x = y
    OBVIOUS
  <2> HIDE DEF T, rank
  <2>1. x \in Nat /\ y \in Nat /\ rank[x] \in Int /\ rank[y] \in Int
    BY <1>1, <1>2, <1>4
  <2>2. ~(x < y) /\ ~(y < x)
    BY <1>5, <2>1
  <2> QED BY <2>1, <2>2
<1> HIDE DEF T, rank
<1>7. Cardinality(T) <= MaxEvidence
  BY <1>1, <1>4, <1>6, RankedSet
<1> QED BY <1>2, <1>7 DEF T

-----------------------------------------------------------------------------
(* The parts of the confidence *)

\* The average of scores from 0 to 100 is such a score.
LEMMA MeanBounds ==
  ASSUME NEW M, IsFiniteSet(M), NEW score, \A m \in M : score[m] \in 0..100
  PROVE  Mean(score, M) \in 0..100
<1> DEFINE points == UNION {(1..score[m]) \X {m} : m \in M}
           n == Cardinality(M)
<1>1. points \subseteq (1..100) \X M
  <2> SUFFICES ASSUME NEW m \in M, NEW p \in (1..score[m]) \X {m}
               PROVE  p \in (1..100) \X M
    OBVIOUS
  <2>1. 1..score[m] \subseteq 1..100
    OBVIOUS
  <2> QED BY <2>1
<1>2. IsFiniteSet(1..100) /\ Cardinality(1..100) = 100
  <2>1. 1 \in Int /\ 100 \in Int /\ ~(1 > 100) /\ 100 - 1 + 1 = 100
    OBVIOUS
  <2> QED BY <2>1, FS_Interval
<1>3. IsFiniteSet((1..100) \X M) /\ Cardinality((1..100) \X M) = 100 * n
  BY <1>2, FS_Product
<1> HIDE DEF points
<1>4. IsFiniteSet(points) /\ Cardinality(points) <= 100 * n
  BY <1>1, <1>3, FS_Subset
<1>5. Cardinality(points) \in Nat /\ n \in Nat /\ (M # {} => n # 0)
  BY <1>4, FS_CardinalityType, FS_EmptySet
<1>6. Mean(score, M) = IF M = {} THEN 0 ELSE Cardinality(points) \div n
  BY DEF Mean, Total, points
<1> HIDE DEF n
<1>7. \A a, b \in Nat : b # 0 /\ a <= 100 * b => a \div b \in 0..100
  OBVIOUS
<1> QED BY SMTT(60), <1>4, <1>5, <1>6, <1>7

LEMMA CoverageBounds ==
  ASSUME NEW C, IsFiniteSet(C), NEW E
  PROVE  Coverage(C, E) \in 0..100
<1> DEFINE cited == {c \in C : c.cites # {}}
           n == Cardinality(C)
           m == Cardinality(cited)
<1>1. IsFiniteSet(cited) /\ m <= n
  BY FS_Subset
<1>2. m \in Nat /\ n \in Nat /\ (C # {} => n # 0)
  BY <1>1, FS_CardinalityType, FS_EmptySet
<1>3. Coverage(C, E) = IF C = {} THEN IF E = {} THEN 0 ELSE 100
                       ELSE (100 * m) \div n
  BY DEF Coverage
<1> HIDE DEF m, n
<1>4. \A a, b \in Nat : b # 0 /\ a <= b => (100 * a) \div b \in 0..100
  OBVIOUS
<1> QED BY <1>1, <1>2, <1>3, <1>4

\* A run with something to stand on has at least 20 percent when it passed, and
\* less than 45, the lowest grade, when it abstains.
LEMMA ConfidenceBounds ==
  ASSUME NEW s, s.evidences \in SUBSET Evidences, IsFiniteSet(s.claims)
  PROVE  /\ ~Flag(s, "data_conflict") /\ (s.evidences # {} \/ s.calculations # {})
              => Confidence(s, "PASS") \in 20..100
         /\ Confidence(s, "ABSTAIN") \in 0..44
<1> DEFINE computed == IF s.calculations = {} THEN 0 ELSE 100
           quality == Mean(Relevance, s.evidences)
                        + Mean(Authority, s.evidences)
                        + Coverage(s.claims, s.evidences) + computed + 100
           score(v) == Gate(quality \div 5, v)
           capped(v) == IF Flag(s, "data_conflict") /\ score(v) > 80 THEN 80
                        ELSE score(v)
<1>1. IsFiniteSet(s.evidences)
  BY EvidenceAssumption, FS_Subset
<1>2. /\ \A e \in s.evidences : Relevance[e] \in 0..100
      /\ \A e \in s.evidences : Authority[e] \in 0..100
  BY EvidenceAssumption
<1>3. /\ Mean(Relevance, s.evidences) \in 0..100
      /\ Mean(Authority, s.evidences) \in 0..100
      /\ Coverage(s.claims, s.evidences) \in 0..100
  BY <1>1, <1>2, MeanBounds, CoverageBounds
<1>4. quality \in 100..500
  <2>1. \A a, b, c, d \in 0..100 : a + b + c + d + 100 \in 100..500
    OBVIOUS
  <2>2. computed \in 0..100
    OBVIOUS
  <2> HIDE DEF computed
  <2> QED BY ZenonT(60), <1>3, <2>1, <2>2
<1>5. \A v : Confidence(s, v) =
               IF s.evidences = {} /\ s.calculations = {} THEN 0 ELSE capped(v)
  BY Zenon DEF Confidence
<1>6. score("PASS") = quality \div 5 /\ score("ABSTAIN") = (3 * (quality \div 5)) \div 10
  BY DEF Gate
<1> HIDE DEF quality
<1>7. score("PASS") \in 20..100 /\ score("ABSTAIN") \in 6..30
  BY <1>4, <1>6
<1> HIDE DEF score
<1> QED BY <1>5, <1>7

-----------------------------------------------------------------------------
(* Figures and claims *)

LEMMA ImageIsFinite ==
  ASSUME NEW S, IsFiniteSet(S), NEW f
  PROVE  IsFiniteSet({f[x] : x \in S})
<1> DEFINE T == {f[x] : x \in S}
           g == [x \in S |-> f[x]]
<1>1. g \in Surjection(S, T)
  BY DEF Surjection
<1> HIDE DEF T, g
<1>2. IsFiniteSet(T)
  BY <1>1, FS_Surjection
<1> QED BY <1>2 DEF T

LEMMA CalculationsAreFinite ==
  ASSUME NEW figures \in Seq(Readings), NEW E, NEW valuation
  PROVE  IsFiniteSet(Calculate(figures, E, valuation))
<1> DEFINE members == ToSet(figures)
           cell == [m \in members |-> <<m.period, m.currency>>]
           name == [m \in members |-> m.metric]
           margin == [row \in MarginRows(figures) |->
             [id |-> [name |-> "net_margin", metric |-> "", period |-> row[1],
                      currency |-> row[2]],
              sources |-> Supporting(E,
                figures[LastOf(Cell(figures, row, "net_income"))])]]
           growth == [metric \in GrowingMetrics(figures) |->
             LET last == figures[Newest(figures, Series(figures, metric))]
             IN  [id |-> [name |-> "project_growth", metric |-> metric,
                          period |-> last.period, currency |-> ""],
                  sources |-> Supporting(E, last)]]
<1>1. IsFiniteSet(members)
  <2>1. DOMAIN figures = 1..Len(figures) /\ Len(figures) \in Nat
    OBVIOUS
  <2>2. IsFiniteSet(DOMAIN figures)
    BY <2>1, FS_Interval
  <2>3. members = {figures[i] : i \in DOMAIN figures}
    BY DEF ToSet
  <2> HIDE DEF members
  <2> QED BY <2>2, <2>3, ImageIsFinite
<1>2. Rows(figures) = {cell[m] : m \in members}
  BY DEF Rows
<1>3. GrowingMetrics(figures) \subseteq {name[m] : m \in members}
  BY DEF GrowingMetrics
<1>4. NetMargins(figures, E) = {margin[row] : row \in MarginRows(figures)}
  BY DEF NetMargins
<1>5. Projections(figures, E) = {growth[metric] : metric \in GrowingMetrics(figures)}
  BY DEF Projections
<1> HIDE DEF members, cell, name, margin, growth
<1>6. IsFiniteSet(MarginRows(figures))
  <2>1. IsFiniteSet(Rows(figures))
    BY <1>1, <1>2, ImageIsFinite
  <2>2. MarginRows(figures) \in SUBSET Rows(figures)
    BY DEF MarginRows
  <2> QED BY <2>1, <2>2, FS_Subset
<1>7. IsFiniteSet(GrowingMetrics(figures))
  <2>1. IsFiniteSet({name[m] : m \in members})
    BY <1>1, ImageIsFinite
  <2> QED BY <1>3, <2>1, FS_Subset
<1>8. IsFiniteSet(NetMargins(figures, E)) /\ IsFiniteSet(Projections(figures, E))
  BY <1>4, <1>5, <1>6, <1>7, ImageIsFinite
<1> QED BY <1>8, FS_Union, FS_EmptySet DEF Calculate

LEMMA ClaimsAreFinite ==
  ASSUME NEW E, IsFiniteSet(E), NEW C, IsFiniteSet(C)
  PROVE  IsFiniteSet(MakeClaims(E, C))
<1> DEFINE fact == [e \in E |-> [type |-> "fact", cites |-> {e}, calc |-> NoCalculation]]
           number == [c \in C |-> [type |-> "numeric", cites |-> c.sources, calc |-> c.id]]
<1>1. MakeClaims(E, C) = {fact[e] : e \in E} \cup {number[c] : c \in C}
  BY DEF MakeClaims
<1> HIDE DEF fact, number
<1>2. IsFiniteSet({fact[e] : e \in E}) /\ IsFiniteSet({number[c] : c \in C})
  BY ImageIsFinite
<1> QED BY <1>1, <1>2, FS_Union

\* No figures: nothing contradicts, and nothing can be computed.
LEMMA NoFigures ==
  /\ DetectMetricConflicts(<<>>) = {}
  /\ \A E, valuation : Calculate(<<>>, E, valuation) = {}
  /\ MarginRows(<<>>) = {}
<1>1. DOMAIN <<>> = {} /\ ToSet(<<>>) = {}
  BY DEF ToSet
<1>2. DetectMetricConflicts(<<>>) = {}
  BY <1>1 DEF DetectMetricConflicts
<1>3. MarginRows(<<>>) = {} /\ GrowingMetrics(<<>>) = {}
  BY <1>1 DEF MarginRows, Rows, GrowingMetrics
<1>4. \A E : NetMargins(<<>>, E) = {} /\ Projections(<<>>, E) = {}
  BY <1>3 DEF NetMargins, Projections
<1> QED BY <1>2, <1>3, <1>4 DEF Calculate

\* What a claim that was made stands on.
LEMMA ClaimsMade ==
  ASSUME NEW E, NEW C
  PROVE  /\ (E = {} /\ C = {}) <=> MakeClaims(E, C) = {}
         /\ \A c \in MakeClaims(E, C) :
              \/ c.type = "fact" /\ \E e \in E : c.cites = {e}
              \/ c.type = "numeric"
<1>1. E # {} => MakeClaims(E, C) # {}
  BY DEF MakeClaims
<1>2. C # {} => MakeClaims(E, C) # {}
  BY DEF MakeClaims
<1>3. E = {} /\ C = {} => MakeClaims(E, C) = {}
  BY DEF MakeClaims
<1>4. \A c \in MakeClaims(E, C) :
              \/ c.type = "fact" /\ \E e \in E : c.cites = {e}
              \/ c.type = "numeric"
  BY DEF MakeClaims
<1> QED BY <1>1, <1>2, <1>3, <1>4

-----------------------------------------------------------------------------
(* The research graph: what it shares *)

\* What the research graph's own module says of the shared nodes and rules is what
\* is said here.
LEMMA ResearchShares ==
  /\ \A S : Research!Cardinality(S) = Cardinality(S)
  /\ \A s, u : Research!Merge(s, u) = Merge(s, u)
  /\ \A s, u : Research!PolicyNode(s, u) = PolicyNode(s, u)
  /\ \A m, e : Research!Assess(m, e) = Assess(m, e)
  /\ \A m : Research!DetectMetricConflicts(m) = DetectMetricConflicts(m)
  /\ \A s, f : Research!FinancialNode(s, f) = FinancialNode(s, f)
  /\ \A m, e, v : Research!Calculate(m, e, v) = Calculate(m, e, v)
  /\ \A e : Research!TopEvidence(e) = TopEvidence(e)
  /\ \A e, c : Research!MakeClaims(e, c) = MakeClaims(e, c)
  /\ \A s, v : Research!Confidence(s, v) = Confidence(s, v)
<1>a. \A S : Research!Cardinality(S) = Cardinality(S)
  BY Zenon DEF Research!Cardinality, Cardinality, Research!IsFiniteSet, IsFiniteSet
<1>1. \A s, u : Research!Merge(s, u) = Merge(s, u)
  BY Zenon DEF Research!Merge, Merge
<1>2. \A s, u : Research!PolicyNode(s, u) = PolicyNode(s, u)
  BY Zenon DEF Research!PolicyNode, PolicyNode
<1>3. \A m, e : Research!Assess(m, e) = Assess(m, e)
  BY Zenon DEF Research!Assess, Assess, Research!None, None
<1>4. \A m : Research!DetectMetricConflicts(m) = DetectMetricConflicts(m)
  BY Zenon DEF Research!DetectMetricConflicts, DetectMetricConflicts, Research!Listed, Listed,
    Research!Group, Group, Research!Compare, Compare, Research!Complete, Complete,
    Research!ComparisonKey, ComparisonKey, Research!Agree, Agree, Research!Distance,
    Distance, Research!Normal, Normal, Research!MarketAliases, MarketAliases,
    Research!MetricAliases, MetricAliases, Research!CurrencyAliases, CurrencyAliases,
    Research!UnitAliases, UnitAliases
<1>5. \A s, f : Research!FinancialNode(s, f) = FinancialNode(s, f)
  BY Zenon, <1>4 DEF Research!FinancialNode, FinancialNode
<1>6. \A m, e, v : Research!Calculate(m, e, v) = Calculate(m, e, v)
  BY ZenonT(60) DEF Research!Calculate, Calculate, Research!NetMargins, NetMargins,
    Research!Projections, Projections, Research!Supporting, Supporting,
    Research!MarginRows, MarginRows, Research!Rows, Rows, Research!Cell, Cell,
    Research!LastOf, LastOf, Research!HasRatio, HasRatio, Research!GrowingMetrics,
    GrowingMetrics, Research!Series, Series, Research!Newest, Newest,
    Research!CanProject, CanProject, Research!ToSet, ToSet
<1>7. \A e : Research!TopEvidence(e) = TopEvidence(e)
  BY Zenon DEF Research!TopEvidence, TopEvidence, Research!Cardinality,
    Cardinality, Research!IsFiniteSet, IsFiniteSet
<1>8. \A e, c : Research!MakeClaims(e, c) = MakeClaims(e, c)
  BY Zenon DEF Research!MakeClaims, MakeClaims, Research!NoCalculation, NoCalculation
<1>9. \A s, v : Research!Confidence(s, v) = Confidence(s, v)
  BY ZenonT(60) DEF Research!Confidence, Confidence, Research!Mean, Mean, Research!Total, Total,
    Research!Coverage, Coverage, Research!Gate, Gate, Research!Flag, Flag,
    Research!Cardinality, Cardinality, Research!IsFiniteSet, IsFiniteSet
<1> QED BY <1>a, <1>1, <1>2, <1>3, <1>4, <1>5, <1>6, <1>7, <1>8, <1>9

-----------------------------------------------------------------------------
(* The research graph: the inductive invariant *)

Keys == {"intent", "entities", "valuation", "policy_status", "warnings",
         "evidences", "financial_data", "calculations", "claims",
         "debate_result", "verification_result", "final_answer", "confidence",
         "error_code"}

Asking     == {"parse_query", "intent", "entity", "policy"}
Finding    == {"route", "retrieval", "financial_data", "calculation", "evidence"}
Selected   == {"claim", "sentiment", "debate", "verification"}
Unverified == Asking \cup Finding \cup Selected
Undecided  == Unverified \cup {"answer", "abstain"}

\* What the channels hold.
ResearchTypes ==
  /\ at \in Undecided \cup {"audit", "end", "raised"}
  /\ DOMAIN state = Keys
  /\ state.error_code \in Codes \cup {None}
  /\ state.verification_result \in Verdicts \cup {None}
  /\ state.final_answer \in {None, "answer", "abstention"}
  /\ state.evidences \in SUBSET Evidences
  /\ state.financial_data \in Seq(Readings)
  /\ IsFiniteSet(state.calculations) /\ IsFiniteSet(state.claims)

\* What is known of the run by where it is.
ResearchProgress ==
  /\ at \in Undecided => state.final_answer = None /\ entry = None
  /\ at \in Unverified => state.verification_result = None
  /\ at = "audit" => state.final_answer # None /\ entry = None

\* The gate's verdict, of which a block leaves an error; what the providers
\* contradict each other about leaves a warning.
ResearchTraces ==
  /\ at \in Undecided \ Asking => state.policy_status \in {"allow", "block"}
  /\ state.policy_status = "block" => state.error_code # None
  /\ DetectMetricConflicts(state.financial_data) # {} =>
       "provider_data_conflict" \in state.warnings

\* What the claims and the arguments are made from, when they are verified.
ResearchBasis ==
  /\ at \in Selected => Cardinality(state.evidences) <= MaxEvidence
  /\ at \in Selected \ {"claim"} =>
       state.claims = MakeClaims(state.evidences, state.calculations)
  /\ at = "verification" =>
       Research!Cited(state.debate_result.bull)
         \cup Research!Cited(state.debate_result.bear)
           \subseteq state.evidences \cup UNION {c.cites : c \in state.claims}

\* What an answer stands on.
Grounded ==
  /\ state.error_code = None /\ state.policy_status = "allow"
  /\ state.verification_result = "PASS"
  /\ Cardinality(state.evidences) <= MaxEvidence
  /\ state.evidences # {} \/ state.calculations # {}
  /\ \A c \in state.claims :
       /\ c.cites \subseteq state.evidences
       /\ c.cites # {} \/ c.calc \in Ids(state.calculations)
  /\ Research!Cited(state.debate_result.bull)
       \cup Research!Cited(state.debate_result.bear) \subseteq state.evidences

ResearchEnds ==
  /\ at = "answer" \/ state.final_answer = "answer" => Grounded
  /\ at = "abstain" => \/ state.error_code # None
                       \/ state.verification_result \notin {"PASS", "FAIL"}
  /\ state.final_answer = "answer" => state.confidence # 0
  /\ state.final_answer = "abstention" => state.confidence = 0

ResearchInv ==
  /\ ResearchTypes /\ ResearchProgress /\ ResearchTraces
  /\ ResearchBasis /\ ResearchEnds

-----------------------------------------------------------------------------
(* The health graph: the inductive invariant *)

HealthKeys == {"valuation", "entities", "policy_status", "warnings", "evidences",
               "financial_data", "calculations", "rule_results",
               "cross_check_status", "claims", "verification_result",
               "final_answer", "confidence", "error_code"}

Fetched   == {"financial_rule_engine", "financial_calculation"}
Computed  == {"narrative_analysis", "cross_check", "claim_generation",
              "verification", "report"}
Unchecked == {"parse_query", "entity", "policy", "financial_data",
              "financial_rule_engine", "financial_calculation",
              "narrative_analysis", "cross_check", "claim_generation",
              "verification"}

HealthTypes ==
  /\ at \in Unchecked \cup {"report", "abstain", "audit", "end", "raised"}
  /\ DOMAIN state = HealthKeys
  /\ state.error_code \in Codes \cup {None}
  /\ state.final_answer \in {None, "answer", "abstention"}
  /\ state.evidences = {}

HealthProgress ==
  /\ at \in Unchecked => state.verification_result = None
  /\ at \in Unchecked \cup {"report", "abstain"} =>
       state.final_answer = None /\ entry = None
  /\ at = "audit" => state.final_answer # None /\ entry = None
  /\ at \in {"parse_query", "entity", "policy", "financial_data"} =>
       state.error_code = None /\ state.financial_data = <<>>
  /\ at \in {"financial_data"} \cup Fetched \cup Computed =>
       state.policy_status = "allow"
  /\ DetectMetricConflicts(state.financial_data) # {} =>
       "provider_data_conflict" \in state.warnings

\* An error, and a conflict, leave nothing that could be reported.
HealthBasis ==
  /\ at \in Fetched /\ state.error_code # None => state.financial_data = <<>>
  /\ at \in Computed =>
       /\ state.error_code # None => state.calculations = {}
       /\ state.calculations # {} =>
            state.calculations = Calculate(state.financial_data, {}, state.valuation)
  /\ at \in {"claim_generation", "verification"} /\ state.cross_check_status = "conflict" =>
       state.calculations = {}
  /\ at = "verification" => state.claims = MakeClaims({}, state.calculations)

Derived ==
  /\ state.policy_status = "allow" /\ state.error_code = None
  /\ state.calculations # {}
  /\ state.calculations = Calculate(state.financial_data, {}, state.valuation)

HealthEnds ==
  /\ at = "report" => state.verification_result = "PASS"
  /\ at = "report" \/ state.final_answer = "answer" => Derived
  /\ at = "abstain" => \/ state.error_code # None
                       \/ state.verification_result \notin {"PASS", "FAIL"}

HealthInv == HealthTypes /\ HealthProgress /\ HealthBasis /\ HealthEnds

-----------------------------------------------------------------------------
(* The due diligence graph: the inductive invariant *)

DossierKeys == {"entities", "policy_status", "warnings", "evidences",
                "calculations", "claims", "dossier", "report",
                "verification_result", "final_answer", "confidence", "error_code"}

Writing == 1..Len(Dossier!Phases)
Released == {"AUDIT", "end", "raised late"}

DossierTypes ==
  /\ at \in {Dossier!Phases[i] : i \in Writing} \cup Released \cup
            {"POLICY", "REPORT", "VERIFICATION", "ABSTAIN", "raised"}
  /\ DOMAIN state = DossierKeys
  /\ state.error_code \in Codes \cup {None}
  /\ state.final_answer \in {None, "answer", "abstention"}
  /\ state.evidences \in SUBSET Evidences
  /\ IsFiniteSet(state.claims)

DossierProgress ==
  /\ at \in {Dossier!Phases[i] : i \in Writing} \cup {"POLICY", "REPORT"} =>
       /\ state.error_code = None /\ state.verification_result = None
       /\ state.final_answer = None
  /\ at = "POLICY" => state.dossier = <<>>
  /\ \A i \in Writing :
       at = Dossier!Phases[i] => state.dossier = SubSeq(Dossier!Phases, 1, i - 1)
  /\ at = "REPORT" => state.dossier = Dossier!Phases
  /\ at \notin {"end", "raised late"} => entry = None

\* What is said of the report by the time it is verified.
Anticipated ==
  /\ state.report = Dossier!Phases
  /\ state.verification_result = VerifyState(state)
  /\ state.confidence = Confidence(state, state.verification_result)

DossierEnds ==
  /\ at = "VERIFICATION" =>
       state.final_answer = "answer" /\ state.error_code = None /\ Anticipated
  /\ at = "ABSTAIN" => state.error_code # None
  /\ at \in Released => state.final_answer # None
  /\ at \in Released /\ state.final_answer = "answer" =>
       Anticipated /\ state.verification_result # "FAIL"

DossierInv == DossierTypes /\ DossierProgress /\ DossierEnds

-----------------------------------------------------------------------------
(* The report graph: the inductive invariant *)

ReportKeys == {"policy_status", "warnings", "evidences", "calculations", "claims",
               "sections", "verification_result", "final_answer",
               "answer_confidence", "error_code"}

Assembling == {"load", "assemble_claims", "generate_sections", "verify_sections"}

ReportTypes ==
  /\ at \in Assembling \cup {"assemble_report", "abstain", "audit", "end", "raised"}
  /\ DOMAIN state = ReportKeys
  /\ state.error_code \in Codes \cup {None}
  /\ state.final_answer \in {None, "answer", "abstention"}

ReportProgress ==
  /\ at \in Assembling => state.verification_result = None /\ state.error_code = None
  /\ at \in Assembling \cup {"assemble_report", "abstain"} =>
       state.final_answer = None /\ entry = None
  /\ at = "audit" => state.final_answer # None /\ entry = None
  /\ at \in {"load", "assemble_claims"} => state.claims = given
  /\ at \in {"generate_sections", "verify_sections"} /\ given # {} => state.claims = given
  /\ at = "verify_sections" => state.sections = state.claims

Vouched ==
  /\ given # {} => state.sections = given
  /\ state.policy_status # "block"
  /\ \A c \in given : ~Unsound(c, state.evidences, state.calculations)

ReportEnds ==
  /\ at = "assemble_report" =>
       state.error_code = None /\ state.verification_result \in {"PASS", "ABSTAIN"}
  /\ at = "assemble_report" \/ state.final_answer = "answer" => Vouched
  /\ at = "abstain" => state.error_code # None

ReportInv == ReportTypes /\ ReportProgress /\ ReportEnds

-----------------------------------------------------------------------------
\* What holds between two nodes of a run, of whichever graph it is.
RunInv ==
  /\ graph = "research" => ResearchInv
  /\ graph = "financial_health" => HealthInv
  /\ graph = "due_diligence" => DossierInv
  /\ graph = "report" => ReportInv

-----------------------------------------------------------------------------
(* The research graph: its steps *)

\* A node takes the edge from it and replaces the keys it returns.
LEMMA ResearchReturns ==
  ASSUME DOMAIN state = Keys, NEW n, NEW u, Research!Return(n, u)
  PROVE  /\ at = n /\ at' = Research!EdgeFrom[n]
         /\ DOMAIN state' = Keys
         /\ \A k \in Keys : state'[k] = IF k \in DOMAIN u THEN u[k] ELSE state[k]
BY MergeApply, ResearchShares DEF Research!Return

LEMMA ResearchEdges ==
  /\ Research!EdgeFrom["parse_query"] = "intent"
  /\ Research!EdgeFrom["intent"] = "entity"
  /\ Research!EdgeFrom["entity"] = "policy"
  /\ Research!EdgeFrom["policy"] = "route"
  /\ Research!EdgeFrom["retrieval"] = "financial_data"
  /\ Research!EdgeFrom["financial_data"] = "calculation"
  /\ Research!EdgeFrom["calculation"] = "evidence"
  /\ Research!EdgeFrom["evidence"] = "claim"
  /\ Research!EdgeFrom["claim"] = "sentiment"
  /\ Research!EdgeFrom["sentiment"] = "debate"
  /\ Research!EdgeFrom["debate"] = "verification"
  /\ Research!EdgeFrom["answer"] = "audit"
  /\ Research!EdgeFrom["abstain"] = "audit"
BY DEF Research!EdgeFrom

\* Neither an error nor a warning is dropped.
Kept ==
  /\ state.error_code # None => state'.error_code # None
  /\ state.warnings \subseteq state'.warnings

\* A step of the run that GovernedRun describes, or none that it sees.
ResearchGoverned == [Research!Abstract!Next]_(Research!Abstract!vars)

\* Those that it does not see.
LEMMA ResearchUnseen ==
  ASSUME UNCHANGED <<state.error_code, state.verification_result,
                     state.final_answer, entry>>
  PROVE  ResearchGoverned
BY DEF ResearchGoverned, Research!Abstract!vars

\* Nodes that can fail.
LEMMA ResearchFails ==
  ASSUME state.final_answer = None,
         state'.error_code \in Codes \cup {state.error_code},
         UNCHANGED <<state.verification_result, state.final_answer, entry>>
  PROVE  ResearchGoverned
<1>1. CASE state'.error_code = state.error_code
  BY <1>1, ResearchUnseen
<1>2. CASE state'.error_code \in Codes
  BY <1>2 DEF ResearchGoverned, Research!Abstract!Next, Research!Abstract!Fail,
    Research!None, None, Research!Codes, Codes
<1> QED BY <1>1, <1>2

LEMMA ResearchAnswerStep ==
  ASSUME ResearchInv, Research!Answer
  PROVE  ResearchInv' /\ Kept /\ ResearchGoverned
<1> USE DEF None
<1> DEFINE u == Research!AnswerNode(state)
<1>1. at = "answer" /\ DOMAIN state = Keys /\ Grounded /\ state.final_answer = None
  BY ResearchReturns DEF ResearchInv, ResearchTypes, ResearchEnds, ResearchProgress, Research!Answer, Undecided
<1>2. /\ at' = "audit" /\ DOMAIN state' = Keys /\ entry' = entry
      /\ state'.final_answer = "answer"
      /\ state'.confidence = Confidence(state, "PASS")
      /\ UNCHANGED <<state.error_code, state.verification_result, state.evidences,
           state.financial_data, state.calculations, state.claims, state.warnings,
           state.policy_status, state.debate_result>>
  BY <1>1, ResearchReturns, ResearchEdges, ResearchShares DEF Keys, Research!Answer, Research!AnswerNode, Grounded
<1>3. Confidence(state, "PASS") \in 20..100
  <2>1. state.evidences \in SUBSET Evidences /\ IsFiniteSet(state.claims)
    BY DEF ResearchInv, ResearchTypes
  <2>2. ~Flag(state, "data_conflict")
    BY <1>1 DEF Flag, Keys
  <2> QED BY <1>1, <2>1, <2>2, ConfidenceBounds DEF Grounded
<1>4. ResearchTypes' /\ ResearchProgress' /\ ResearchTraces' /\ ResearchBasis'
  BY <1>1, <1>2 DEF ResearchInv, ResearchTypes, ResearchProgress, ResearchTraces, ResearchBasis,
    Undecided, Unverified, Asking, Finding, Selected
<1>5. ResearchEnds'
  BY <1>1, <1>2, <1>3 DEF ResearchEnds, Grounded
<1>6. ResearchGoverned
  BY <1>1, <1>2 DEF ResearchGoverned, Research!Abstract!Next, Research!Abstract!Answer, Grounded, Research!None
<1> QED BY <1>2, <1>4, <1>5, <1>6 DEF ResearchInv, Kept

LEMMA ResearchAskingStep ==
  ASSUME ResearchInv, Research!Pass \/ Research!Intent \/ Research!Entity
  PROVE  ResearchInv' /\ Kept /\ ResearchGoverned
<1> USE DEF None
<1>1. /\ UNCHANGED <<state.error_code, state.verification_result, state.evidences,
           state.financial_data, state.calculations, state.claims, state.warnings,
           state.policy_status, state.debate_result, state.final_answer,
           state.confidence, entry>>
      /\ DOMAIN state' = Keys
      /\ \/ at \in {"parse_query", "intent", "entity"} /\ at' \in {"intent", "entity", "policy"}
         \/ at = "sentiment" /\ at' = "debate"
  <2>1. DOMAIN state = Keys
    BY DEF ResearchInv, ResearchTypes
  <2>2. CASE Research!Pass
    BY <2>1, <2>2, ResearchEdges DEF Research!Pass
  <2>3. CASE Research!Intent
    <3>1. PICK i \in Research!Intents : Research!Return("intent", [intent |-> i])
      BY <2>3 DEF Research!Intent
    <3> QED BY <2>1, <2>3, <3>1, ResearchReturns, ResearchEdges DEF Keys, Research!Intent
  <2>4. CASE Research!Entity
    <3>1. PICK kind : Research!Return("entity", [entities |-> kind])
      BY <2>4 DEF Research!Entity
    <3> QED BY <2>1, <2>4, <3>1, ResearchReturns, ResearchEdges DEF Keys, Research!Entity
  <2> QED BY <2>2, <2>3, <2>4
<1>2. ResearchTypes' /\ ResearchProgress' /\ ResearchTraces'
  BY <1>1 DEF ResearchInv, ResearchTypes, ResearchProgress, ResearchTraces,
    Undecided, Unverified, Asking, Finding, Selected
<1>3. ResearchBasis' /\ ResearchEnds'
  BY <1>1 DEF ResearchInv, ResearchBasis, ResearchEnds, Grounded, Selected
<1> QED BY <1>1, <1>2, <1>3, ResearchUnseen DEF ResearchInv, Kept

LEMMA ResearchPolicyStep ==
  ASSUME ResearchInv, Research!Policy
  PROVE  ResearchInv' /\ Kept /\ ResearchGoverned
<1> USE DEF None
<1>1. PICK matches : Research!Return("policy",
               PolicyNode(state, Assess(matches, state.entities)))
  BY ResearchShares DEF Research!Policy
<1> DEFINE verdict == Assess(matches, state.entities)
<1>2. /\ verdict.status \in {"allow", "block"}
      /\ Research!Return("policy", PolicyNode(state, verdict))
  BY <1>1 DEF Assess
<1>3. /\ at = "policy" /\ at' = "route" /\ DOMAIN state' = Keys /\ entry' = entry
      /\ state'.policy_status = verdict.status
      /\ state.warnings \subseteq state'.warnings
      /\ state'.error_code = IF verdict.status = "block" THEN "FIN-4001" ELSE state.error_code
      /\ UNCHANGED <<state.verification_result, state.evidences,
           state.financial_data, state.calculations, state.claims,
           state.debate_result, state.final_answer, state.confidence>>
  <2>1. DOMAIN state = Keys
    BY DEF ResearchInv, ResearchTypes
  <2> HIDE DEF verdict
  <2>2. UNCHANGED entry
    BY DEF Research!Policy
  <2> QED BY <2>1, <2>2, <1>2, ResearchReturns, ResearchEdges DEF Keys, PolicyNode
<1> HIDE DEF verdict
<1>4. ResearchTypes' /\ ResearchProgress' /\ ResearchTraces'
  BY <1>2, <1>3 DEF ResearchInv, ResearchTypes, ResearchProgress, ResearchTraces,
    Undecided, Unverified, Asking, Finding, Selected, Codes
<1>5. ResearchBasis' /\ ResearchEnds'
  BY <1>2, <1>3 DEF ResearchInv, ResearchBasis, ResearchProgress, ResearchEnds, Grounded, Selected,
    Undecided, Unverified, Asking
<1>6. ResearchGoverned
  BY <1>3, ResearchFails DEF Codes, ResearchInv, ResearchProgress, Undecided, Unverified, Asking
<1> QED BY <1>3, <1>4, <1>5, <1>6 DEF ResearchInv, Kept

LEMMA ResearchRouteStep ==
  ASSUME ResearchInv, Research!Route
  PROVE  ResearchInv' /\ Kept /\ ResearchGoverned
<1> USE DEF None
<1>1. /\ at = "route" /\ at' \in {"abstain", "financial_data", "retrieval"}
      /\ at' = "abstain" => state.policy_status = "block" \/ state.error_code # None
      /\ state' = state /\ entry' = entry
  BY DEF Research!Route, Research!ChooseRoute, Research!None
<1>2. ResearchTypes' /\ ResearchProgress' /\ ResearchTraces' /\ ResearchBasis' /\ ResearchEnds'
  BY <1>1 DEF ResearchInv, ResearchTypes, ResearchProgress, ResearchTraces, ResearchBasis,
    ResearchEnds, Grounded, Undecided, Unverified, Asking, Finding, Selected
<1> QED BY <1>1, <1>2, ResearchUnseen DEF ResearchInv, Kept

\* A failed attempt of a waiting node, or its time limit.
LEMMA ResearchWaitingFails ==
  ASSUME ResearchInv, NEW n \in Research!IONodes, NEW u, Research!Return(n, u),
         UNCHANGED entry,
         \/ DOMAIN u = {"error_code"}
         \/ DOMAIN u = {"error_code", "evidences"} /\ u.evidences = {}
         \/ DOMAIN u = {"error_code", "financial_data"} /\ u.financial_data = <<>>,
         u.error_code \in Codes
  PROVE  ResearchInv' /\ Kept /\ ResearchGoverned
<1> USE DEF None
<1>1. /\ at \in {"retrieval", "financial_data"} /\ at' \in {"financial_data", "calculation"}
      /\ DOMAIN state' = Keys
      /\ state'.error_code \in Codes
      /\ state'.evidences \in {state.evidences, {}}
      /\ state'.financial_data \in {state.financial_data, <<>>}
      /\ UNCHANGED <<state.verification_result, state.policy_status, state.warnings,
           state.calculations, state.claims, entry,
           state.debate_result, state.final_answer, state.confidence>>
  <2>1. DOMAIN state = Keys
    BY DEF ResearchInv, ResearchTypes
  <2> QED BY <2>1, ResearchReturns, ResearchEdges DEF Keys, Research!IONodes
<1>2. <<>> \in Seq(Readings) /\ DetectMetricConflicts(<<>>) = {}
  BY NoFigures
<1>3. ResearchTypes' /\ ResearchProgress'
  BY <1>1, <1>2 DEF ResearchInv, ResearchTypes, ResearchProgress,
    Undecided, Unverified, Asking, Finding, Selected
<1>4. ResearchTraces'
  BY <1>1, <1>2 DEF ResearchInv, ResearchTraces, ResearchProgress,
    Undecided, Unverified, Asking, Finding, Selected, Codes
<1>5. ResearchBasis' /\ ResearchEnds'
  BY <1>1 DEF ResearchInv, ResearchBasis, ResearchProgress, ResearchEnds, Grounded, Selected,
    Undecided, Unverified, Finding
<1>6. ResearchGoverned
  BY <1>1, ResearchFails DEF ResearchInv, ResearchProgress, Undecided, Unverified, Finding
<1>7. Kept
  BY <1>1 DEF Kept, Codes
<1> QED BY <1>3, <1>4, <1>5, <1>6, <1>7 DEF ResearchInv

LEMMA ResearchWaitingStep ==
  ASSUME ResearchInv, NEW n \in Research!IONodes,
         \/ \E r \in Research!Results(n, state) :
              Research!TryAgain(n, r) \/ Research!Conclude(n, r)
         \/ Research!TimeOut(n)
  PROVE  ResearchInv' /\ Kept /\ ResearchGoverned
<1> USE DEF None
<1>1. CASE Research!TimeOut(n)
  <2> DEFINE u == [error_code |-> "FIN-5002"]
  <2>1. Research!Return(n, u) /\ UNCHANGED entry /\ DOMAIN u = {"error_code"} /\ u.error_code \in Codes
    BY <1>1 DEF Research!TimeOut, Codes
  <2> HIDE DEF u
  <2> QED BY <2>1, ResearchWaitingFails
<1>2. CASE \E r \in Research!Results(n, state) : Research!TryAgain(n, r)
  <2>1. UNCHANGED <<at, state, entry>>
    BY <1>2 DEF Research!TryAgain
  <2>2. ResearchTypes' /\ ResearchProgress' /\ ResearchTraces' /\ ResearchBasis' /\ ResearchEnds'
    BY <2>1 DEF ResearchInv, ResearchTypes, ResearchProgress, ResearchTraces, ResearchBasis,
      ResearchEnds, Grounded
  <2> QED BY <2>1, <2>2, ResearchUnseen DEF ResearchInv, Kept
<1>3. CASE \E r \in Research!Results(n, state) : Research!Conclude(n, r)
  <2>1. PICK r \in Research!Results(n, state) : Research!Return(n, r) /\ UNCHANGED entry
    BY <1>3 DEF Research!Conclude
  <2>2. CASE n = "retrieval" /\ r \in [evidences : {{}}, error_code : {"FIN-3001", "FIN-3003"}]
    BY <2>1, <2>2, ResearchWaitingFails DEF Codes
  <2>3. CASE n = "financial_data" /\ r \in [financial_data : {<<>>}, error_code : {"FIN-2001", "FIN-2004", "FIN-2101"}]
    BY <2>1, <2>3, ResearchWaitingFails DEF Codes
  <2>4. CASE n = "retrieval" /\ r \in [evidences : SUBSET Evidences]
    <3>1. /\ at = "retrieval" /\ at' = "financial_data" /\ DOMAIN state' = Keys
          /\ state'.evidences \in SUBSET Evidences
          /\ UNCHANGED <<state.verification_result, state.policy_status, state.warnings,
               state.calculations, state.claims, state.error_code, state.financial_data, entry,
               state.debate_result, state.final_answer, state.confidence>>
      <4>1. DOMAIN state = Keys
        BY DEF ResearchInv, ResearchTypes
      <4> QED BY <4>1, <2>1, <2>4, ResearchReturns, ResearchEdges DEF Keys
    <3>2. ResearchTypes' /\ ResearchProgress' /\ ResearchTraces'
      BY <3>1 DEF ResearchInv, ResearchTypes, ResearchProgress, ResearchTraces,
        Undecided, Unverified, Asking, Finding, Selected
    <3>3. ResearchBasis' /\ ResearchEnds'
      BY <3>1 DEF ResearchInv, ResearchBasis, ResearchProgress, ResearchEnds, Grounded, Selected,
        Undecided, Unverified, Finding
    <3> QED BY <3>1, <3>2, <3>3, ResearchUnseen DEF ResearchInv, Kept
  <2>5. CASE n = "financial_data" /\ r \in {FinancialNode(state, figures) : figures \in Research!FiguresFor(state)}
    <3>1. PICK figures \in Research!FiguresFor(state) : r = FinancialNode(state, figures)
      BY <2>5
    <3>2. figures \in Seq(Readings)
      BY <3>1, FiguresAssumption DEF Research!FiguresFor, Research!Readings, Readings
    <3>3. /\ at = "financial_data" /\ at' = "calculation" /\ DOMAIN state' = Keys
          /\ state'.financial_data = figures
          /\ state.warnings \subseteq state'.warnings
          /\ DetectMetricConflicts(figures) # {} => "provider_data_conflict" \in state'.warnings
          /\ UNCHANGED <<state.verification_result, state.policy_status, state.evidences,
               state.calculations, state.claims, state.error_code, entry,
               state.debate_result, state.final_answer, state.confidence>>
      <4>1. DOMAIN state = Keys
        BY DEF ResearchInv, ResearchTypes
      <4>2. CASE DetectMetricConflicts(figures) = {}
        BY <4>1, <4>2, <2>1, <2>5, <3>1, ResearchReturns, ResearchEdges DEF Keys, FinancialNode
      <4>3. CASE DetectMetricConflicts(figures) # {}
        BY <4>1, <4>3, <2>1, <2>5, <3>1, ResearchReturns, ResearchEdges DEF Keys, FinancialNode
      <4> QED BY <4>2, <4>3
    <3>4. ResearchTypes' /\ ResearchProgress' /\ ResearchTraces'
      BY <3>2, <3>3 DEF ResearchInv, ResearchTypes, ResearchProgress, ResearchTraces,
        Undecided, Unverified, Asking, Finding, Selected
    <3>5. ResearchBasis' /\ ResearchEnds'
      BY <3>3 DEF ResearchInv, ResearchBasis, ResearchProgress, ResearchEnds, Grounded, Selected,
        Undecided, Unverified, Finding
    <3> QED BY <3>3, <3>4, <3>5, ResearchUnseen DEF ResearchInv, Kept
  <2> QED BY <2>1, <2>2, <2>3, <2>4, <2>5, ResearchShares
      DEF Research!Results, Research!IONodes, Research!RetrievalResults, Research!FinancialResults
<1> QED BY <1>1, <1>2, <1>3

LEMMA ResearchCalculationStep ==
  ASSUME ResearchInv, Research!Calculation
  PROVE  ResearchInv' /\ Kept /\ ResearchGoverned
<1> USE DEF None
<1>1. /\ at = "calculation" /\ at' = "evidence" /\ DOMAIN state' = Keys /\ entry' = entry
      /\ state.warnings \subseteq state'.warnings
      /\ \/ state'.calculations = {} /\ state'.error_code = "FIN-3101"
         \/ /\ state'.calculations =
                 Calculate(state.financial_data, state.evidences, state.valuation)
            /\ state'.error_code = state.error_code
      /\ UNCHANGED <<state.verification_result, state.policy_status, state.evidences,
           state.claims, state.financial_data,
           state.debate_result, state.final_answer, state.confidence>>
  <2>1. DOMAIN state = Keys
    BY DEF ResearchInv, ResearchTypes
  <2>2. CASE Research!Return("calculation", Research!CalculationFailure)
    <3> DEFINE u == Research!CalculationFailure
    <3>1. /\ DOMAIN u = {"calculations", "error_code"} /\ u.calculations = {} /\ u.error_code = "FIN-3101"
          /\ Research!Return("calculation", u) /\ UNCHANGED entry
      BY <2>2 DEF Research!CalculationFailure, Research!Calculation
    <3> HIDE DEF u
    <3> QED BY <2>1, <3>1, ResearchReturns, ResearchEdges DEF Keys
  <2>3. CASE Research!Return("calculation", Research!CalculationNode(state))
    <3> DEFINE u == Research!CalculationNode(state)
    <3>1. /\ DOMAIN u = {"calculations", "warnings"} /\ state.warnings \subseteq u.warnings
          /\ u.calculations = Calculate(state.financial_data, state.evidences, state.valuation)
          /\ Research!Return("calculation", u) /\ UNCHANGED entry
      BY <2>3, ResearchShares DEF Research!CalculationNode, Research!Calculation
    <3> HIDE DEF u
    <3> QED BY <2>1, <3>1, ResearchReturns, ResearchEdges DEF Keys
  <2> QED BY <2>2, <2>3 DEF Research!Calculation
<1>2. IsFiniteSet(state'.calculations)
  <2>1. state.financial_data \in Seq(Readings)
    BY DEF ResearchInv, ResearchTypes
  <2>2. IsFiniteSet(Calculate(state.financial_data, state.evidences, state.valuation))
    BY <2>1, CalculationsAreFinite
  <2> QED BY <1>1, <2>2, FS_EmptySet
<1>3. ResearchTypes' /\ ResearchProgress' /\ ResearchTraces'
  BY <1>1, <1>2 DEF ResearchInv, ResearchTypes, ResearchProgress, ResearchTraces,
    Undecided, Unverified, Asking, Finding, Selected, Codes
<1>4. ResearchBasis' /\ ResearchEnds'
  BY <1>1 DEF ResearchInv, ResearchBasis, ResearchProgress, ResearchEnds, Grounded, Selected,
    Undecided, Unverified, Finding
<1>5. ResearchGoverned
  BY <1>1, ResearchFails DEF ResearchInv, ResearchProgress, Undecided, Unverified, Finding, Codes
<1> QED BY <1>1, <1>3, <1>4, <1>5 DEF ResearchInv, Kept

LEMMA ResearchSelectionStep ==
  ASSUME ResearchInv, Research!EvidenceSelection
  PROVE  ResearchInv' /\ Kept /\ ResearchGoverned
<1> USE DEF None
<1>1. /\ at = "evidence" /\ at' = "claim" /\ DOMAIN state' = Keys /\ entry' = entry
      /\ state'.evidences = TopEvidence(state.evidences)
      /\ UNCHANGED <<state.verification_result, state.policy_status, state.warnings,
           state.claims, state.financial_data, state.calculations, state.error_code,
           state.debate_result, state.final_answer, state.confidence>>
  <2>1. DOMAIN state = Keys
    BY DEF ResearchInv, ResearchTypes
  <2> QED BY <2>1, ResearchReturns, ResearchEdges, ResearchShares DEF Keys, Research!EvidenceSelection
<1>2. state'.evidences \in SUBSET Evidences /\ Cardinality(state'.evidences) <= MaxEvidence
  BY <1>1, SelectionIsSmall DEF ResearchInv, ResearchTypes
<1>3. ResearchTypes' /\ ResearchProgress' /\ ResearchTraces'
  BY <1>1, <1>2 DEF ResearchInv, ResearchTypes, ResearchProgress, ResearchTraces,
    Undecided, Unverified, Asking, Finding, Selected, Codes
<1>4. ResearchBasis' /\ ResearchEnds'
  BY <1>1, <1>2 DEF ResearchInv, ResearchBasis, ResearchProgress, ResearchEnds, Grounded, Selected,
    Undecided, Unverified, Finding
<1> QED BY <1>1, <1>3, <1>4, ResearchUnseen DEF ResearchInv, Kept

LEMMA ResearchClaimStep ==
  ASSUME ResearchInv, Research!Claim
  PROVE  ResearchInv' /\ Kept /\ ResearchGoverned
<1> USE DEF None
<1>1. /\ at = "claim" /\ at' = "sentiment" /\ DOMAIN state' = Keys /\ entry' = entry
      /\ state'.claims = MakeClaims(state.evidences, state.calculations)
      /\ state.warnings \subseteq state'.warnings
      /\ UNCHANGED <<state.verification_result, state.policy_status, state.evidences,
           state.financial_data, state.calculations, state.error_code,
           state.debate_result, state.final_answer, state.confidence>>
  <2>1. DOMAIN state = Keys
    BY DEF ResearchInv, ResearchTypes
  <2>2. PICK llm : Research!Return("claim", Research!ClaimNode(state, llm))
    BY DEF Research!Claim
  <2> DEFINE u == Research!ClaimNode(state, llm)
  <2>3. /\ DOMAIN u = {"claims", "warnings"} /\ state.warnings \subseteq u.warnings
        /\ u.claims = MakeClaims(state.evidences, state.calculations)
        /\ Research!Return("claim", u) /\ UNCHANGED entry
    BY <2>2, ResearchShares DEF Research!ClaimNode, Research!ClaimWarnings, Research!Claim
  <2> HIDE DEF u
  <2> QED BY <2>1, <2>3, ResearchReturns, ResearchEdges DEF Keys
<1>2. IsFiniteSet(state'.claims)
  <2>1. IsFiniteSet(state.evidences) /\ IsFiniteSet(state.calculations)
    BY EvidenceAssumption, FS_Subset DEF ResearchInv, ResearchTypes
  <2> QED BY <1>1, <2>1, ClaimsAreFinite
<1>3. ResearchTypes' /\ ResearchProgress' /\ ResearchTraces'
  BY <1>1, <1>2 DEF ResearchInv, ResearchTypes, ResearchProgress, ResearchTraces,
    Undecided, Unverified, Asking, Finding, Selected, Codes
<1>4. ResearchBasis' /\ ResearchEnds'
  BY <1>1 DEF ResearchInv, ResearchBasis, ResearchProgress, ResearchEnds, Grounded, Selected,
    Undecided, Unverified, Finding
<1> QED BY <1>1, <1>3, <1>4, ResearchUnseen DEF ResearchInv, Kept

\* A side of the debate cites what is there, or what a claim cites.
LEMMA SidesCite ==
  \A drafts, claims, E :
    LET shown == E \cup UNION {c.cites : c \in claims}
    IN  /\ Research!Cited(Research!Side(drafts, Research!BullArguments(claims, E), E))
             \subseteq shown
        /\ Research!Cited(Research!Side(drafts, Research!BearArguments(claims, E), E))
             \subseteq shown
<1> TAKE drafts, claims, E
<1>1. Research!Cited(Research!LlmArguments(drafts, E)) \subseteq E
  BY DEF Research!Cited, Research!LlmArguments
<1>2. Research!Cited(Research!BullArguments(claims, E)) \subseteq UNION {c.cites : c \in claims}
  BY DEF Research!Cited, Research!BullArguments
<1>3. Research!Cited(Research!BearArguments(claims, E)) = {}
  BY DEF Research!Cited, Research!BearArguments
<1> QED BY <1>1, <1>2, <1>3 DEF Research!Side

LEMMA ResearchDebateStep ==
  ASSUME ResearchInv, Research!Debating
  PROVE  ResearchInv' /\ Kept /\ ResearchGoverned
<1> USE DEF None
<1>1. PICK bull, bear : Research!Return("debate", Research!DebateNode(state, bull, bear))
  BY DEF Research!Debating
<1> DEFINE left == Research!Side(bull, Research!BullArguments(state.claims, state.evidences),
                                 state.evidences)
           right == Research!Side(bear, Research!BearArguments(state.claims, state.evidences),
                                  state.evidences)
           u == Research!DebateNode(state, bull, bear)
<1>2. /\ DOMAIN u = {"debate_result"}
      /\ u.debate_result.bull = left /\ u.debate_result.bear = right
  BY DEF Research!DebateNode, Research!Arbitrate
<1>3. Research!Cited(left) \cup Research!Cited(right)
        \subseteq state.evidences \cup UNION {c.cites : c \in state.claims}
  <2>1. Research!Cited(left) \subseteq state.evidences \cup UNION {c.cites : c \in state.claims}
    BY SidesCite
  <2>2. Research!Cited(right) \subseteq state.evidences \cup UNION {c.cites : c \in state.claims}
    BY SidesCite
  <2> HIDE DEF left, right
  <2> QED BY <2>1, <2>2
<1> HIDE DEF left, right, u
<1>4. /\ at = "debate" /\ at' = "verification" /\ DOMAIN state' = Keys /\ entry' = entry
      /\ state'.debate_result = u.debate_result
      /\ UNCHANGED <<state.verification_result, state.policy_status, state.evidences,
           state.financial_data, state.calculations, state.error_code, state.claims,
           state.warnings, state.final_answer, state.confidence>>
  <2>1. DOMAIN state = Keys
    BY DEF ResearchInv, ResearchTypes
  <2>2. Research!Return("debate", u) /\ UNCHANGED entry
    BY <1>1 DEF u, Research!Debating
  <2> QED BY <2>1, <2>2, <1>2, ResearchReturns, ResearchEdges DEF Keys
<1>5. ResearchTypes' /\ ResearchProgress' /\ ResearchTraces'
  BY <1>4 DEF ResearchInv, ResearchTypes, ResearchProgress, ResearchTraces,
    Undecided, Unverified, Asking, Finding, Selected, Codes
<1>6. ResearchBasis' /\ ResearchEnds'
  BY <1>2, <1>3, <1>4 DEF ResearchInv, ResearchBasis, ResearchProgress, ResearchEnds, Grounded, Selected,
    Undecided, Unverified, Finding
<1> QED BY <1>4, <1>5, <1>6, ResearchUnseen DEF ResearchInv, Kept

\* What the verdicts say.
LEMMA VerdictSays ==
  \A s :
    /\ VerifyState(s) \in Verdicts
    /\ VerifyState(s) # "FAIL" =>
         /\ s.policy_status # "block"
         /\ \A c \in s.claims : ~Unsound(c, s.evidences, s.calculations)
    /\ VerifyState(s) = "PASS" =>
         ~Unsupported(s.claims, s.evidences, s.calculations)
BY DEF VerifyState, Verify, Verdicts

LEMMA ResearchVerifies ==
  \A s : Research!VerifyState(s) = VerifyState(s)
BY Zenon DEF Research!VerifyState, VerifyState, Research!Verify, Verify, Research!Unsound,
  Unsound, Research!Unsupported, Unsupported, Research!Ids, Ids, Research!NoCalculation,
  NoCalculation, Research!Flag, Flag

\* Claims made from evidences and calculations that pass have those to stand on.
LEMMA PassedClaims ==
  ASSUME NEW s, s.claims = MakeClaims(s.evidences, s.calculations),
         VerifyState(s) = "PASS"
  PROVE  /\ s.evidences # {} \/ s.calculations # {}
         /\ \A c \in s.claims : /\ c.cites \subseteq s.evidences
                                /\ c.cites # {} \/ c.calc \in Ids(s.calculations)
<1>1. /\ \A c \in s.claims : ~Unsound(c, s.evidences, s.calculations)
      /\ ~Unsupported(s.claims, s.evidences, s.calculations)
  BY VerdictSays
<1>2. s.evidences # {} \/ s.calculations # {}
  BY <1>1, ClaimsMade DEF Unsupported
<1>3. ASSUME NEW c \in s.claims
      PROVE  c.cites \subseteq s.evidences /\ (c.cites # {} \/ c.calc \in Ids(s.calculations))
  <2>1. (c.type = "fact" /\ c.cites # {}) \/ c.type = "numeric"
    BY <1>3, ClaimsMade
  <2> QED BY <1>1, <2>1 DEF Unsound
<1> QED BY <1>2, <1>3

LEMMA ResearchVerificationStep ==
  ASSUME ResearchInv, Research!Verification
  PROVE  ResearchInv' /\ Kept /\ ResearchGoverned
<1> USE DEF None
<1> DEFINE v == VerifyState(state)
<1>1. v \in Verdicts
  BY VerdictSays
<1>2. /\ at = "verification" /\ DOMAIN state' = Keys /\ entry' = entry
      /\ state'.verification_result = v
      /\ state'.error_code = IF v = "FAIL" THEN "FIN-4101" ELSE state.error_code
      /\ UNCHANGED <<state.policy_status, state.evidences, state.warnings,
           state.financial_data, state.calculations, state.claims,
           state.debate_result, state.final_answer, state.confidence>>
  <2>1. DOMAIN state = Keys
    BY DEF ResearchInv, ResearchTypes
  <2> DEFINE u == Research!VerificationNode(state)
  <2>2. /\ DOMAIN u = {"verification_result", "error_code"}
        /\ u.verification_result = v
        /\ u.error_code = IF v = "FAIL" THEN "FIN-4101" ELSE state.error_code
    BY ResearchVerifies DEF Research!VerificationNode
  <2>3. state' = Merge(state, u) /\ entry' = entry /\ at = "verification"
    BY ResearchShares DEF Research!Verification
  <2> HIDE DEF u, v
  <2> QED BY <2>1, <2>2, <2>3, MergeApply DEF Keys
<1>3. IF state'.error_code = None /\ state'.verification_result = "PASS"
      THEN at' = "answer" ELSE at' = "abstain"
  BY DEF Research!Verification, Research!AfterVerification, Research!None
<1>4. state.claims = MakeClaims(state.evidences, state.calculations)
  BY <1>2 DEF ResearchInv, ResearchBasis, Selected
<1>5. v = "PASS" =>
        /\ state.evidences # {} \/ state.calculations # {}
        /\ \A c \in state.claims : /\ c.cites \subseteq state.evidences
                                   /\ c.cites # {} \/ c.calc \in Ids(state.calculations)
  BY <1>4, PassedClaims
<1> HIDE DEF v
<1>6. ResearchTypes' /\ ResearchProgress' /\ ResearchTraces' /\ ResearchBasis'
  BY <1>1, <1>2, <1>3 DEF ResearchInv, ResearchTypes, ResearchProgress, ResearchTraces,
    ResearchBasis, Undecided, Unverified, Asking, Finding, Selected, Codes
<1>7. at' = "answer" => Grounded'
  <2> SUFFICES ASSUME at' = "answer" PROVE Grounded'
    OBVIOUS
  <2>1. v = "PASS" /\ state'.error_code = None /\ state.error_code = None
    BY <1>2, <1>3
  <2>2. state.policy_status = "allow" /\ Cardinality(state.evidences) <= MaxEvidence
    BY <1>2, <2>1 DEF ResearchInv, ResearchTraces, ResearchBasis, Undecided, Unverified, Asking, Selected
  <2>3. Research!Cited(state.debate_result.bull) \cup Research!Cited(state.debate_result.bear)
          \subseteq state.evidences
    BY <1>2, <1>5, <2>1 DEF ResearchInv, ResearchBasis
  <2> QED BY <1>2, <1>5, <2>1, <2>2, <2>3 DEF Grounded
<1>8. state.final_answer = None /\ state.verification_result = None
  BY <1>2 DEF ResearchInv, ResearchProgress, Undecided, Unverified, Selected
<1>9. ResearchEnds'
  BY <1>2, <1>3, <1>7, <1>8 DEF ResearchEnds
<1>10. ResearchGoverned
  BY <1>1, <1>2, <1>8 DEF ResearchGoverned, Research!Abstract!Next, Research!Abstract!Check,
    Research!None, Research!Verdicts, Verdicts, Research!Codes
<1>11. Kept
  BY <1>2 DEF Kept
<1> QED BY <1>6, <1>9, <1>10, <1>11 DEF ResearchInv

LEMMA ResearchAbstainStep ==
  ASSUME ResearchInv, Research!Abstain
  PROVE  ResearchInv' /\ Kept /\ ResearchGoverned
<1> USE DEF None
<1>1. /\ at = "abstain" /\ at' = "audit" /\ DOMAIN state' = Keys /\ entry' = entry
      /\ state'.final_answer = "abstention" /\ state'.confidence = 0
      /\ state.warnings \subseteq state'.warnings
      /\ UNCHANGED <<state.verification_result, state.policy_status, state.evidences,
           state.financial_data, state.calculations, state.error_code, state.claims,
           state.debate_result>>
  <2>1. DOMAIN state = Keys
    BY DEF ResearchInv, ResearchTypes
  <2> QED BY <2>1, ResearchReturns, ResearchEdges DEF Keys, Research!Abstain, Research!AbstentionNode
<1>2. ResearchTypes' /\ ResearchProgress' /\ ResearchTraces'
  BY <1>1 DEF ResearchInv, ResearchTypes, ResearchProgress, ResearchTraces,
    Undecided, Unverified, Asking, Finding, Selected
<1>3. ResearchBasis' /\ ResearchEnds'
  BY <1>1 DEF ResearchInv, ResearchBasis, ResearchProgress, ResearchEnds, Selected
<1>4. ResearchGoverned
  BY <1>1 DEF ResearchInv, ResearchProgress, ResearchEnds, Undecided, ResearchGoverned,
    Research!Abstract!Next, Research!Abstract!Abstain, Research!None
<1> QED BY <1>1, <1>2, <1>3, <1>4 DEF ResearchInv, Kept

\* The entry is written, and the run ends or fails; it fails elsewhere.
LEMMA ResearchLastStep ==
  ASSUME ResearchInv, Research!Audit \/ Research!Raise
  PROVE  ResearchInv' /\ Kept /\ ResearchGoverned
<1> USE DEF None
<1>1. /\ at' \in {"end", "raised"}
      /\ state' = state
      /\ entry' # entry => at = "audit" /\ entry' \in Research!AuditResults(state)
  BY DEF Research!Audit, Research!Raise
<1>2. /\ ResearchTypes' /\ ResearchProgress' /\ ResearchTraces' /\ ResearchBasis'
      /\ ResearchEnds'
  <2>1. at' \notin Undecided \cup Selected \cup Unverified /\ at' \notin {"audit", "answer", "abstain", "verification"}
    BY <1>1 DEF Undecided, Unverified, Asking, Finding, Selected
  <2>2. /\ DOMAIN state' = DOMAIN state
        /\ UNCHANGED <<state.verification_result, state.policy_status, state.evidences,
             state.financial_data, state.calculations, state.error_code, state.claims,
             state.debate_result, state.confidence, state.final_answer, state.warnings>>
    BY <1>1
  <2>3. ResearchTypes' /\ ResearchProgress'
    BY <1>1, <2>1, <2>2 DEF ResearchInv, ResearchTypes, ResearchProgress
  <2>4. ResearchTraces' /\ ResearchBasis'
    BY <2>1, <2>2 DEF ResearchInv, ResearchTraces, ResearchBasis
  <2>5. ResearchEnds'
    BY <2>1, <2>2 DEF ResearchInv, ResearchEnds, Grounded
  <2> QED BY <2>3, <2>4, <2>5
<1>3. ResearchGoverned
  <2>1. CASE entry' = entry
    BY <1>1, <2>1, ResearchUnseen
  <2>2. CASE entry' # entry
    BY <1>1, <2>2 DEF ResearchInv, ResearchProgress, ResearchGoverned, Research!Abstract!Next,
      Research!Abstract!Audit, Research!None, Research!AuditResults, Research!AuditStatus
  <2> QED BY <2>1, <2>2
<1> QED BY <1>1, <1>2, <1>3 DEF ResearchInv, Kept

LEMMA ResearchStep ==
  ASSUME ResearchInv, Research!Next
  PROVE  ResearchInv' /\ Kept /\ ResearchGoverned
<1>1. CASE Research!Done
  <2>1. UNCHANGED <<at, state, entry>>
    BY <1>1 DEF Research!Done, Research!vars
  <2>2. ResearchTypes' /\ ResearchProgress' /\ ResearchTraces' /\ ResearchBasis' /\ ResearchEnds'
    BY <2>1 DEF ResearchInv, ResearchTypes, ResearchProgress, ResearchTraces, ResearchBasis,
      ResearchEnds, Grounded
  <2> QED BY <2>1, <2>2, ResearchUnseen DEF ResearchInv, Kept
<1> QED
  BY <1>1, ResearchAskingStep, ResearchPolicyStep, ResearchRouteStep, ResearchWaitingStep,
    ResearchCalculationStep, ResearchSelectionStep, ResearchClaimStep, ResearchDebateStep,
    ResearchVerificationStep, ResearchAnswerStep, ResearchAbstainStep, ResearchLastStep
  DEF Research!Next

LEMMA ResearchStart ==
  ASSUME Research!Init
  PROVE  ResearchInv /\ Research!Abstract!Init
<1> USE DEF None, Research!None
<1>1. /\ at = "parse_query" /\ entry = None /\ DOMAIN state = Keys
      /\ state.error_code = None /\ state.verification_result = None
      /\ state.final_answer = None /\ state.policy_status = None
      /\ state.evidences = {} /\ state.calculations = {} /\ state.claims = {}
      /\ state.financial_data = <<>>
  BY DEF Research!Init, Keys
<1>2. ResearchTypes
  BY <1>1, FS_EmptySet DEF ResearchTypes, Undecided, Unverified, Asking
<1>3. ResearchProgress /\ ResearchTraces /\ ResearchBasis /\ ResearchEnds
  BY <1>1, NoFigures DEF ResearchProgress, ResearchTraces, ResearchBasis, ResearchEnds,
    Undecided, Unverified, Asking, Selected
<1> QED BY <1>1, <1>2, <1>3 DEF ResearchInv, Research!Abstract!Init

-----------------------------------------------------------------------------
(* The health graph: its steps *)

LEMMA HealthShares ==
  /\ \A S : Health!Cardinality(S) = Cardinality(S)
  /\ \A s, u : Health!Merge(s, u) = Merge(s, u)
  /\ \A s, u : Health!PolicyNode(s, u) = PolicyNode(s, u)
  /\ \A m, e : Health!Assess(m, e) = Assess(m, e)
  /\ \A m : Health!DetectMetricConflicts(m) = DetectMetricConflicts(m)
  /\ \A s, f : Health!FinancialNode(s, f) = FinancialNode(s, f)
  /\ \A m, e, v : Health!Calculate(m, e, v) = Calculate(m, e, v)
  /\ \A e, c : Health!MakeClaims(e, c) = MakeClaims(e, c)
  /\ \A s : Health!VerifyState(s) = VerifyState(s)
<1>1. \A S : Health!Cardinality(S) = Cardinality(S)
  BY Zenon DEF Health!Cardinality, Cardinality, Health!IsFiniteSet, IsFiniteSet
<1>2. \A s, u : Health!Merge(s, u) = Merge(s, u)
  BY Zenon DEF Health!Merge, Merge
<1>3. \A s, u : Health!PolicyNode(s, u) = PolicyNode(s, u)
  BY Zenon DEF Health!PolicyNode, PolicyNode
<1>4. \A m, e : Health!Assess(m, e) = Assess(m, e)
  BY Zenon DEF Health!Assess, Assess, Health!None, None
<1>5. \A m : Health!DetectMetricConflicts(m) = DetectMetricConflicts(m)
  BY Zenon DEF Health!DetectMetricConflicts, DetectMetricConflicts, Health!Listed, Listed,
    Health!Group, Group, Health!Compare, Compare, Health!Complete, Complete,
    Health!ComparisonKey, ComparisonKey, Health!Agree, Agree, Health!Distance,
    Distance, Health!Normal, Normal, Health!MarketAliases, MarketAliases,
    Health!MetricAliases, MetricAliases, Health!CurrencyAliases, CurrencyAliases,
    Health!UnitAliases, UnitAliases
<1>6. \A s, f : Health!FinancialNode(s, f) = FinancialNode(s, f)
  BY Zenon, <1>5 DEF Health!FinancialNode, FinancialNode
<1>7. \A m, e, v : Health!Calculate(m, e, v) = Calculate(m, e, v)
  BY ZenonT(60) DEF Health!Calculate, Calculate, Health!NetMargins, NetMargins,
    Health!Projections, Projections, Health!Supporting, Supporting,
    Health!MarginRows, MarginRows, Health!Rows, Rows, Health!Cell, Cell,
    Health!LastOf, LastOf, Health!HasRatio, HasRatio, Health!GrowingMetrics,
    GrowingMetrics, Health!Series, Series, Health!Newest, Newest,
    Health!CanProject, CanProject, Health!ToSet, ToSet
<1>8. \A e, c : Health!MakeClaims(e, c) = MakeClaims(e, c)
  BY Zenon DEF Health!MakeClaims, MakeClaims, Health!NoCalculation, NoCalculation
<1>9. \A s : Health!VerifyState(s) = VerifyState(s)
  BY Zenon DEF Health!VerifyState, VerifyState, Health!Verify, Verify, Health!Unsound,
    Unsound, Health!Unsupported, Unsupported, Health!Ids, Ids, Health!NoCalculation,
    NoCalculation, Health!Flag, Flag
<1> QED BY <1>1, <1>2, <1>3, <1>4, <1>5, <1>6, <1>7, <1>8, <1>9

LEMMA HealthReturns ==
  ASSUME DOMAIN state = HealthKeys, NEW n, NEW u, Health!Return(n, u)
  PROVE  /\ at = n /\ at' = Health!EdgeFrom[n] /\ entry' = entry
         /\ DOMAIN state' = HealthKeys
         /\ \A k \in HealthKeys : state'[k] = IF k \in DOMAIN u THEN u[k] ELSE state[k]
BY MergeApply, HealthShares DEF Health!Return

LEMMA HealthEdges ==
  /\ Health!EdgeFrom["parse_query"] = "entity"
  /\ Health!EdgeFrom["entity"] = "policy"
  /\ Health!EdgeFrom["financial_data"] = "financial_rule_engine"
  /\ Health!EdgeFrom["financial_rule_engine"] = "financial_calculation"
  /\ Health!EdgeFrom["financial_calculation"] = "narrative_analysis"
  /\ Health!EdgeFrom["narrative_analysis"] = "cross_check"
  /\ Health!EdgeFrom["cross_check"] = "claim_generation"
  /\ Health!EdgeFrom["claim_generation"] = "verification"
  /\ Health!EdgeFrom["report"] = "audit"
  /\ Health!EdgeFrom["abstain"] = "audit"
BY DEF Health!EdgeFrom

HealthGoverned == [Health!Abstract!Next]_(Health!Abstract!vars)

LEMMA HealthUnseen ==
  ASSUME UNCHANGED <<state.error_code, state.verification_result,
                     state.final_answer, entry>>
  PROVE  HealthGoverned
BY DEF HealthGoverned, Health!Abstract!vars

LEMMA HealthFails ==
  ASSUME state.final_answer = None,
         state'.error_code \in Codes \cup {state.error_code},
         UNCHANGED <<state.verification_result, state.final_answer, entry>>
  PROVE  HealthGoverned
<1>1. CASE state'.error_code = state.error_code
  BY <1>1, HealthUnseen
<1>2. CASE state'.error_code \in Codes
  BY <1>2 DEF HealthGoverned, Health!Abstract!Next, Health!Abstract!Fail,
    Health!None, None, Health!Codes, Codes
<1> QED BY <1>1, <1>2

\* Nodes whose output the invariant does not speak of.
LEMMA HealthPassStep ==
  ASSUME HealthInv, Health!Pass \/ Health!Entity
  PROVE  HealthInv' /\ Kept /\ HealthGoverned
<1> USE DEF None
<1>1. /\ UNCHANGED <<state.error_code, state.verification_result, state.evidences,
           state.financial_data, state.calculations, state.claims, state.warnings,
           state.policy_status, state.final_answer, state.valuation,
           state.cross_check_status, state.confidence, entry>>
      /\ DOMAIN state' = HealthKeys
      /\ \/ at \in {"parse_query", "entity"} /\ at' \in {"entity", "policy"}
         \/ at = "narrative_analysis" /\ at' = "cross_check"
  <2>1. DOMAIN state = HealthKeys
    BY DEF HealthInv, HealthTypes
  <2>2. CASE Health!Pass
    BY <2>1, <2>2, HealthReturns, HealthEdges DEF Health!Pass, HealthKeys
  <2>3. CASE Health!Entity
    <3>1. PICK kind : Health!Return("entity", [entities |-> kind])
      BY <2>3 DEF Health!Entity
    <3> QED BY <2>1, <3>1, HealthReturns, HealthEdges DEF HealthKeys
  <2> QED BY <2>2, <2>3
<1>2. HealthTypes' /\ HealthProgress'
  BY <1>1 DEF HealthInv, HealthTypes, HealthProgress, Unchecked, Fetched, Computed
<1>3. HealthBasis' /\ HealthEnds'
  BY <1>1 DEF HealthInv, HealthBasis, HealthEnds, Derived, Fetched, Computed
<1> QED BY <1>1, <1>2, <1>3, HealthUnseen DEF HealthInv, Kept

LEMMA HealthPolicyStep ==
  ASSUME HealthInv, Health!Policy
  PROVE  HealthInv' /\ Kept /\ HealthGoverned
<1> USE DEF None
<1>1. PICK matches : state' = Merge(state, PolicyNode(state, Assess(matches, state.entities)))
  BY HealthShares DEF Health!Policy
<1> DEFINE verdict == Assess(matches, state.entities)
<1>2. /\ verdict.status \in {"allow", "block"}
      /\ state' = Merge(state, PolicyNode(state, verdict))
  BY <1>1 DEF Assess
<1>3. /\ at = "policy" /\ entry' = entry
      /\ IF state'.policy_status = "block" \/ state'.error_code # None
         THEN at' = "abstain" ELSE at' = "financial_data"
  BY DEF Health!Policy, Health!PolicyGate, Health!None
<1> HIDE DEF verdict
<1>4. /\ DOMAIN state' = HealthKeys
      /\ state'.policy_status = verdict.status
      /\ state.warnings \subseteq state'.warnings
      /\ state'.error_code = IF verdict.status = "block" THEN "FIN-4001" ELSE state.error_code
      /\ UNCHANGED <<state.verification_result, state.evidences,
           state.financial_data, state.calculations, state.claims, state.valuation,
           state.cross_check_status, state.final_answer, state.confidence>>
  <2>1. DOMAIN state = HealthKeys
    BY DEF HealthInv, HealthTypes
  <2> QED BY <2>1, <1>2, MergeApply DEF HealthKeys, PolicyNode
<1>5. HealthTypes' /\ HealthProgress'
  BY <1>2, <1>3, <1>4 DEF HealthInv, HealthTypes, HealthProgress, Unchecked, Fetched, Computed, Codes
<1>6. HealthBasis' /\ HealthEnds'
  BY <1>2, <1>3, <1>4 DEF HealthInv, HealthBasis, HealthEnds, Derived, Fetched, Computed,
    HealthProgress, Unchecked
<1>7. HealthGoverned
  BY <1>3, <1>4, HealthFails DEF Codes, HealthInv, HealthProgress, Unchecked
<1> QED BY <1>4, <1>5, <1>6, <1>7 DEF HealthInv, Kept

LEMMA HealthDataStep ==
  ASSUME HealthInv, Health!FinancialData
  PROVE  HealthInv' /\ Kept /\ HealthGoverned
<1> USE DEF None
<1>1. DOMAIN state = HealthKeys
  BY DEF HealthInv, HealthTypes
<1>2. /\ at = "financial_data" /\ at' = "financial_rule_engine" /\ entry' = entry
      /\ DOMAIN state' = HealthKeys
      /\ UNCHANGED <<state.verification_result, state.evidences,
           state.calculations, state.claims, state.valuation, state.policy_status,
           state.cross_check_status, state.final_answer, state.confidence>>
      /\ state.warnings \subseteq state'.warnings
      /\ \/ /\ state'.error_code = state.error_code
            /\ DetectMetricConflicts(state'.financial_data) # {} =>
                 "provider_data_conflict" \in state'.warnings
         \/ state'.error_code \in Codes /\ state'.financial_data = state.financial_data
  <2>1. CASE \E figures : Health!Return("financial_data", FinancialNode(state, figures))
    <3>1. PICK figures : Health!Return("financial_data", FinancialNode(state, figures))
      BY <2>1
    <3>2. CASE DetectMetricConflicts(figures) = {}
      BY <1>1, <3>1, <3>2, HealthReturns, HealthEdges DEF HealthKeys, FinancialNode
    <3>3. CASE DetectMetricConflicts(figures) # {}
      BY <1>1, <3>1, <3>3, HealthReturns, HealthEdges DEF HealthKeys, FinancialNode
    <3> QED BY <3>2, <3>3
  <2>2. CASE \E c \in Codes : Health!Return("financial_data", [error_code |-> c])
    <3>1. PICK c \in Codes : Health!Return("financial_data", [error_code |-> c])
      BY <2>2
    <3> QED BY <1>1, <3>1, HealthReturns, HealthEdges DEF HealthKeys
  <2> QED BY <2>1, <2>2, HealthShares DEF Health!FinancialData, Codes
<1>3. HealthTypes' /\ HealthProgress'
  BY <1>2, NoFigures DEF HealthInv, HealthTypes, HealthProgress, Unchecked, Fetched, Computed
<1>4. HealthBasis' /\ HealthEnds'
  BY <1>2 DEF HealthInv, HealthBasis, HealthEnds, Derived, Fetched, Computed,
    HealthProgress, Unchecked
<1>5. HealthGoverned
  BY <1>2, HealthFails DEF HealthInv, HealthProgress, Unchecked
<1> QED BY <1>2, <1>3, <1>4, <1>5 DEF HealthInv, Kept, Codes

LEMMA HealthRulesStep ==
  ASSUME HealthInv, Health!RuleEngine
  PROVE  HealthInv' /\ Kept /\ HealthGoverned
<1> USE DEF None
<1>1. /\ at = "financial_rule_engine" /\ at' = "financial_calculation"
      /\ DOMAIN state' = HealthKeys
      /\ UNCHANGED <<state.error_code, state.verification_result, state.evidences,
           state.financial_data, state.calculations, state.claims, state.warnings,
           state.policy_status, state.final_answer, state.valuation,
           state.cross_check_status, state.confidence, entry>>
  <2>1. DOMAIN state = HealthKeys
    BY DEF HealthInv, HealthTypes
  <2> QED BY <2>1, HealthReturns, HealthEdges DEF Health!RuleEngine, HealthKeys
<1>2. HealthTypes' /\ HealthProgress'
  BY <1>1 DEF HealthInv, HealthTypes, HealthProgress, Unchecked, Fetched, Computed
<1>3. HealthBasis' /\ HealthEnds'
  BY <1>1 DEF HealthInv, HealthBasis, HealthEnds, Derived, Fetched, Computed
<1> QED BY <1>1, <1>2, <1>3, HealthUnseen DEF HealthInv, Kept

\* Without figures nothing is computed, so an error leaves no calculation.
LEMMA HealthCalculationStep ==
  ASSUME HealthInv, Health!Calculation
  PROVE  HealthInv' /\ Kept /\ HealthGoverned
<1> USE DEF None
<1>1. /\ at = "financial_calculation" /\ at' = "narrative_analysis"
      /\ DOMAIN state' = HealthKeys
      /\ UNCHANGED <<state.verification_result, state.evidences,
           state.financial_data, state.claims, state.policy_status, state.final_answer,
           state.valuation, state.cross_check_status, state.confidence, entry>>
      /\ state.warnings \subseteq state'.warnings
      /\ \/ state'.calculations = {} /\ state'.error_code = "FIN-3101"
         \/ /\ state'.calculations =
                 Calculate(state.financial_data, state.evidences, state.valuation)
            /\ state'.error_code = state.error_code
  <2>1. DOMAIN state = HealthKeys
    BY DEF HealthInv, HealthTypes
  <2>2. CASE Health!Return("financial_calculation", Health!CalculationFailure)
    <3> DEFINE u == Health!CalculationFailure
    <3>1. /\ DOMAIN u = {"calculations", "error_code"} /\ u.calculations = {} /\ u.error_code = "FIN-3101"
          /\ Health!Return("financial_calculation", u)
      BY <2>2 DEF Health!CalculationFailure
    <3> HIDE DEF u
    <3> QED BY <2>1, <3>1, HealthReturns, HealthEdges DEF HealthKeys
  <2>3. CASE Health!Return("financial_calculation", Health!CalculationNode(state))
    <3> DEFINE u == Health!CalculationNode(state)
    <3>1. /\ DOMAIN u = {"calculations", "warnings"} /\ state.warnings \subseteq u.warnings
          /\ u.calculations = Calculate(state.financial_data, state.evidences, state.valuation)
          /\ Health!Return("financial_calculation", u)
      BY <2>3, HealthShares DEF Health!CalculationNode
    <3> HIDE DEF u
    <3> QED BY <2>1, <3>1, HealthReturns, HealthEdges DEF HealthKeys
  <2> QED BY <2>2, <2>3 DEF Health!Calculation
<1>2. HealthTypes' /\ HealthProgress'
  BY <1>1 DEF HealthInv, HealthTypes, HealthProgress, Unchecked, Fetched, Computed, Codes
<1>3. /\ state'.error_code # None => state'.calculations = {}
      /\ state'.calculations # {} =>
           state'.calculations = Calculate(state.financial_data, {}, state.valuation)
  BY <1>1, NoFigures DEF HealthInv, HealthTypes, HealthBasis, Fetched
<1>4. HealthBasis' /\ HealthEnds'
  BY <1>1, <1>3 DEF HealthInv, HealthBasis, HealthEnds, Derived, Fetched, Computed,
    HealthProgress, Unchecked
<1>5. HealthGoverned
  BY <1>1, HealthFails DEF HealthInv, HealthProgress, Unchecked, Codes
<1> QED BY <1>1, <1>2, <1>4, <1>5 DEF HealthInv, Kept

LEMMA HealthCrossCheckStep ==
  ASSUME HealthInv, Health!CrossCheck
  PROVE  HealthInv' /\ Kept /\ HealthGoverned
<1> USE DEF None
<1>1. /\ at = "cross_check" /\ at' = "claim_generation"
      /\ DOMAIN state' = HealthKeys
      /\ UNCHANGED <<state.verification_result, state.evidences, state.warnings,
           state.financial_data, state.claims, state.policy_status, state.final_answer,
           state.valuation, state.calculations, state.confidence, entry>>
      /\ \/ state'.cross_check_status = "conflict" /\ state'.error_code = "FIN-2101"
            /\ state.calculations = {}
         \/ state'.cross_check_status = "ok" /\ state'.error_code = state.error_code
  <2>1. DOMAIN state = HealthKeys
    BY DEF HealthInv, HealthTypes
  <2> QED BY <2>1, HealthReturns, HealthEdges DEF Health!CrossCheck, HealthKeys
<1>2. HealthTypes' /\ HealthProgress'
  BY <1>1 DEF HealthInv, HealthTypes, HealthProgress, Unchecked, Fetched, Computed, Codes
<1>3. HealthBasis' /\ HealthEnds'
  BY <1>1 DEF HealthInv, HealthBasis, HealthEnds, Derived, Fetched, Computed,
    HealthProgress, Unchecked
<1>4. HealthGoverned
  BY <1>1, HealthFails DEF HealthInv, HealthProgress, Unchecked, Codes
<1> QED BY <1>1, <1>2, <1>3, <1>4 DEF HealthInv, Kept

LEMMA HealthClaimStep ==
  ASSUME HealthInv, Health!Claim
  PROVE  HealthInv' /\ Kept /\ HealthGoverned
<1> USE DEF None
<1>1. /\ at = "claim_generation" /\ at' = "verification"
      /\ DOMAIN state' = HealthKeys
      /\ state'.claims = MakeClaims(state.evidences, state.calculations)
      /\ state.warnings \subseteq state'.warnings
      /\ UNCHANGED <<state.verification_result, state.evidences, state.error_code,
           state.financial_data, state.policy_status, state.final_answer,
           state.valuation, state.calculations, state.cross_check_status,
           state.confidence, entry>>
  <2>1. DOMAIN state = HealthKeys
    BY DEF HealthInv, HealthTypes
  <2>2. PICK llm : Health!Return("claim_generation", Health!ClaimNode(state, llm))
    BY DEF Health!Claim
  <2> DEFINE u == Health!ClaimNode(state, llm)
  <2>3. /\ DOMAIN u = {"claims", "warnings"} /\ state.warnings \subseteq u.warnings
        /\ u.claims = MakeClaims(state.evidences, state.calculations)
        /\ Health!Return("claim_generation", u)
    BY <2>2, HealthShares DEF Health!ClaimNode, Health!ClaimWarnings
  <2> HIDE DEF u
  <2> QED BY <2>1, <2>3, HealthReturns, HealthEdges DEF HealthKeys
<1>2. HealthTypes' /\ HealthProgress'
  BY <1>1 DEF HealthInv, HealthTypes, HealthProgress, Unchecked, Fetched, Computed
<1>3. HealthBasis' /\ HealthEnds'
  BY <1>1 DEF HealthInv, HealthTypes, HealthBasis, HealthEnds, Derived, Fetched, Computed,
    HealthProgress, Unchecked
<1> QED BY <1>1, <1>2, <1>3, HealthUnseen DEF HealthInv, Kept

\* A run with an error has no calculations, so no claims, and abstains.
LEMMA HealthVerificationStep ==
  ASSUME HealthInv, Health!Verification
  PROVE  HealthInv' /\ Kept /\ HealthGoverned
<1> USE DEF None
<1> DEFINE v == VerifyState(state)
<1>1. v \in Verdicts
  BY VerdictSays
<1>2. /\ at = "verification" /\ DOMAIN state' = HealthKeys /\ entry' = entry
      /\ state'.verification_result = v
      /\ state'.error_code = IF v = "FAIL" THEN "FIN-4101" ELSE state.error_code
      /\ UNCHANGED <<state.policy_status, state.evidences, state.warnings,
           state.financial_data, state.calculations, state.claims, state.valuation,
           state.cross_check_status, state.final_answer, state.confidence>>
  <2>1. DOMAIN state = HealthKeys
    BY DEF HealthInv, HealthTypes
  <2> DEFINE u == Health!VerificationNode(state)
  <2>2. /\ DOMAIN u = {"verification_result", "error_code"}
        /\ u.verification_result = v
        /\ u.error_code = IF v = "FAIL" THEN "FIN-4101" ELSE state.error_code
    BY HealthShares DEF Health!VerificationNode
  <2>3. state' = Merge(state, u) /\ entry' = entry /\ at = "verification"
    BY HealthShares DEF Health!Verification
  <2> HIDE DEF u, v
  <2> QED BY <2>1, <2>2, <2>3, MergeApply DEF HealthKeys
<1>3. IF state'.verification_result = "PASS" /\ state'.cross_check_status # "conflict"
      THEN at' = "report" ELSE at' = "abstain"
  BY DEF Health!Verification, Health!AfterVerify
<1>4. state.evidences = {} /\ state.claims = MakeClaims(state.evidences, state.calculations)
  BY <1>2 DEF HealthInv, HealthTypes, HealthBasis
<1>5. v = "PASS" => state.calculations # {}
  BY <1>4, PassedClaims
<1> HIDE DEF v
<1>6. /\ state.error_code # None => state.calculations = {}
      /\ state.cross_check_status = "conflict" => state.calculations = {}
      /\ state.final_answer = None /\ state.verification_result = None
  BY <1>2 DEF HealthInv, HealthBasis, HealthProgress, Computed, Unchecked
<1>7. HealthTypes' /\ HealthProgress'
  BY <1>2, <1>3 DEF HealthInv, HealthTypes, HealthProgress, Unchecked, Fetched, Computed, Codes
<1>8. at' = "report" => Derived' /\ state'.verification_result = "PASS"
  BY <1>2, <1>3, <1>5, <1>6 DEF HealthInv, HealthBasis, HealthProgress, Computed, Derived
<1>9. HealthBasis' /\ HealthEnds'
  BY <1>2, <1>3, <1>5, <1>6, <1>8 DEF HealthBasis, HealthEnds, Fetched, Computed, Derived
<1>10. HealthGoverned
  BY <1>1, <1>2, <1>6 DEF HealthGoverned, Health!Abstract!Next, Health!Abstract!Check,
    Health!None, Health!Verdicts, Verdicts, Health!Codes
<1>11. Kept
  BY <1>2 DEF Kept
<1> QED BY <1>7, <1>9, <1>10, <1>11 DEF HealthInv

LEMMA HealthReportStep ==
  ASSUME HealthInv, Health!Report
  PROVE  HealthInv' /\ Kept /\ HealthGoverned
<1> USE DEF None
<1>1. /\ at = "report" /\ at' = "audit" /\ DOMAIN state' = HealthKeys
      /\ state'.final_answer = "answer"
      /\ UNCHANGED <<state.verification_result, state.evidences, state.error_code,
           state.financial_data, state.policy_status, state.claims, state.warnings,
           state.valuation, state.calculations, state.cross_check_status, entry>>
  <2>1. DOMAIN state = HealthKeys
    BY DEF HealthInv, HealthTypes
  <2> QED BY <2>1, HealthReturns, HealthEdges DEF Health!Report, HealthKeys
<1>2. HealthTypes' /\ HealthProgress'
  BY <1>1 DEF HealthInv, HealthTypes, HealthProgress, Unchecked, Fetched, Computed
<1>3. HealthBasis' /\ HealthEnds'
  BY <1>1 DEF HealthInv, HealthBasis, HealthEnds, Derived, Fetched, Computed
<1>4. HealthGoverned
  BY <1>1 DEF HealthInv, HealthProgress, HealthEnds, Derived, HealthGoverned,
    Health!Abstract!Next, Health!Abstract!Answer, Health!None
<1> QED BY <1>1, <1>2, <1>3, <1>4 DEF HealthInv, Kept

LEMMA HealthAbstainStep ==
  ASSUME HealthInv, Health!Abstain
  PROVE  HealthInv' /\ Kept /\ HealthGoverned
<1> USE DEF None
<1>1. /\ at = "abstain" /\ at' = "audit" /\ DOMAIN state' = HealthKeys
      /\ state'.final_answer = "abstention"
      /\ state.warnings \subseteq state'.warnings
      /\ UNCHANGED <<state.verification_result, state.evidences, state.error_code,
           state.financial_data, state.policy_status, state.claims,
           state.valuation, state.calculations, state.cross_check_status, entry>>
  <2>1. DOMAIN state = HealthKeys
    BY DEF HealthInv, HealthTypes
  <2> QED BY <2>1, HealthReturns, HealthEdges DEF Health!Abstain, Health!AbstentionNode, HealthKeys
<1>2. HealthTypes' /\ HealthProgress'
  BY <1>1 DEF HealthInv, HealthTypes, HealthProgress, Unchecked, Fetched, Computed
<1>3. HealthBasis' /\ HealthEnds'
  BY <1>1 DEF HealthInv, HealthBasis, HealthEnds, Fetched, Computed
<1>4. HealthGoverned
  BY <1>1 DEF HealthInv, HealthProgress, HealthEnds, HealthGoverned,
    Health!Abstract!Next, Health!Abstract!Abstain, Health!None
<1> QED BY <1>1, <1>2, <1>3, <1>4 DEF HealthInv, Kept

LEMMA HealthLastStep ==
  ASSUME HealthInv, Health!Audit \/ Health!Raise \/ Health!Done
  PROVE  HealthInv' /\ Kept /\ HealthGoverned
<1> USE DEF None
<1>1. /\ at' \in {"end", "raised"}
      /\ state' = state
      /\ entry' # entry => at = "audit" /\ entry' \in Health!AuditResults(state)
  BY DEF Health!Audit, Health!Raise, Health!Done, Health!vars
<1>2. HealthTypes' /\ HealthProgress' /\ HealthBasis' /\ HealthEnds'
  <2>1. at' \notin Unchecked \cup Fetched \cup Computed \cup {"report", "abstain", "audit"}
    BY <1>1 DEF Unchecked, Fetched, Computed
  <2>2. at' \notin {"parse_query", "entity", "policy", "financial_data", "claim_generation", "verification"}
    BY <1>1
  <2>3. HealthTypes' /\ HealthProgress'
    BY <1>1, <2>1, <2>2 DEF HealthInv, HealthTypes, HealthProgress
  <2>4. HealthBasis' /\ HealthEnds'
    BY <1>1, <2>1, <2>2 DEF HealthInv, HealthBasis, HealthEnds, Derived
  <2> QED BY <2>3, <2>4
<1>3. HealthGoverned
  <2>1. CASE entry' = entry
    BY <1>1, <2>1, HealthUnseen
  <2>2. CASE entry' # entry
    BY <1>1, <2>2 DEF HealthInv, HealthProgress, HealthGoverned, Health!Abstract!Next,
      Health!Abstract!Audit, Health!None, Health!AuditResults, Health!AuditStatus
  <2> QED BY <2>1, <2>2
<1> QED BY <1>1, <1>2, <1>3 DEF HealthInv, Kept

LEMMA HealthStep ==
  ASSUME HealthInv, Health!Next
  PROVE  HealthInv' /\ Kept /\ HealthGoverned
BY HealthPassStep, HealthPolicyStep, HealthDataStep, HealthRulesStep, HealthCalculationStep,
  HealthCrossCheckStep, HealthClaimStep, HealthVerificationStep, HealthReportStep,
  HealthAbstainStep, HealthLastStep DEF Health!Next

LEMMA HealthStart ==
  ASSUME Health!Init
  PROVE  HealthInv /\ Health!Abstract!Init
<1> USE DEF None, Health!None
<1>1. /\ at = "parse_query" /\ entry = None /\ DOMAIN state = HealthKeys
      /\ state.error_code = None /\ state.verification_result = None
      /\ state.final_answer = None /\ state.policy_status = None
      /\ state.evidences = {} /\ state.calculations = {} /\ state.claims = {}
      /\ state.financial_data = <<>>
  BY DEF Health!Init, HealthKeys
<1>2. HealthTypes /\ HealthProgress /\ HealthBasis /\ HealthEnds
  BY <1>1, NoFigures DEF HealthTypes, HealthProgress, HealthBasis, HealthEnds,
    Unchecked, Fetched, Computed
<1> QED BY <1>1, <1>2 DEF HealthInv, Health!Abstract!Init

\* A health report is derived from what its run fetched.
LEMMA HealthReported == HealthInv => Health!ReportIsDerived
BY HealthShares DEF HealthInv, HealthProgress, HealthEnds, Derived, Health!ReportIsDerived,
  Health!None, None

-----------------------------------------------------------------------------
(* The due diligence graph: its steps *)

LEMMA DossierShares ==
  /\ \A S : Dossier!Cardinality(S) = Cardinality(S)
  /\ \A s, u : Dossier!Merge(s, u) = Merge(s, u)
  /\ \A s, u : Dossier!PolicyNode(s, u) = PolicyNode(s, u)
  /\ \A m, e : Dossier!Assess(m, e) = Assess(m, e)
  /\ \A s : Dossier!VerifyState(s) = VerifyState(s)
  /\ \A s, v : Dossier!Confidence(s, v) = Confidence(s, v)
  /\ \A c, e, k : Dossier!Unsound(c, e, k) = Unsound(c, e, k)
<1>1. \A S : Dossier!Cardinality(S) = Cardinality(S)
  BY Zenon DEF Dossier!Cardinality, Cardinality, Dossier!IsFiniteSet, IsFiniteSet
<1>2. \A s, u : Dossier!Merge(s, u) = Merge(s, u)
  BY Zenon DEF Dossier!Merge, Merge
<1>3. \A s, u : Dossier!PolicyNode(s, u) = PolicyNode(s, u)
  BY Zenon DEF Dossier!PolicyNode, PolicyNode
<1>4. \A m, e : Dossier!Assess(m, e) = Assess(m, e)
  BY Zenon DEF Dossier!Assess, Assess, Dossier!None, None
<1>5. \A s : Dossier!VerifyState(s) = VerifyState(s)
  BY Zenon DEF Dossier!VerifyState, VerifyState, Dossier!Verify, Verify, Dossier!Unsound,
    Unsound, Dossier!Unsupported, Unsupported, Dossier!Ids, Ids, Dossier!NoCalculation,
    NoCalculation, Dossier!Flag, Flag
<1>6. \A s, v : Dossier!Confidence(s, v) = Confidence(s, v)
  BY ZenonT(60) DEF Dossier!Confidence, Confidence, Dossier!Mean, Mean, Dossier!Total, Total,
    Dossier!Coverage, Coverage, Dossier!Gate, Gate, Dossier!Flag, Flag,
    Dossier!Cardinality, Cardinality, Dossier!IsFiniteSet, IsFiniteSet
<1>7. \A c, e, k : Dossier!Unsound(c, e, k) = Unsound(c, e, k)
  BY Zenon DEF Dossier!Unsound, Unsound, Dossier!Ids, Ids, Dossier!NoCalculation,
    NoCalculation
<1> QED BY <1>1, <1>2, <1>3, <1>4, <1>5, <1>6, <1>7

\* The phases, in which each has its place.
LEMMA PhaseFacts ==
  /\ Writing = 1..8 /\ Len(Dossier!Phases) = 8
  /\ Dossier!Phases \in Seq({Dossier!Phases[i] : i \in 1..8})
  /\ \A i, j \in 1..8 : Dossier!Phases[i] = Dossier!Phases[j] => i = j
  /\ \A i \in 1..8 : Dossier!Phases[i] \notin Released \cup
       {"POLICY", "REPORT", "VERIFICATION", "ABSTAIN", "raised"}
<1>1. /\ Writing = 1..8 /\ Len(Dossier!Phases) = 8
      /\ Dossier!Phases \in Seq({Dossier!Phases[i] : i \in 1..8})
  <2>1. Len(Dossier!Phases) = 8
    BY DEF Dossier!Phases
  <2>2. Dossier!Phases = [j \in 1..8 |-> Dossier!Phases[j]]
    BY DEF Dossier!Phases
  <2>3. Dossier!Phases \in [1..8 -> {Dossier!Phases[i] : i \in 1..8}]
    BY <2>2
  <2>4. Dossier!Phases \in Seq({Dossier!Phases[i] : i \in 1..8})
    BY <2>3, SeqDef
  <2> QED BY <2>1, <2>4 DEF Writing
<1>2. \A i \in 1..8 : i \in {1, 2, 3, 4, 5, 6, 7, 8}
  OBVIOUS
<1>3. \A i, j \in 1..8 : Dossier!Phases[i] = Dossier!Phases[j] => i = j
  BY <1>2 DEF Dossier!Phases
<1>4. \A i \in 1..8 : Dossier!Phases[i] \notin Released \cup
       {"POLICY", "REPORT", "VERIFICATION", "ABSTAIN", "raised"}
  <2>1. \A i \in 1..8 :
          Dossier!Phases[i] \in {"WARMUP", "COMPANY_PROFILE", "BUSINESS_MODEL", "FINANCIALS",
                                "COMPETITION", "RISK", "RED_FLAGS", "FOLLOW_UP"}
    BY <1>2 DEF Dossier!Phases
  <2> QED BY <2>1 DEF Released
<1> QED BY <1>1, <1>3, <1>4

\* What is written of a sequence, and one more.
LEMMA OneMore ==
  ASSUME NEW S, NEW s \in Seq(S), NEW i \in 1..Len(s)
  PROVE  Append(SubSeq(s, 1, i - 1), s[i]) = SubSeq(s, 1, i)
OBVIOUS

LEMMA AllOfIt ==
  ASSUME NEW S, NEW s \in Seq(S)
  PROVE  SubSeq(s, 1, Len(s)) = s /\ SubSeq(s, 1, 0) = <<>>
OBVIOUS

DossierGoverned == [Dossier!Abstract!Next]_(Dossier!Abstract!vars)

LEMMA DossierUnseen ==
  ASSUME UNCHANGED <<state.error_code, state.verification_result,
                     Dossier!Outcome, entry>>
  PROVE  DossierGoverned
BY DEF DossierGoverned, Dossier!Abstract!vars

\* An outcome is what the channel holds once the graph is past its last edge.
LEMMA OutcomeIs ==
  /\ at \in Released => Dossier!Outcome = state.final_answer
  /\ at \notin Released => Dossier!Outcome = None
  /\ at' \in Released => Dossier!Outcome' = state'.final_answer
  /\ at' \notin Released => Dossier!Outcome' = None
BY DEF Dossier!Outcome, Released, Dossier!None, None

LEMMA DossierPolicyStep ==
  ASSUME DossierInv, Dossier!Policy
  PROVE  DossierInv' /\ Kept /\ DossierGoverned
<1> USE DEF None
<1>1. PICK matches : state' = Merge(state, PolicyNode(state, Assess(matches, state.entities)))
  BY DossierShares DEF Dossier!Policy
<1> DEFINE verdict == Assess(matches, state.entities)
<1>2. /\ verdict.status \in {"allow", "block"}
      /\ state' = Merge(state, PolicyNode(state, verdict))
  BY <1>1 DEF Assess
<1>3. /\ at = "POLICY" /\ entry' = entry
      /\ IF state'.policy_status = "block"
         THEN at' = "ABSTAIN" ELSE at' = Dossier!Phases[1]
  BY DEF Dossier!Policy
<1> HIDE DEF verdict
<1>4. /\ DOMAIN state' = DossierKeys
      /\ state'.policy_status = verdict.status
      /\ state.warnings \subseteq state'.warnings
      /\ state'.error_code = IF verdict.status = "block" THEN "FIN-4001" ELSE state.error_code
      /\ UNCHANGED <<state.verification_result, state.evidences, state.calculations,
           state.claims, state.dossier, state.report, state.final_answer, state.confidence>>
  <2>1. DOMAIN state = DossierKeys
    BY DEF DossierInv, DossierTypes
  <2> QED BY <2>1, <1>2, MergeApply DEF DossierKeys, PolicyNode
<1>5. /\ state.error_code = None /\ state.final_answer = None /\ entry = None
      /\ state.verification_result = None /\ state.dossier = <<>>
  BY <1>3 DEF DossierInv, DossierProgress
<1>6. /\ 1 \in 1..8 /\ SubSeq(Dossier!Phases, 1, 1 - 1) = <<>>
      /\ \A i \in 1..8 : Dossier!Phases[i] = Dossier!Phases[1] => i = 1
      /\ \A i \in 1..8 : Dossier!Phases[i] # "ABSTAIN"
      /\ Dossier!Phases[1] \notin Released \cup {"POLICY", "REPORT", "VERIFICATION", "ABSTAIN", "raised"}
  BY PhaseFacts, AllOfIt
<1>7. at' \notin Released
  BY <1>3, <1>6 DEF Released
<1>8. DossierTypes'
  BY <1>3, <1>4, <1>6, PhaseFacts DEF DossierInv, DossierTypes, Codes
<1>9. DossierProgress'
  <2>1. CASE at' = "ABSTAIN"
    <3>1. /\ at' \notin {Dossier!Phases[i] : i \in Writing}
          /\ \A i \in Writing : at' # Dossier!Phases[i]
      BY <1>6, <2>1, PhaseFacts
    <3> QED BY <1>3, <1>5, <2>1, <3>1 DEF DossierProgress
  <2>2. CASE at' = Dossier!Phases[1] /\ verdict.status = "allow"
    <3>1. /\ state'.error_code = None /\ state'.verification_result = None
          /\ state'.final_answer = None /\ state'.dossier = <<>> /\ entry' = None
      BY <1>3, <1>4, <1>5, <2>2
    <3>2. at' \notin {"POLICY", "REPORT", "end", "raised late"}
      BY <1>6, <2>2 DEF Released
    <3>3. \A i \in Writing : at' = Dossier!Phases[i] => i = 1
      BY <1>6, <2>2, PhaseFacts
    <3> QED BY <1>6, <3>1, <3>2, <3>3 DEF DossierProgress
  <2> QED BY <1>2, <1>3, <1>4, <2>1, <2>2
<1>10. DossierEnds'
  BY <1>2, <1>3, <1>4, <1>6, <1>7 DEF DossierEnds
<1>11. DossierGoverned
  <2>1. Dossier!Outcome = None /\ Dossier!Outcome' = None
    BY <1>3, <1>7, OutcomeIs DEF Released
  <2>2. CASE state'.error_code = state.error_code
    BY <1>3, <1>4, <2>1, <2>2, DossierUnseen
  <2>3. CASE state'.error_code = "FIN-4001"
    BY <1>3, <1>4, <2>1, <2>3 DEF DossierGoverned, Dossier!Abstract!Next, Dossier!Abstract!Fail,
      Dossier!None, Dossier!Codes
  <2> QED BY <1>4, <2>2, <2>3
<1> QED BY <1>4, <1>5, <1>8, <1>9, <1>10, <1>11 DEF DossierInv, Kept

LEMMA DossierPhaseStep ==
  ASSUME DossierInv, NEW i \in Writing, Dossier!Phase(i)
  PROVE  DossierInv' /\ Kept /\ DossierGoverned
<1> USE DEF None
<1> DEFINE phases == Dossier!Phases
<1>1. /\ i \in 1..8 /\ at = phases[i] /\ entry' = entry
      /\ at' = IF i = 8 THEN "REPORT" ELSE phases[i + 1]
  BY PhaseFacts DEF Dossier!Phase, Dossier!AfterPhase
<1>2. /\ DOMAIN state' = DossierKeys
      /\ state'.dossier = Append(state.dossier, at)
      /\ UNCHANGED <<state.verification_result, state.evidences, state.calculations,
           state.claims, state.report, state.final_answer, state.confidence,
           state.warnings, state.error_code, state.policy_status>>
  <2>1. DOMAIN state = DossierKeys
    BY DEF DossierInv, DossierTypes
  <2> QED BY <2>1, MergeApply, DossierShares DEF DossierKeys, Dossier!Phase
<1>3. /\ at \in {phases[j] : j \in Writing}
      /\ at \notin Released \cup {"POLICY", "REPORT", "VERIFICATION", "ABSTAIN", "raised"}
  BY <1>1, PhaseFacts
<1>4. /\ state.error_code = None /\ state.final_answer = None /\ entry = None
      /\ state.verification_result = None /\ state.dossier = SubSeq(phases, 1, i - 1)
  BY <1>1, <1>3 DEF DossierInv, DossierProgress, Released
<1>5. state'.dossier = SubSeq(phases, 1, i)
  <2>1. phases \in Seq({phases[j] : j \in 1..8}) /\ i \in 1..Len(phases)
    BY <1>1, PhaseFacts
  <2> HIDE DEF phases
  <2>2. Append(SubSeq(phases, 1, i - 1), phases[i]) = SubSeq(phases, 1, i)
    BY <2>1, OneMore
  <2> QED BY <1>1, <1>2, <1>4, <2>2
<1>6. CASE i = 8
  <2>1. at' = "REPORT"
    BY <1>1, <1>6
  <2>2. state'.dossier = phases
    BY <1>5, <1>6, PhaseFacts, AllOfIt
  <2>3. \A j \in Writing : phases[j] # "REPORT"
    BY PhaseFacts
  <2>4. DossierTypes'
    BY <1>2, <2>1 DEF DossierInv, DossierTypes
  <2>5. DossierProgress'
    BY <1>1, <1>2, <1>4, <2>1, <2>2, <2>3 DEF DossierProgress
  <2>6. DossierEnds'
    BY <2>1 DEF DossierEnds, Released
  <2>7. Dossier!Outcome = None /\ Dossier!Outcome' = None
    BY <1>3, <2>1, OutcomeIs DEF Released
  <2> QED BY <1>1, <1>2, <1>4, <2>4, <2>5, <2>6, <2>7, DossierUnseen DEF DossierInv, Kept
<1>7. CASE i # 8
  <2>1. i + 1 \in 1..8 /\ at' = phases[i + 1] /\ (i + 1) - 1 = i
    BY <1>1, <1>7
  <2>2. /\ at' \in {phases[j] : j \in Writing}
        /\ at' \notin Released \cup {"POLICY", "REPORT", "VERIFICATION", "ABSTAIN", "raised"}
        /\ \A j \in Writing : phases[j] = at' => j = i + 1
    BY <2>1, PhaseFacts
  <2>4. DossierTypes'
    BY <1>2, <2>2 DEF DossierInv, DossierTypes
  <2>5. DossierProgress'
    BY <1>1, <1>2, <1>4, <1>5, <2>1, <2>2 DEF DossierProgress
  <2>6. DossierEnds'
    BY <2>2 DEF DossierEnds
  <2>7. Dossier!Outcome = None /\ Dossier!Outcome' = None
    BY <1>3, <2>2, OutcomeIs
  <2> QED BY <1>1, <1>2, <1>4, <2>4, <2>5, <2>6, <2>7, DossierUnseen DEF DossierInv, Kept
<1> QED BY <1>6, <1>7

\* Names of nodes that are no phases.
LEMMA NoPhase ==
  \A n \in Released \cup {"POLICY", "REPORT", "VERIFICATION", "ABSTAIN", "raised"} :
    n \notin {Dossier!Phases[i] : i \in Writing}
BY PhaseFacts

LEMMA DossierReportStep ==
  ASSUME DossierInv, Dossier!Report
  PROVE  DossierInv' /\ Kept /\ DossierGoverned
<1> USE DEF None
<1> DEFINE v == VerifyState(state)
<1>1. v \in Verdicts
  BY VerdictSays
<1>2. /\ at = "REPORT" /\ at' = "VERIFICATION" /\ entry' = entry
      /\ DOMAIN state' = DossierKeys
      /\ state'.report = state.dossier /\ state'.final_answer = "answer"
      /\ state'.verification_result = v /\ state'.confidence = Confidence(state, v)
      /\ UNCHANGED <<state.evidences, state.calculations, state.claims,
           state.warnings, state.error_code, state.policy_status>>
  <2>1. DOMAIN state = DossierKeys
    BY DEF DossierInv, DossierTypes
  <2> HIDE DEF v
  <2>2. state' = Merge(state, [report |-> state.dossier, final_answer |-> "answer",
                               verification_result |-> v, confidence |-> Confidence(state, v)])
    BY DossierShares DEF Dossier!Report, v
  <2> QED BY <2>1, <2>2, MergeApply DEF DossierKeys, Dossier!Report
<1>3. /\ state.error_code = None /\ state.final_answer = None /\ entry = None
      /\ state.verification_result = None /\ state.dossier = Dossier!Phases
  BY <1>2 DEF DossierInv, DossierProgress
<1>4. VerifyState(state') = v /\ \A w : Confidence(state', w) = Confidence(state, w)
  <2>1. Flag(state, "data_conflict") = FALSE /\ Flag(state', "data_conflict") = FALSE
    BY <1>2 DEF Flag, DossierKeys, DossierInv, DossierTypes
  <2>2. VerifyState(state') = v
    BY <1>2, <2>1 DEF VerifyState
  <2>3. \A w : Confidence(state', w) = Confidence(state, w)
    BY <1>2, <2>1 DEF Confidence
  <2> QED BY <2>2, <2>3
<1> HIDE DEF v
<1>5. DossierTypes'
  BY <1>2 DEF DossierInv, DossierTypes
<1>6. DossierProgress'
  BY <1>2, <1>3, NoPhase DEF DossierProgress
<1>7. DossierEnds'
  BY <1>2, <1>3, <1>4 DEF DossierEnds, Anticipated, Released
<1>8. DossierGoverned
  <2>1. Dossier!Outcome = None /\ Dossier!Outcome' = None
    BY <1>2, OutcomeIs DEF Released
  <2> QED BY <1>1, <1>2, <1>3, <2>1 DEF DossierGoverned, Dossier!Abstract!Next,
    Dossier!Abstract!Check, Dossier!None, Dossier!Verdicts, Verdicts, Dossier!Codes
<1> QED BY <1>2, <1>5, <1>6, <1>7, <1>8 DEF DossierInv, Kept

LEMMA DossierVerificationStep ==
  ASSUME DossierInv, Dossier!Verification
  PROVE  DossierInv' /\ Kept /\ DossierGoverned
<1> USE DEF None
<1> DEFINE v == VerifyState(state)
<1>1. v \in Verdicts
  BY VerdictSays
<1>2. /\ at = "VERIFICATION" /\ entry' = entry
      /\ DOMAIN state' = DossierKeys
      /\ state'.verification_result = v
      /\ state'.error_code = IF v = "FAIL" THEN "FIN-4101" ELSE state.error_code
      /\ UNCHANGED <<state.evidences, state.calculations, state.claims, state.report,
           state.warnings, state.policy_status, state.final_answer, state.confidence>>
  <2>1. DOMAIN state = DossierKeys
    BY DEF DossierInv, DossierTypes
  <2> DEFINE u == Dossier!VerificationNode(state)
  <2>2. /\ DOMAIN u = {"verification_result", "error_code"}
        /\ u.verification_result = v
        /\ u.error_code = IF v = "FAIL" THEN "FIN-4101" ELSE state.error_code
    BY DossierShares DEF Dossier!VerificationNode
  <2>3. state' = Merge(state, u) /\ entry' = entry /\ at = "VERIFICATION"
    BY DossierShares DEF Dossier!Verification
  <2> HIDE DEF u, v
  <2> QED BY <2>1, <2>2, <2>3, MergeApply DEF DossierKeys
<1>3. IF state'.verification_result = "FAIL" THEN at' = "ABSTAIN" ELSE at' = "AUDIT"
  BY DEF Dossier!Verification, Dossier!AfterVerification
<1>4. /\ state.final_answer = "answer" /\ state.error_code = None /\ entry = None
      /\ state.verification_result = v /\ Anticipated
  BY <1>2 DEF DossierInv, DossierProgress, DossierEnds, Anticipated
<1>5. VerifyState(state') = v /\ \A w : Confidence(state', w) = Confidence(state, w)
  <2>1. Flag(state, "data_conflict") = FALSE /\ Flag(state', "data_conflict") = FALSE
    BY <1>2 DEF Flag, DossierKeys, DossierInv, DossierTypes
  <2>2. VerifyState(state') = v
    BY <1>2, <2>1 DEF VerifyState
  <2>3. \A w : Confidence(state', w) = Confidence(state, w)
    BY <1>2, <2>1 DEF Confidence
  <2> QED BY <2>2, <2>3
<1> HIDE DEF v
<1>6. DossierTypes'
  BY <1>2, <1>3 DEF DossierInv, DossierTypes, Released, Codes
<1>7. DossierProgress'
  BY <1>2, <1>3, <1>4, NoPhase DEF DossierProgress, Released
<1>8. Anticipated'
  BY <1>2, <1>4, <1>5 DEF Anticipated
<1>9. DossierEnds'
  BY <1>2, <1>3, <1>4, <1>8 DEF DossierEnds, Released
<1>10. DossierGoverned
  <2>1. Dossier!Outcome = None
    BY <1>2, OutcomeIs DEF Released
  <2>2. CASE v = "FAIL"
    <3>1. Dossier!Outcome' = None
      BY <1>2, <1>3, <2>2, OutcomeIs DEF Released
    <3> QED BY <1>1, <1>2, <1>4, <2>1, <2>2, <3>1 DEF DossierGoverned, Dossier!Abstract!Next,
      Dossier!Abstract!Check, Dossier!None, Dossier!Verdicts, Verdicts, Dossier!Codes
  <2>3. CASE v # "FAIL"
    <3>1. Dossier!Outcome' = "answer"
      BY <1>2, <1>3, <1>4, <2>3, OutcomeIs DEF Released
    <3>2. v \in {"PASS", "ABSTAIN"}
      BY <1>1, <2>3 DEF Verdicts
    <3> QED BY <1>2, <1>4, <2>1, <2>3, <3>1, <3>2 DEF DossierGoverned, Dossier!Abstract!Next,
      Dossier!Abstract!Answer, Dossier!None
  <2> QED BY <2>2, <2>3
<1> QED BY <1>2, <1>6, <1>7, <1>9, <1>10, <1>4 DEF DossierInv, Kept

LEMMA DossierAbstainStep ==
  ASSUME DossierInv, Dossier!Abstain
  PROVE  DossierInv' /\ Kept /\ DossierGoverned
<1> USE DEF None
<1>1. /\ at = "ABSTAIN" /\ at' = "AUDIT" /\ entry' = entry /\ DOMAIN state' = DossierKeys
      /\ state'.final_answer = "abstention"
      /\ state.warnings \subseteq state'.warnings
      /\ UNCHANGED <<state.verification_result, state.evidences, state.error_code,
           state.policy_status, state.claims, state.calculations>>
  <2>1. DOMAIN state = DossierKeys
    BY DEF DossierInv, DossierTypes
  <2> DEFINE u == Dossier!AbstentionNode(state)
  <2>2. /\ DOMAIN u = {"final_answer", "warnings", "confidence"}
        /\ u.final_answer = "abstention" /\ state.warnings \subseteq u.warnings
    BY DEF Dossier!AbstentionNode
  <2>3. /\ state' = Merge(state, u) /\ at = "ABSTAIN" /\ at' = "AUDIT" /\ entry' = entry
    BY DossierShares DEF Dossier!Abstain
  <2> HIDE DEF u
  <2> QED BY <2>1, <2>2, <2>3, MergeApply DEF DossierKeys
<1>2. state.error_code # None /\ entry = None
  BY <1>1 DEF DossierInv, DossierEnds, DossierProgress
<1>3. DossierTypes'
  BY <1>1 DEF DossierInv, DossierTypes, Released
<1>4. DossierProgress' /\ DossierEnds'
  BY <1>1, <1>2, NoPhase DEF DossierProgress, DossierEnds, Released
<1>5. DossierGoverned
  <2>1. Dossier!Outcome = None /\ Dossier!Outcome' = "abstention"
    BY <1>1, OutcomeIs DEF Released
  <2> QED BY <1>1, <1>2, <2>1 DEF DossierGoverned,
    Dossier!Abstract!Next, Dossier!Abstract!Abstain, Dossier!None
<1> QED BY <1>1, <1>3, <1>4, <1>5 DEF DossierInv, Kept


LEMMA DossierLastStep ==
  ASSUME DossierInv, Dossier!Audit \/ Dossier!Raise \/ Dossier!Done
  PROVE  DossierInv' /\ Kept /\ DossierGoverned
<1> USE DEF None
<1>1. /\ at' \in {"end", "raised", "raised late"}
      /\ state' = state
      /\ entry' # entry => at = "AUDIT" /\ entry' \in Dossier!AuditResults(state)
      /\ at' \in {"end", "raised late"} => at \in Released
      /\ entry' # entry => at' \in {"end", "raised late"}
  BY DEF Dossier!Audit, Dossier!Raise, Dossier!Done, Dossier!vars, Released
<1>2. at' = "raised" => at \notin Released
  <2>1. CASE Dossier!Raise
    <3>1. at' = "raised" => at \in Dossier!Nodes \ {"AUDIT"}
      BY <2>1 DEF Dossier!Raise
    <3>2. Dossier!ToSet(Dossier!Phases) = {Dossier!Phases[i] : i \in Writing}
      <4>1. DOMAIN Dossier!Phases = Writing
        BY DEF Writing, Dossier!Phases
      <4> QED BY <4>1 DEF Dossier!ToSet
    <3>3. "end" \notin Dossier!Nodes /\ "raised late" \notin Dossier!Nodes
      BY <3>2, NoPhase DEF Dossier!Nodes, Released
    <3> QED BY <3>1, <3>3 DEF Released
  <2>2. CASE Dossier!Audit \/ Dossier!Done
    BY <2>2 DEF Dossier!Audit, Dossier!Done, Dossier!vars, Released
  <2> QED BY <2>1, <2>2
<1>3. UNCHANGED <<state.error_code, state.verification_result, state.evidences,
           state.calculations, state.claims, state.report, state.final_answer,
           state.confidence, state.warnings>>
  BY <1>1
<1>4. DossierTypes'
  BY <1>1, <1>3 DEF DossierInv, DossierTypes, Released
<1>5. DossierProgress'
  <2>1. at' \notin {Dossier!Phases[i] : i \in Writing} \cup {"POLICY", "REPORT"}
    BY <1>1, NoPhase DEF Released
  <2>2. at' \notin {"end", "raised late"} => entry' = entry /\ entry = None
    BY <1>1, <1>2 DEF DossierInv, DossierProgress, Released
  <2> QED BY <2>1, <2>2 DEF DossierProgress
<1>6. DossierEnds'
  <2>1. Anticipated' <=> Anticipated
    BY <1>1 DEF Anticipated
  <2> QED BY <1>1, <1>3, <2>1 DEF DossierInv, DossierEnds, Released
<1>7. DossierGoverned
  <2>1. Dossier!Outcome' = Dossier!Outcome
    BY <1>1, <1>2, <1>3, OutcomeIs DEF Released
  <2>2. CASE entry' = entry
    BY <1>3, <2>1, <2>2, DossierUnseen
  <2>3. CASE entry' # entry
    <3>1. /\ at = "AUDIT" /\ entry = None /\ Dossier!Outcome # None
          /\ entry' \in {IF state.error_code = None THEN "success" ELSE "error", "lost"}
      BY <1>1, <2>3, OutcomeIs DEF DossierInv, DossierProgress, DossierEnds, Released,
        Dossier!AuditResults, Dossier!AuditStatus, Dossier!None
    <3> QED BY <1>3, <2>1, <3>1 DEF DossierGoverned, Dossier!Abstract!Next,
      Dossier!Abstract!Audit, Dossier!None
  <2> QED BY <2>2, <2>3
<1> QED BY <1>3, <1>4, <1>5, <1>6, <1>7 DEF DossierInv, Kept

LEMMA DossierStep ==
  ASSUME DossierInv, Dossier!Next
  PROVE  DossierInv' /\ Kept /\ DossierGoverned
BY DossierPolicyStep, DossierPhaseStep, DossierReportStep, DossierVerificationStep,
  DossierAbstainStep, DossierLastStep DEF Dossier!Next, Writing

LEMMA DossierStart ==
  ASSUME Dossier!Init
  PROVE  DossierInv /\ Dossier!Abstract!Init
<1> USE DEF None, Dossier!None
<1>1. /\ at = "POLICY" /\ entry = None /\ DOMAIN state = DossierKeys
      /\ state.error_code = None /\ state.verification_result = None
      /\ state.final_answer = None /\ state.dossier = <<>>
      /\ state.evidences \in SUBSET Evidences /\ state.claims \in GivenClaims
  BY DEF Dossier!Init, DossierKeys
<1>2. IsFiniteSet(state.claims)
  BY <1>1, RequestAssumption
<1>3. DossierTypes /\ DossierProgress /\ DossierEnds
  BY <1>1, <1>2, NoPhase DEF DossierTypes, DossierProgress, DossierEnds, Released
<1>4. Dossier!Outcome = None
  BY <1>1, OutcomeIs DEF Released
<1> QED BY <1>1, <1>3, <1>4 DEF DossierInv, Dossier!Abstract!Init

\* A released dossier is complete, its claims passed, and without evidence its
\* confidence is below the lowest grade.
LEMMA DossierReported == DossierInv => Dossier!ReleasedReportIsComplete
<1> SUFFICES ASSUME DossierInv, at = "end", state.final_answer = "answer"
             PROVE  /\ state.report = Dossier!Phases
                    /\ state.confidence = Confidence(state, state.verification_result)
                    /\ \A c \in state.claims :
                         ~Unsound(c, state.evidences, state.calculations)
                    /\ state.verification_result = "ABSTAIN" => state.confidence < 45
  BY DossierShares DEF Dossier!ReleasedReportIsComplete
<1>1. Anticipated /\ state.verification_result # "FAIL"
  BY DEF DossierInv, DossierEnds, Released
<1>2. \A c \in state.claims : ~Unsound(c, state.evidences, state.calculations)
  BY <1>1, VerdictSays DEF Anticipated
<1>3. Confidence(state, "ABSTAIN") \in 0..44
  BY ConfidenceBounds DEF DossierInv, DossierTypes
<1> QED BY <1>1, <1>2, <1>3 DEF Anticipated

-----------------------------------------------------------------------------
(* The report graph: its steps *)

LEMMA ReportShares ==
  /\ \A s, u : Reports!Merge(s, u) = Merge(s, u)
  /\ \A e, c : Reports!MakeClaims(e, c) = MakeClaims(e, c)
  /\ \A s : Reports!VerifyState(s) = VerifyState(s)
  /\ \A c, e, k : Reports!Unsound(c, e, k) = Unsound(c, e, k)
<1>1. \A s, u : Reports!Merge(s, u) = Merge(s, u)
  BY Zenon DEF Reports!Merge, Merge
<1>2. \A e, c : Reports!MakeClaims(e, c) = MakeClaims(e, c)
  BY Zenon DEF Reports!MakeClaims, MakeClaims, Reports!NoCalculation, NoCalculation
<1>3. \A s : Reports!VerifyState(s) = VerifyState(s)
  BY Zenon DEF Reports!VerifyState, VerifyState, Reports!Verify, Verify, Reports!Unsound,
    Unsound, Reports!Unsupported, Unsupported, Reports!Ids, Ids, Reports!NoCalculation,
    NoCalculation, Reports!Flag, Flag
<1>4. \A c, e, k : Reports!Unsound(c, e, k) = Unsound(c, e, k)
  BY Zenon DEF Reports!Unsound, Unsound, Reports!Ids, Ids, Reports!NoCalculation,
    NoCalculation
<1> QED BY <1>1, <1>2, <1>3, <1>4

LEMMA ReportReturns ==
  ASSUME DOMAIN state = ReportKeys, NEW n, NEW u, Reports!Return(n, u)
  PROVE  /\ at = n /\ at' = Reports!EdgeFrom[n] /\ entry' = entry /\ given' = given
         /\ DOMAIN state' = ReportKeys
         /\ \A k \in ReportKeys : state'[k] = IF k \in DOMAIN u THEN u[k] ELSE state[k]
BY MergeApply, ReportShares DEF Reports!Return

LEMMA ReportEdges ==
  /\ Reports!EdgeFrom["load"] = "assemble_claims"
  /\ Reports!EdgeFrom["assemble_claims"] = "generate_sections"
  /\ Reports!EdgeFrom["generate_sections"] = "verify_sections"
  /\ Reports!EdgeFrom["abstain"] = "audit"
  /\ Reports!EdgeFrom["assemble_report"] = "audit"
BY DEF Reports!EdgeFrom

ReportGoverned == [Reports!Abstract!Next]_(Reports!Abstract!vars)

LEMMA ReportUnseen ==
  ASSUME UNCHANGED <<state.error_code, state.verification_result,
                     state.final_answer, entry>>
  PROVE  ReportGoverned
BY DEF ReportGoverned, Reports!Abstract!vars

\* What is loaded, restored or derived, and put into sections.
LEMMA ReportAssemblyStep ==
  ASSUME ReportInv, Reports!Load \/ Reports!AssembleClaims \/ Reports!GenerateSections
  PROVE  ReportInv' /\ Kept /\ ReportGoverned
<1> USE DEF None
<1>1. DOMAIN state = ReportKeys
  BY DEF ReportInv, ReportTypes
<1>2. /\ DOMAIN state' = ReportKeys
      /\ UNCHANGED <<state.error_code, state.verification_result, state.final_answer,
           state.policy_status, state.evidences, state.calculations, state.warnings,
           entry, given>>
      /\ \/ /\ at = "load" /\ at' = "assemble_claims"
            /\ UNCHANGED <<state.claims, state.sections>>
         \/ /\ at = "assemble_claims" /\ at' = "generate_sections"
            /\ state.claims # {} => state'.claims = state.claims
         \/ /\ at = "generate_sections" /\ at' = "verify_sections"
            /\ state'.claims = state.claims /\ state'.sections = state.claims
  <2>1. CASE Reports!Load
    BY <1>1, <2>1, ReportReturns, ReportEdges DEF ReportKeys, Reports!Load
  <2>2. CASE Reports!AssembleClaims
    <3> DEFINE claims == IF state.claims # {} THEN state.claims
                         ELSE Reports!MakeClaims(state.evidences, state.calculations)
    <3>1. /\ Reports!Return("assemble_claims", [claims |-> claims])
          /\ state.claims # {} => claims = state.claims
      BY <2>2 DEF Reports!AssembleClaims
    <3> HIDE DEF claims
    <3> QED BY <1>1, <3>1, ReportReturns, ReportEdges DEF ReportKeys
  <2>3. CASE Reports!GenerateSections
    BY <1>1, <2>3, ReportReturns, ReportEdges DEF ReportKeys, Reports!GenerateSections
  <2> QED BY <2>1, <2>2, <2>3
<1>3. ReportTypes' /\ ReportProgress'
  BY <1>2 DEF ReportInv, ReportTypes, ReportProgress, Assembling
<1>4. ReportEnds'
  BY <1>2 DEF ReportInv, ReportProgress, ReportEnds, Vouched, Assembling
<1> QED BY <1>2, <1>3, <1>4, ReportUnseen DEF ReportInv, Kept

LEMMA ReportVerificationStep ==
  ASSUME ReportInv, Reports!VerifySections
  PROVE  ReportInv' /\ Kept /\ ReportGoverned
<1> USE DEF None
<1> DEFINE v == VerifyState(state)
<1>1. v \in Verdicts
  BY VerdictSays
<1>2. /\ at = "verify_sections" /\ entry' = entry /\ given' = given
      /\ DOMAIN state' = ReportKeys
      /\ state'.verification_result = v
      /\ state'.error_code = IF v = "FAIL" THEN "FIN-4101" ELSE state.error_code
      /\ UNCHANGED <<state.evidences, state.calculations, state.claims, state.sections,
           state.warnings, state.policy_status, state.final_answer>>
  <2>1. DOMAIN state = ReportKeys
    BY DEF ReportInv, ReportTypes
  <2> DEFINE u == Reports!VerificationNode(state)
  <2>2. /\ DOMAIN u = {"verification_result", "error_code"}
        /\ u.verification_result = v
        /\ u.error_code = IF v = "FAIL" THEN "FIN-4101" ELSE state.error_code
    BY ReportShares DEF Reports!VerificationNode
  <2>3. /\ state' = Merge(state, u) /\ entry' = entry /\ given' = given
        /\ at = "verify_sections"
    BY ReportShares DEF Reports!VerifySections
  <2> HIDE DEF u, v
  <2> QED BY <2>1, <2>2, <2>3, MergeApply DEF ReportKeys
<1>3. IF state'.verification_result = "FAIL" THEN at' = "abstain" ELSE at' = "assemble_report"
  BY DEF Reports!VerifySections
<1>4. /\ state.final_answer = None /\ state.error_code = None /\ entry = None
      /\ state.verification_result = None
      /\ given # {} => state.claims = given /\ state.sections = given
  BY <1>2 DEF ReportInv, ReportProgress, Assembling
<1>5. v # "FAIL" =>
        /\ state.policy_status # "block"
        /\ \A c \in state.claims : ~Unsound(c, state.evidences, state.calculations)
  BY VerdictSays
<1> HIDE DEF v
<1>6. ReportTypes' /\ ReportProgress'
  BY <1>2, <1>3, <1>4 DEF ReportInv, ReportTypes, ReportProgress, Assembling, Codes
<1>7. v # "FAIL" => Vouched'
  <2>1. v # "FAIL" => \A c \in given : ~Unsound(c, state.evidences, state.calculations)
    BY <1>4, <1>5
  <2> QED BY <1>2, <1>4, <1>5, <2>1 DEF Vouched
<1>8. ReportEnds'
  BY <1>1, <1>2, <1>3, <1>4, <1>7 DEF ReportEnds, Verdicts
<1>9. ReportGoverned
  BY <1>1, <1>2, <1>4 DEF ReportGoverned, Reports!Abstract!Next,
    Reports!Abstract!Check, Reports!None, Reports!Verdicts, Verdicts, Reports!Codes
<1> QED BY <1>2, <1>4, <1>6, <1>8, <1>9 DEF ReportInv, Kept

LEMMA ReportAnswerStep ==
  ASSUME ReportInv, Reports!AssembleReport \/ Reports!Abstain
  PROVE  ReportInv' /\ Kept /\ ReportGoverned
<1> USE DEF None
<1>1. DOMAIN state = ReportKeys
  BY DEF ReportInv, ReportTypes
<1>2. /\ DOMAIN state' = ReportKeys /\ at' = "audit"
      /\ UNCHANGED <<state.error_code, state.verification_result, state.claims, state.sections,
           state.policy_status, state.evidences, state.calculations, entry, given>>
      /\ state.warnings \subseteq state'.warnings
      /\ \/ at = "assemble_report" /\ state'.final_answer = "answer"
         \/ at = "abstain" /\ state'.final_answer = "abstention"
  <2>1. CASE Reports!AssembleReport
    BY <1>1, <2>1, ReportReturns, ReportEdges DEF ReportKeys, Reports!AssembleReport
  <2>2. CASE Reports!Abstain
    BY <1>1, <2>2, ReportReturns, ReportEdges DEF ReportKeys, Reports!Abstain
  <2> QED BY <2>1, <2>2
<1>3. ReportTypes' /\ ReportProgress'
  BY <1>2 DEF ReportInv, ReportTypes, ReportProgress, Assembling
<1>4. ReportEnds'
  BY <1>2 DEF ReportInv, ReportEnds, Vouched
<1>5. ReportGoverned
  BY <1>2 DEF ReportInv, ReportProgress, ReportEnds, ReportGoverned, Reports!Abstract!Next,
    Reports!Abstract!Answer, Reports!Abstract!Abstain, Reports!None
<1> QED BY <1>2, <1>3, <1>4, <1>5 DEF ReportInv, Kept

LEMMA ReportLastStep ==
  ASSUME ReportInv, Reports!Audit \/ Reports!Raise \/ Reports!Done
  PROVE  ReportInv' /\ Kept /\ ReportGoverned
<1> USE DEF None
<1>1. /\ at' \in {"end", "raised"}
      /\ state' = state /\ given' = given
      /\ entry' # entry => at = "audit" /\ entry' \in Reports!AuditResults(state)
  BY DEF Reports!Audit, Reports!Raise, Reports!Done, Reports!vars
<1>2. ReportTypes' /\ ReportProgress'
  BY <1>1 DEF ReportInv, ReportTypes, ReportProgress, Assembling
<1>3. ReportEnds'
  BY <1>1 DEF ReportInv, ReportEnds, Vouched
<1>4. ReportGoverned
  <2>1. CASE entry' = entry
    BY <1>1, <2>1, ReportUnseen
  <2>2. CASE entry' # entry
    BY <1>1, <2>2 DEF ReportInv, ReportProgress, ReportGoverned, Reports!Abstract!Next,
      Reports!Abstract!Audit, Reports!None, Reports!AuditResults, Reports!AuditStatus
  <2> QED BY <2>1, <2>2
<1> QED BY <1>1, <1>2, <1>3, <1>4 DEF ReportInv, Kept

LEMMA ReportStep ==
  ASSUME ReportInv, Reports!Next
  PROVE  ReportInv' /\ Kept /\ ReportGoverned
BY ReportAssemblyStep, ReportVerificationStep, ReportAnswerStep, ReportLastStep
  DEF Reports!Next

LEMMA ReportStart ==
  ASSUME Reports!Init
  PROVE  ReportInv /\ Reports!Abstract!Init
<1> USE DEF None, Reports!None
<1>1. /\ at = "load" /\ entry = None /\ DOMAIN state = ReportKeys
      /\ state.error_code = None /\ state.verification_result = None
      /\ state.final_answer = None /\ state.claims = given
  BY DEF Reports!Init, ReportKeys
<1>2. ReportTypes /\ ReportProgress /\ ReportEnds
  BY <1>1 DEF ReportTypes, ReportProgress, ReportEnds, Assembling
<1> QED BY <1>1, <1>2 DEF ReportInv, Reports!Abstract!Init

LEMMA ReportVouches == ReportInv => Reports!ReportKeepsItsClaims
BY ReportShares DEF ReportInv, ReportEnds, Vouched, Reports!ReportKeepsItsClaims

-----------------------------------------------------------------------------
(* The run, whichever graph it is of *)

LEMMA RunStarts == Init => RunInv
BY ResearchStart, HealthStart, DossierStart, ReportStart DEF Init, RunInv

\* What a step of the run's graph is.
GovernedStep ==
  CASE graph = "research"         -> ResearchGoverned
    [] graph = "financial_health" -> HealthGoverned
    [] graph = "due_diligence"    -> DossierGoverned
    [] graph = "report"           -> ReportGoverned

Graphs == {"research", "financial_health", "due_diligence", "report"}

LEMMA RunSteps ==
  ASSUME RunInv, graph \in Graphs, Next
  PROVE  RunInv' /\ graph' \in Graphs /\ Kept /\ GovernedStep
<1>1. CASE graph = "research" /\ Research!Next /\ UNCHANGED <<graph, given>>
  BY <1>1, ResearchStep DEF RunInv, GovernedStep
<1>2. CASE graph = "financial_health" /\ Health!Next /\ UNCHANGED graph
  BY <1>2, HealthStep DEF RunInv, GovernedStep
<1>3. CASE graph = "due_diligence" /\ Dossier!Next /\ UNCHANGED graph
  BY <1>3, DossierStep DEF RunInv, GovernedStep
<1>4. CASE graph = "report" /\ Reports!Next /\ UNCHANGED graph
  BY <1>4, ReportStep DEF RunInv, GovernedStep
<1> QED BY <1>1, <1>2, <1>3, <1>4 DEF Next, Graphs

\* Nothing happens: an invariant speaks of the variables only.
LEMMA RunStutters ==
  ASSUME RunInv, graph \in Graphs, UNCHANGED vars
  PROVE  RunInv' /\ graph' \in Graphs /\ Kept /\ GovernedStep
<1>1. UNCHANGED <<graph, at, state, calls, entry, given>>
  BY DEF vars
<1>2. /\ ResearchInv' <=> ResearchInv
      /\ HealthInv' <=> HealthInv
      /\ ReportInv' <=> ReportInv
  BY <1>1 DEF ResearchInv, ResearchTypes, ResearchProgress, ResearchTraces, ResearchBasis,
    ResearchEnds, Grounded, HealthInv, HealthTypes, HealthProgress, HealthBasis, HealthEnds,
    Derived, ReportInv, ReportTypes, ReportProgress, ReportEnds, Vouched
<1>3. DossierInv' <=> DossierInv
  BY <1>1 DEF DossierInv, DossierTypes, DossierProgress, DossierEnds, Anticipated
<1>4. UNCHANGED <<state.error_code, state.verification_result, state.final_answer, entry>>
  BY <1>1
<1>5. Dossier!Outcome' = Dossier!Outcome
  BY <1>1 DEF Dossier!Outcome
<1>6. ResearchGoverned /\ HealthGoverned /\ DossierGoverned /\ ReportGoverned
  BY <1>4, <1>5, ResearchUnseen, HealthUnseen, DossierUnseen, ReportUnseen
<1> QED BY <1>1, <1>2, <1>3, <1>6 DEF RunInv, Graphs, GovernedStep, Kept

RunIsKnown == RunInv /\ graph \in Graphs

LEMMA RunIsKnownAlways == Spec => []RunIsKnown
<1>1. Init => RunIsKnown
  BY RunStarts DEF RunIsKnown, Init, Graphs
<1>2. RunIsKnown /\ [Next]_vars => RunIsKnown'
  BY RunSteps, RunStutters DEF RunIsKnown
<1> QED BY <1>1, <1>2, PTL DEF Spec

-----------------------------------------------------------------------------
(* The theorems *)

\* An answer of the research graph is given by a run without error that the gate let
\* pass; its claims and the arguments about them cite nothing but the evidences
\* that are shown, and a conflict of the providers is told (choose_route,
\* _after_verification, VerificationRules, arbitrate_debate).
THEOREM AnswersAreGrounded == Spec => []AnswerIsGrounded
<1>1. RunIsKnown => AnswerIsGrounded
  <2>1. Research!Ids(state.calculations) = Ids(state.calculations)
    BY Zenon DEF Research!Ids, Ids
  <2> QED BY <2>1, ResearchShares DEF RunIsKnown, RunInv, ResearchInv, ResearchTraces,
    ResearchEnds, Grounded, AnswerIsGrounded, Research!AnswerIsGrounded, Research!None, None
<1> QED BY <1>1, RunIsKnownAlways, PTL

\* The confidence is 0 exactly when the run abstained: an answer has something to
\* stand on, which is worth at least 20 percent (compute_confidence).
THEOREM ZeroMeansAbstained == Spec => []ZeroConfidenceIsAbstention
<1>1. RunIsKnown => ZeroConfidenceIsAbstention
  BY DEF RunIsKnown, RunInv, ResearchInv, ResearchTypes, ResearchEnds, None,
    ZeroConfidenceIsAbstention, Research!ZeroConfidenceIsAbstention, Research!None
<1> QED BY <1>1, RunIsKnownAlways, PTL

\* What the other three graphs release stands on what their runs have, although
\* none of them asks for the error code before it answers.
THEOREM ReportsAreSound == Spec => []ReleasedReportIsSound
<1>1. RunIsKnown => ReleasedReportIsSound
  BY HealthReported, DossierReported, ReportVouches DEF RunIsKnown, RunInv, ReleasedReportIsSound
<1> QED BY <1>1, RunIsKnownAlways, PTL

\* No node drops an error or a warning of an earlier one.
THEOREM ErrorsAndWarningsStay == Spec => NothingIsForgotten
<1>1. RunIsKnown /\ [Next]_vars =>
        [/\ state.error_code # None => state'.error_code # None
         /\ state.warnings \subseteq state'.warnings]_vars
  BY RunSteps DEF RunIsKnown, Kept
<1> QED BY <1>1, RunIsKnownAlways, PTL DEF Spec, NothingIsForgotten

\* Each graph implements GovernedRun: a step of a node is one of that run, or
\* changes nothing it knows of.
THEOREM GraphsAreGoverned == Spec => ImplementsGovernedRun
<1> DEFINE first == CASE graph = "research"         -> Research!Abstract!Init
                      [] graph = "financial_health" -> Health!Abstract!Init
                      [] graph = "due_diligence"    -> Dossier!Abstract!Init
                      [] graph = "report"           -> Reports!Abstract!Init
<1>1. Init => first
  BY ResearchStart, HealthStart, DossierStart, ReportStart DEF Init
<1>2. RunIsKnown /\ [Next]_vars => [GovernedStep]_vars
  BY RunSteps DEF RunIsKnown
<1>3. Spec => first /\ [][GovernedStep]_vars
  BY <1>1, <1>2, RunIsKnownAlways, PTL DEF Spec
<1> QED BY <1>3 DEF ImplementsGovernedRun, GovernedStep, ResearchGoverned, HealthGoverned,
  DossierGoverned, ReportGoverned
=============================================================================

------------------------------- MODULE Debate -------------------------------
(***************************************************************************)
(* The debate of the research graph (workflows/nodes.py, models/debate.py): *)
(* a bull and a bear argue about the claims, by rule or in the words of a   *)
(* language model, and a rule decides.  The arguments of a side are a       *)
(* function of what they are about, a claim or a draft of the model.        *)
(* Confidences are in percent, rounded down.                                *)
(***************************************************************************)
EXTENDS WorkflowNodes

CONSTANT GivenDrafts  \* what a model can answer: sets of drafts

Arguments == [cites : SUBSET Evidences, confidence : 0..100]

\* An answer without drafts, and one that fails, is none.
ASSUME DraftsAssumption ==
  /\ {} \in GivenDrafts
  /\ \A ds \in GivenDrafts : IsFiniteSet(ds) /\ ds \subseteq Arguments

\* _calc_claim_confidence: that of the evidence a number is bound to, but at
\* least 50, which is what a number without evidence has.
NumberConfidence(claim, evidences) ==
  LET bound == claim.cites \cap evidences
      score == (Mean(Relevance, bound) + Mean(Authority, bound)) \div 2
  IN  IF score <= 50 THEN 50 ELSE score

\* The confidence _make_claims gives a claim; a fact cites one evidence.
ClaimConfidence(claim, evidences) ==
  IF claim.type = "numeric" THEN NumberConfidence(claim, evidences)
  ELSE Relevance[CHOOSE e \in claim.cites : TRUE]

\* _derive_arguments: the bull repeats every claim, the bear doubts those
\* without evidence or confidence.
BullArguments(claims, evidences) ==
  [c \in claims |->
     [cites |-> c.cites, confidence |-> ClaimConfidence(c, evidences)]]

BearArguments(claims, evidences) ==
  [c \in {d \in claims : d.cites = {} \/ ClaimConfidence(d, evidences) < 50} |->
     [cites |-> {}, confidence |-> 100 - ClaimConfidence(c, evidences)]]

\* _llm_arguments: a draft that cites what is not there loses its citations and
\* half of its confidence.
LlmArguments(drafts, evidences) ==
  [d \in drafts |->
     IF d.cites \subseteq evidences THEN d
     ELSE [cites |-> {}, confidence |-> d.confidence \div 2]]

\* The model's arguments, or else those by rule.
Side(drafts, derived, evidences) ==
  IF drafts = {} THEN derived ELSE LlmArguments(drafts, evidences)

Cited(side) == UNION {side[a].cites : a \in DOMAIN side}

MeanConfidence(side) ==
  Mean([a \in DOMAIN side |-> side[a].confidence], DOMAIN side)

\* The Jaccard distance of what the sides cite; nothing cited is half way.
Disagreement(bull, bear) ==
  LET union == Cited(bull) \cup Cited(bear)
  IN  IF DOMAIN bear = {} THEN 0
      ELSE IF DOMAIN bull = {} THEN 100
      ELSE IF union = {} THEN 50
      ELSE 100 - (100 * Cardinality(Cited(bull) \cap Cited(bear)))
                   \div Cardinality(union)

DebateVerdict(bull, bear) ==
  LET lead == MeanConfidence(bull) - MeanConfidence(bear)
  IN  IF DOMAIN bull \cup DOMAIN bear = {} THEN "insufficient"
      ELSE IF DOMAIN bear = {} THEN "bull"
      ELSE IF DOMAIN bull = {} THEN "bear"
      ELSE IF lead \in -9..9 THEN "balanced"
      ELSE IF lead > 0 THEN "bull" ELSE "bear"

\* arbitrate_debate.
Arbitrate(bull, bear) ==
  [bull |-> bull, bear |-> bear, disagreement |-> Disagreement(bull, bear),
   verdict |-> DebateVerdict(bull, bear)]

\* debate_result before there is one.
NoDebate == [bull |-> <<>>, bear |-> <<>>, disagreement |-> 0, verdict |-> None]

\* debate: each side with what its model answers.
DebateNode(state, bull, bear) ==
  [debate_result |->
     Arbitrate(Side(bull, BullArguments(state.claims, state.evidences),
                    state.evidences),
               Side(bear, BearArguments(state.claims, state.evidences),
                    state.evidences))]
=============================================================================

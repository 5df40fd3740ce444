SPECIFICATION FairSpec
CONSTANTS
  Evidences <- MCEvidences
  Relevance <- MCRelevance
  Authority <- MCAuthority
  Naming <- MCNaming
  Injected <- MCInjected
  MaxEvidence = 2
  MaxAttempts = 2
  HasTimeout = TRUE
  GivenFigures <- MCFigures
  GivenDrafts <- MCDrafts
  GivenCalculations <- MCGivenCalculations
  GivenClaims <- MCGivenClaims
INVARIANTS
  AnswerIsGrounded
  ZeroConfidenceIsAbstention
  ReleasedReportIsSound
PROPERTIES
  NothingIsForgotten
  RunEnds
  ImplementsGovernedRun

SPECIFICATION FairSpec
CONSTANTS
  Responses <- AllResponses
  Batches <- AllBatches
  StartModes = {"implicit", "explicit_finish", "hybrid"}
  NextModes = {"implicit", "explicit_finish"}
  Appends = {0, 1}
  StopAnswers = {TRUE, FALSE}
  AcceptAnswers = {TRUE, FALSE}
  SteeringModes = {"one-at-a-time"}
  FollowUpModes = {"one-at-a-time"}
  GroupSizes = {1}
  MaxQueued = 0
  MaxRequests = 3
  MaxRuns = 1
  MaxDisturbed = 1
  MaxResets = 0
  MaxTurns = 2
  MaxNoProgress = 1
  MaxWaiting = 1
  MaxMalformed = 1
  MaxEmpty = 0
  MaxMissing = 1
  MaxMissingExplicit = 1
INVARIANTS
  TurnsPaired
  ReportMatchesTranscript
  AbortStopsRequests
  LimitsHold
  
PROPERTY RunSettles
CHECK_DEADLOCK FALSE

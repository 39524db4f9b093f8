SPECIFICATION Spec
CONSTANTS
  Responses <- FewResponses
  Batches <- FewBatches
  StartModes = {"implicit"}
  NextModes = {}
  Appends = {0}
  StopAnswers = {FALSE}
  AcceptAnswers = {FALSE}
  SteeringModes = {"one-at-a-time", "all"}
  FollowUpModes = {"one-at-a-time"}
  GroupSizes = {2}
  MaxQueued = 4
  MaxRequests = 2
  MaxRuns = 2
  MaxDisturbed = 1
  MaxResets = 1
  MaxTurns = 2
  MaxNoProgress = 1
  MaxWaiting = 1
  MaxMalformed = 1
  MaxEmpty = 0
  MaxMissing = 1
  MaxMissingExplicit = 1
INVARIANTS
  QueuedExactlyOnce
  NothingLeftUnanswered
  DeliveredInOrder
CHECK_DEADLOCK FALSE

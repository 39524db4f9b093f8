SPECIFICATION FairSpec
CONSTANTS
  N = 2
  Results <- MCResults
  Overrides <- MCOverrides
  Keep = keep
  KeepValue = keep
  MaxUpdates = 1
  MaxThrows = 1
INVARIANTS ResultsInSourceOrder ShortBatchWasAborted NothingOutlivesReturn UpdatesPrecedeEnd
PROPERTIES AbortStopsLaterCalls BatchSettles RunningCallsEnd

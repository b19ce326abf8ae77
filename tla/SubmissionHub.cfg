SPECIFICATION FairHubSpec
CONSTANTS
  Keys = {k1}
  MaxGeneration = 2
  EventsPerTick = 1
  DiscoveryAttempts = 2
  StatusPolls = 1
  Others = {o1}
  MaxPanics = 1
  NoKey = NoKey
INVARIANTS
  AcceptedIsNeverForgotten
  NoBlindRetry
  ModalNeverHangs
PROPERTIES
  TracksOwnSubmission
  VerdictStays
  StoppedNeverPosts
  StartsAreDecided

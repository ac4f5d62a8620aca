CONSTANTS
  Modes = {"cold", "warm", "pinned", "unsupported"}
  Faults = {"http3", "http1"}
SPECIFICATION FairSpec
INVARIANTS
  TypeOK
  AtMostOneResult
  RefCountExact
  SingleSender
  ResultMatchesWinner
PROPERTIES
  RefinesOneAnswer
  QuicLeavesAnswerToTcp
  EventuallyAnswered
  EventuallyFreed

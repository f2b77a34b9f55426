SPECIFICATION Spec
CONSTANTS
  Principals <- People
  Anonymous = "nobody"
  Decisions <- TwoAnswers
  Rules <- Released
  NumGates = 2
  MaxGateRevisions = 1
  MaxPresentations = 2
  MaxVotes = 3
  MaxInflight = 1
  StoreMayFail = TRUE
  HeldBackAt = {"first"}
  HistoryMayBeUnread = FALSE
INVARIANTS
  VotesAreCurrent
  EveryVoteCounts
  PromptNamesGate
  VotesFollowPark
PROPERTIES
  DecidesByQuorum

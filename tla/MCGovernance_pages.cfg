\* Two calls at a time, each fetch answered or timed out, and a user who acts.
CONSTANTS
  c1 = c1
  c2 = c2
  good = good
  bad = bad
  Calls <- TwoCalls
  Hashes <- MCHashes
  WellFormed <- MCWellFormed
  HashOf <- MCHashOf
  Pages <- MCPages
  PowerAt <- MCPowerAt
  Powers = {1, 2}
  Moving = {0}
SPECIFICATION FairGovSpec
INVARIANTS
  GovTypeOK
  ShownStaysShown
  OfferedActionsWork
  VotesCountAsShown
  SignedVotesCount
PROPERTIES
  PagesArrive

\* Two delegations at a time.  The system stops when both are done.
CONSTANTS
  c1 = c1
  c2 = c2
  ann = ann
  bob = bob
  name = name
  x = x
  y = y
  None = None
  Malformed = Malformed
  Calls <- TwoCalls
  Users <- TwoUsers
  Addresses <- TwoAddresses
  Names <- OneName
  Asks <- MCAsks
  MaxOutside = 2
SPECIFICATION FairSpec
INVARIANTS
  TypeOK
  UndisturbedSignaturesWork
  NoSilentMismatch
PROPERTIES
  DelegatesAsAsked
  DelegationsGetDone
CHECK_DEADLOCK FALSE

SPECIFICATION FairSpec
CONSTANTS
  Apps = {app}
  Handler = handler
  Places = {p1, p2}
  NoPlace = NoPlace
  MaxPending = 2
  MaxAsked = 2
INVARIANTS
  TypeOK
  GrantAgrees
  WithdrawnIsHeeded
PROPERTIES
  WithdrawalIsHeeded
  RequestReturns

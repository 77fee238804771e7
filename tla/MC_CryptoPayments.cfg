SPECIFICATION Spec
CONSTANTS
  alice = alice
  p1 = p1
  p2 = p2
  r1 = r1
  r2 = r2
  j1 = j1
  j2 = j2
  None = None
  Users <- MCUsers
  Payments <- MCPayments
  Sender <- MCSender
  Prices = {1, 2}
  Requests <- MCRequests
  Runs <- MCRuns
SYMMETRY Symmetry
INVARIANTS
  TypeOK
  NoneMissed
  LostNotMade
PROPERTIES
  SecondTableByRequest
  KeepsPromise

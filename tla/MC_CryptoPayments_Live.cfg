SPECIFICATION FairSpec
CONSTANTS
  alice = alice
  p1 = p1
  p2 = p2
  r1 = r1
  r2 = r2
  j1 = j1
  j2 = j2
  None = None
  Users <- MCUsers
  Payments <- OnePayment
  Sender <- SenderOfOne
  Prices = {2}
  Requests <- MCRequests
  Runs <- MCRuns
PROPERTIES
  Settled

SPECIFICATION Spec
CONSTANTS
  alice = alice
  bob = bob
  q1 = q1
  q2 = q2
  g1 = g1
  d1 = d1
  t1 = t1
  t2 = t2
  Email = Email
  None = None
  Users <- MCUsers
  Quotes <- MCQuotes
  Txns <- MCTxns
  DataItems <- MCDataItems
  Winc <- MCWinc
  Price <- MCPrice
  Dest <- MCDest
  MaxRefunds = 1
SYMMETRY Symmetry
CHECK_DEADLOCK FALSE
INVARIANTS
  TypeOK
  OneTablePerQuote
  SolventUntilChargeback
PROPERTIES
  DriftOnlyByStaleWrite
  PromiseButForGifts

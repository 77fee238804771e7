SPECIFICATION FairWebhookSpec
CONSTANTS
  alice = alice
  q1 = q1
  g1 = g1
  t1 = t1
  t2 = t2
  Email = Email
  None = None
  Users <- MCUsers
  Quotes <- MCQuotes
  Txns <- MCTxns
  DataItems <- MCDataItems
  Winc <- MCWinc
  Price <- MCPrice
  Dest <- MCDest
  MaxRefunds = 0
  MaxDeliveries = 1
CHECK_DEADLOCK FALSE
PROPERTIES
  Answered
  GiftsAnnounced

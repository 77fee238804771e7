SPECIFICATION Spec
CONSTANTS
  payer = payer
  payer2 = payer2
  owner = owner
  newcomer = newcomer
  name = name
  w1 = w1
  w2 = w2
  Users <- MCUsers
  KnownUsers <- MCKnownUsers
  Funds <- MCFunds
  Grant <- MCGrant
  Names <- MCNames
  Orders <- MCOrders
  Quotes <- MCQuotes
  Owner <- MCOwner
  Name <- MCName
  Intent <- MCIntent
  Price <- MCPrice
  PaidBy <- MCPaidBy
  Excess <- MCExcess
  Workers <- MCWorkers
  Loads <- MCLoads
CHECK_DEADLOCK FALSE
INVARIANTS
  TypeOK
  BoughtIsPaid
  PaidIsBought
  RefundedOrBought
  PaymentsAnswered
PROPERTIES
  CreditsConserved

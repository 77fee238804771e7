SPECIFICATION Spec
CONSTANTS
  payer = payer
  signer = signer
  a1 = a1
  a2 = a2
  d1 = d1
  t1 = t1
  t2 = t2
  None = None
  Users <- MCUsers
  Approvals <- MCApprovals
  PayingAddress <- MCPayingAddress
  ApprovedAddress <- MCApprovedAddress
  ApprovedWinc <- MCApprovedWinc
  Expiring <- MCExpiring
  DataItems <- MCDataItems
  Signer <- MCSigner
  PaidBy <- MCPaidBy
  ListOnly = {}
  Price <- MCPrice
  Funds <- MCFunds
  Txns <- MCTxns
  MaxCreates = 2
  MaxRefunds = 1
SYMMETRY Symmetry
CHECK_DEADLOCK FALSE
INVARIANTS
  TypeOK
  NothingOverdrawn
PROPERTIES
  OneTableButForInsertRace
  KeptButForTrim
  FinalButForRefund
  CreditsOnlyFromStaleTrim

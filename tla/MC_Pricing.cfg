SPECIFICATION Spec
CONSTANTS
  alice = alice
  bob = bob
  u1 = u1
  u2 = u2
  u3 = u3
  Users <- MCUsers
  Uploads <- MCUploads
  Bytes <- MCBytes
  Signer <- MCSigner
  PaidBy <- MCPaidBy
  UploadCatalogs <- MCUploadCatalogs
  PaymentCatalogs <- MCPaymentCatalogs
  PromoCatalogs <- MCPromoCatalogs
  NetworkPrices = {15, 20}
  TenGiB = 10
  Rates <- MCRates
  Currencies = {"usd", "gbp", "jpy"}
  StripeMinimum <- MCStripeMinimum
  ZeroDecimal = {"jpy"}
  Tokens = {"arweave", "ario", "kyve"}
  TokenUnits <- MCTokenUnits
  TokensWithoutFees = {"ario"}
  WincPerAR = 1000
  Amounts = {0, 55, 301, 9000}
  Quantities = {1, 3, 30, 99}
  Loads <- MCLoads
  Horizon = 2
CHECK_DEADLOCK FALSE
INVARIANTS
  TypeOK
  PricesAddUp
  LimitKept
  NameCostsTheSame

SPECIFICATION Spec
CONSTANTS
  alice = alice
  bob = bob
  q1 = q1
  q2 = q2
  q3 = q3
  once = once
  twice = twice
  welcome = welcome
  Users <- MCUsers
  Codes <- MCCodes
  Catalogs <- MCCatalogs
  Code <- MCCode
  Group <- MCGroup
  MaxUses <- MCMaxUses
  Start <- MCStart
  End <- MCEnd
  Minimum <- MCMinimum
  Amounts <- MCAmounts
  Quotes <- MCQuotes
  Validity = 0
  Horizon = 1
SYMMETRY Symmetry
CHECK_DEADLOCK FALSE
INVARIANTS
  TypeOK
  WithinMaxUses
  RedeemedOnce

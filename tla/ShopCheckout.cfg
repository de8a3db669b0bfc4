SPECIFICATION Spec
CONSTANTS
  r1 = r1
  r2 = r2
  r3 = r3
  r4 = r4
  cartA = cartA
  cartB = cartB
  noCart = noCart
  Requests <- MCRequests
  Carts <- MCCarts
  Malformed <- MCMalformed
  CartOf <- MCCartOf
  MaxFaults = 2
INVARIANTS
  TypeOK
  AtMostOneOrder
  NewAttemptIsSafe
  StageAheadOfWrites
  OneOutcome
  FailureUndone
PROPERTIES
  OkWhileOrderStands
  EveryCallAnswered
  KeepsPromise
CHECK_DEADLOCK FALSE

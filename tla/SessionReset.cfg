SPECIFICATION Spec
CONSTANTS
  n1 = n1
  n2 = n2
  n3 = n3
  a1 = a1
  a2 = a2
  i1 = i1
  i2 = i2
  deposit = deposit
  final = final
  Nobody = nobody
  NoRef = noref
  Notices = {n1}
  Intents = {i1, i2}
  Activations = {}
  Refs = {deposit, final}
  FinalRef = final
  RefOf <- MCRefOf
  AmountOf <- MCAmountOf
  Total = 3
  MaxAttempts = 2
  Reversals = FALSE
  LatePatches = FALSE
  MaxEvictions = 0
PROPERTIES
  MoneyTruthStays
CHECK_DEADLOCK FALSE

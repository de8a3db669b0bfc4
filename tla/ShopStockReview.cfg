SPECIFICATION Spec
CONSTANTS
  o1 = o1
  o2 = o2
  o3 = o3
  v1 = v1
  v2 = v2
  v3 = v3
  ref1 = ref1
  ref2 = ref2
  Nobody = nobody
  Orders = {o1, o2}
  Reviews = {v1}
  Admins = {a1}
  Target <- MCTarget
  KeyOf <- MCSameKey
  LastBatch = 2
  Initial <- MCInitial
  Need <- MCNeed
  OverlapReviews = FALSE
  MaxFaults = 0
INVARIANTS
  ReviewHoldsStock
CHECK_DEADLOCK FALSE

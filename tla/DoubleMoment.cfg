SPECIFICATION Spec
CONSTANTS
    c1 = c1
    c2 = c2
    j1 = j1
    j2 = j2
    j3 = j3
    None = None
    Claims = {c1, c2}
    Jobs = {j1, j2, j3}
    Active = {c2}
    Redeems <- MCRedeems
    Direct <- MCDirect
    Discounts <- MCDiscounts
    Extends <- MCExtends
    Term = 3
    Longest = 5
    Start = 2
    MaxMonth = 3
    Changing = {j2}
    Billable = {j1}
    MaxFaults = 1
CHECK_DEADLOCK FALSE
INVARIANTS
    TypeOK
    CreditsFollowJournal
    ExpiriesAgree
    BilledOnceForTheRest
    Resumable
PROPERTIES
    KeepsWallet

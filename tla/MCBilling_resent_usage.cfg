SPECIFICATION BillingSpec
CONSTANTS
    s1 = s1  u1 = u1  c1 = c1  c2 = c2
    Subscribers = {s1}
    ProviderSubs = {"bought"}
    BoughtBy <- BuysOne
    UsageKeys = {u1}
    Calls = {c1, c2}
    UsageOf <- OneQuantity
    MaxStatuses = 1
    MaxFaults = 1
    MaxTries = 1
INVARIANTS
    ReportedIsNotResent
CHECK_DEADLOCK FALSE

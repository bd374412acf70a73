SPECIFICATION FairSpec
CONSTANTS
    s1 = s1
    p1 = p1  p2 = p2
    o1 = o1  o2 = o2
    w1 = w1  w2 = w2  w3 = w3
    NoOrder = NoOrder
    NoPayment = NoPayment
    Sessions = {s1}
    Payments = {p1, p2}
    Orders = {o1, o2}
    Workers = {w1, w2, w3}
    SessionOf <- OneSession
    Matching = {p1, p2}
    ProviderSteps <- ApprovedSteps
    Faults = {"abort", "ackloss"}
    MaxFaults = 1
    MaxRedeliveries = 2
INVARIANTS
    ClaimNeverSurvives
    OneOrderPerSession
    PaymentAndOrderAgree
PROPERTIES
    ImplementsPromise
    RequestsEnd
    ApprovedGetsOrder
CHECK_DEADLOCK FALSE

SPECIFICATION FairSpec
CONSTANTS
    s1 = s1
    p1 = p1  p2 = p2
    o1 = o1  o2 = o2
    w1 = w1  w2 = w2  w3 = w3
    NoOrder = NoOrder
    NoPayment = NoPayment
    Sessions = {s1}
    Payments = {p1}
    Orders = {o1}
    Workers = {w1}
    SessionOf <- OnePayment
    Matching = {p1}
    ProviderSteps <- PendingFirst
    Faults = {}
    MaxFaults = 0
    MaxRedeliveries = 0
PROPERTIES
    ApprovedGetsOrder
CHECK_DEADLOCK FALSE

SPECIFICATION Spec
CONSTANTS
    s1 = s1
    p1 = p1  p2 = p2
    o1 = o1  o2 = o2
    w1 = w1  w2 = w2  w3 = w3
    NoOrder = NoOrder
    NoPayment = NoPayment
    Sessions = {s1}
    Payments = {p1, p2}
    Orders = {o1, o2}
    Workers = {w1, w2}
    SessionOf <- OneSession
    Matching = {p1}
    ProviderSteps <- AnySteps
    Faults = {"fetch", "refuse", "abort", "ackloss"}
    MaxFaults = 2
    MaxRedeliveries = 1
SYMMETRY Symmetric
INVARIANTS
    TypeOK
    SessionAndOrderAgree
    OrderIsBacked
    PaidShowsOrder
    MessageFitsItsPayment
PROPERTIES
    OrdersAreKept
    ShownOrderStays
    ImplementsPromise
CHECK_DEADLOCK FALSE

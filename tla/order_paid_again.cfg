SPECIFICATION Spec
CONSTANTS
    o1 = o1
    p1 = p1  p2 = p2
    t1 = t1  t2 = t2
    c1 = c1  c2 = c2
    w1 = w1  w2 = w2
    NoOrder = NoOrder
    NoPayment = NoPayment
    CheckoutPayment = CheckoutPayment
    Orders = {o1}
    Payments = {p1}
    OrderOf <- PaidOnce
    ProviderSteps <- ApprovedSteps
    Terminals = {t1}
    Checkouts = {c1, c2}
    Webhooks = {w1}
PROPERTIES
    PaidStaysPaid
CHECK_DEADLOCK FALSE

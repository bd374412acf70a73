SPECIFICATION FairSpec
CONSTANTS
    u1 = u1  c1 = c1
    r1 = r1  r2 = r2  r3 = r3  r4 = r4
    Guest = Guest
    NoCoupon = NoCoupon
    Users = {u1}
    Coupons = {c1}
    Requests = {r1, r2, r3, r4}
    Cart <- Carts
    Balance <- Some
    Used <- Unused
    MaxUses <- Thrice
INVARIANTS
    TypeOK
PROPERTIES
    ImplementsLedger
    CreationsEnd
CHECK_DEADLOCK FALSE

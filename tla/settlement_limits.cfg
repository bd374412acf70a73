SPECIFICATION Spec
CONSTANTS
    u1 = u1  c1 = c1
    r1 = r1  r2 = r2  r3 = r3  r4 = r4
    Guest = Guest
    NoCoupon = NoCoupon
    Users = {u1}
    Coupons = {c1}
    Requests = {r1, r2}
    Cart <- SameLimits
    Balance <- Some
    Used <- Unused
    MaxUses <- Once
INVARIANTS
    WithinLimits
CHECK_DEADLOCK FALSE

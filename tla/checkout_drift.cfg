SPECIFICATION Spec
CONSTANTS
    u1 = u1  u2 = u2  k1 = k1
    sA = sA  sB = sB  sC = sC  sD = sD
    near = near  far = far
    roll = roll  promo = promo  soy = soy  spicy = spicy  sauce = sauce  slot1 = slot1
    Refused = Refused  NotSold = Refused
    Guest = Guest  NoCoupon = NoCoupon  NoAddress = NoAddress
    NoCoordinates = NoCoordinates  NoSlot = NoSlot  Absent = Absent
    Products = {roll}
    Promotions = {promo}
    Options = {soy, spicy}
    Groups = {sauce}
    ProductOf <- ProductOfSauce
    GroupOf <- GroupOfOption
    Rule <- SauceRule
    SlotsOf <- PromoSlots
    Sessions = {sA, sB, sC, sD}
    Users = {u1, u2}
    Staff = {u2}
    Coupons = {k1}
    Addresses = {near, far}
    Cart <- Carts
    Subtotal <- ItemsSubtotal
    SourceRows <- RowsOf
    Catalogs <- Menus
    Owner <- Owners
    Distance <- Distances
    MaxUses <- OnceEach
    Balance <- SomePoints
    ClientFields <- AllOrNothing
    MaxEdits = 2
INVARIANTS
    TypeOK
    QuoteHonoured
    TotalIsAsked
    LimitsHold
    CouponSparesDelivery
    FeesFollowDistance
PROPERTIES
    RefusedForACause
    ImplementsPromise
CHECK_DEADLOCK FALSE

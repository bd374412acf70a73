--------------------------- MODULE Checkout_proofs ---------------------------
(***************************************************************************)
(* Theorems about Checkout, for any carts, catalogs, coupons, users and    *)
(* addresses, any number of sessions and any bound on the edits.           *)
(***************************************************************************)
EXTENDS Checkout, TLAPS

-----------------------------------------------------------------------------
(***************************************************************************)
(* The arithmetic of a price.                                              *)
(***************************************************************************)

\* The tier of a distance, written out.
LEMMA CalculateByCases ==
  ASSUME NEW d \in Nat
  PROVE  Calculate(d) = IF d <= 2000 THEN 990
                        ELSE IF d <= 4000 THEN 1490
                        ELSE IF d <= 6000 THEN 1990
                        ELSE IF d <= 8000 THEN 2490
                        ELSE IF d <= 10000 THEN 2990 ELSE 0
<1> DEFINE First == CHOOSE i \in Reaching(d) : \A j \in Reaching(d) : i <= j
<1>1. /\ Tiers[1].upTo = 2000 /\ Tiers[2].upTo = 4000 /\ Tiers[3].upTo = 6000
      /\ Tiers[4].upTo = 8000 /\ Tiers[5].upTo = 10000
      /\ Tiers[1].fee = 990 /\ Tiers[2].fee = 1490 /\ Tiers[3].fee = 1990
      /\ Tiers[4].fee = 2490 /\ Tiers[5].fee = 2990
  BY DEF Tiers
<1>2. /\ Reaching(d) \subseteq 1..5
      /\ 1 \in Reaching(d) <=> d <= 2000
      /\ 2 \in Reaching(d) <=> d <= 4000
      /\ 3 \in Reaching(d) <=> d <= 6000
      /\ 4 \in Reaching(d) <=> d <= 8000
      /\ 5 \in Reaching(d) <=> d <= 10000
  BY <1>1 DEF Reaching
<1>3. ASSUME NEW n \in Reaching(d), \A j \in Reaching(d) : n <= j
      PROVE  First = n
  <2>1. First \in Reaching(d) /\ \A j \in Reaching(d) : First <= j
    BY <1>3
  <2> QED BY <2>1, <1>2, <1>3
<1>4. Calculate(d) = IF Reaching(d) = {} THEN 0 ELSE Tiers[First].fee
  BY DEF Calculate, OutOfRangeFee
<1> HIDE DEF First
<1>5. CASE d <= 2000
  <2>1. First = 1
    BY <1>2, <1>3, <1>5
  <2> QED BY <2>1, <1>1, <1>2, <1>4, <1>5
<1>6. CASE d > 2000 /\ d <= 4000
  <2>1. First = 2
    BY <1>2, <1>3, <1>6
  <2> QED BY <2>1, <1>1, <1>2, <1>4, <1>6
<1>7. CASE d > 4000 /\ d <= 6000
  <2>1. First = 3
    BY <1>2, <1>3, <1>7
  <2> QED BY <2>1, <1>1, <1>2, <1>4, <1>7
<1>8. CASE d > 6000 /\ d <= 8000
  <2>1. First = 4
    BY <1>2, <1>3, <1>8
  <2> QED BY <2>1, <1>1, <1>2, <1>4, <1>8
<1>9. CASE d > 8000 /\ d <= 10000
  <2>1. First = 5
    BY <1>2, <1>3, <1>9
  <2> QED BY <2>1, <1>1, <1>2, <1>4, <1>9
<1>10. CASE d > 10000
  BY <1>2, <1>4, <1>10
<1> QED BY <1>5, <1>6, <1>7, <1>8, <1>9, <1>10

\* A fee within range is positive and grows with the distance (the code is
\* DeliveryFeeService.calculate).
THEOREM FeeGrows ==
  ASSUME NEW d \in Nat, NEW e \in Nat, d <= e, IsAvailable(e)
  PROVE  0 < Calculate(d) /\ Calculate(d) <= Calculate(e)
BY CalculateByCases DEF IsAvailable, MaxDelivery

\* A percentage up to 100 of an amount, rounded half to even, is not more than
\* the amount.
LEMMA RoundedPart ==
  ASSUME NEW n \in Nat, NEW v \in Nat, v <= 100
  PROVE  RoundHundredths(n * v) \in 0..n
<1> DEFINE m == n * v
<1>1. m \in Nat /\ m <= n * 100
  <2>1. n * v \in Nat
    OBVIOUS
  <2>2. n * (100 - v) >= 0
    OBVIOUS
  <2>3. n * (100 - v) = n * 100 - n * v
    OBVIOUS
  <2> QED BY <2>1, <2>2, <2>3
<1> HIDE DEF m
<1> DEFINE q == m \div 100
           r == m % 100
<1>2. q \in Nat /\ r \in 0..99 /\ m = 100 * q + r
  BY <1>1
<1>3. RoundHundredths(m) = IF r > 50 \/ (r = 50 /\ q % 2 = 1) THEN q + 1 ELSE q
  BY DEF RoundHundredths
<1> HIDE DEF q, r
<1>4. RoundHundredths(m) \in 0..n
  <2>1. CASE r > 50 \/ (r = 50 /\ q % 2 = 1)
    BY <2>1, <1>1, <1>2, <1>3
  <2>2. CASE ~(r > 50 \/ (r = 50 /\ q % 2 = 1))
    BY <2>2, <1>1, <1>2, <1>3
  <2> QED BY <2>1, <2>2
<1> QED BY <1>4 DEF m

\* A coupon takes something between nothing and all of the subtotal
\* (CouponValidationService.calculate_discount).
THEOREM CouponWithinSubtotal ==
  ASSUME NEW rule \in CouponRule, rule.percent => rule.value <= 100, NEW n \in Nat
  PROVE  CouponDiscount(rule, n) \in 0..n
<1>1. rule.value \in Nat
  BY DEF CouponRule
<1>2. CASE rule.percent
  BY <1>1, <1>2, RoundedPart DEF CouponDiscount
<1>3. CASE ~rule.percent
  BY <1>1, <1>3 DEF CouponDiscount, Lesser
<1> QED BY <1>2, <1>3

-----------------------------------------------------------------------------
(***************************************************************************)
(* The price of an accepted cart.                                          *)
(***************************************************************************)
LEMMA FeeIsNat ==
  ASSUME NEW s \in Sessions
  PROVE  Fee(s) \in Nat
<1> DEFINE a == Cart[s].address
<1>1. CASE a = NoAddress \/ Distance[a] = NoCoordinates
  BY <1>1 DEF Fee
<1>2. CASE a # NoAddress /\ Distance[a] # NoCoordinates
  <2>1. Distance[a] \in Nat
    BY <1>2, CartAssumption, TablesAssumption
  <2>2. Calculate(Distance[a]) \in Nat
    BY <2>1, CalculateByCases
  <2> QED BY <1>2, <2>2 DEF Fee
<1> QED BY <1>1, <1>2

LEMMA GoodsAreNat ==
  ASSUME catalog \in Catalogs, NEW s \in Sessions, GoodsPrice(s) # NotSold
  PROVE  GoodsPrice(s) \in Nat
BY CatalogAssumption DEF GoodsPrice

LEMMA CouponPartBounds ==
  ASSUME catalog \in Catalogs, NEW s \in Sessions, GoodsPrice(s) # NotSold
  PROVE  CouponPart(s) \in 0..GoodsPrice(s)
<1> DEFINE c == Cart[s].coupon
<1>1. GoodsPrice(s) \in Nat
  BY GoodsAreNat
<1>2. CASE c = NoCoupon
  BY <1>1, <1>2 DEF CouponPart
<1>3. CASE c # NoCoupon
  <2>1. c \in Coupons
    BY <1>3, CartAssumption
  <2>2. /\ catalog.coupon[c] \in CouponRule
        /\ catalog.coupon[c].percent => catalog.coupon[c].value <= 100
    BY <2>1, CatalogAssumption
  <2>3. CouponDiscount(catalog.coupon[c], GoodsPrice(s)) \in 0..GoodsPrice(s)
    BY <1>1, <2>2, CouponWithinSubtotal
  <2> QED BY <1>3, <2>3 DEF CouponPart
<1> QED BY <1>2, <1>3

\* The totals of an accepted cart are natural numbers; without points the total
\* is at least the delivery fee; MercadoPago is asked for the total.
LEMMA PricedTotals ==
  ASSUME catalog \in Catalogs, NEW s \in Sessions, GoodsPrice(s) # NotSold
  PROVE  /\ Priced(s) \in Quote
         /\ Total(s) \in Nat
         /\ Priced(s)["delivery_fee"] = Fee(s)
         /\ Cart[s].points = 0 => Priced(s)["total"] >= Priced(s)["delivery_fee"]
         /\ AskedFor(Priced(s)) = Priced(s)["total"]
<1>1. GoodsPrice(s) \in Nat /\ CouponPart(s) \in 0..GoodsPrice(s)
  BY GoodsAreNat, CouponPartBounds
<1>2. Fee(s) \in Nat /\ Cart[s].points \in Nat
  BY FeeIsNat, CartAssumption
<1>3. Discount(s) \in Nat
  BY <1>1, <1>2 DEF Discount
<1>4. Total(s) \in Nat
  BY <1>1, <1>2, <1>3 DEF Total
<1>5. Cart[s].points = 0 => Total(s) >= Fee(s)
  <2>1. CASE Cart[s].points = 0
    <3>1. Discount(s) = CouponPart(s)
      BY <1>1, <2>1 DEF Discount
    <3> QED BY <3>1, <1>1, <1>2 DEF Total
  <2> QED BY <2>1
<1>6. /\ Priced(s)["subtotal"] = GoodsPrice(s)
      /\ Priced(s)["delivery_fee"] = Fee(s)
      /\ Priced(s)["discount"] = Discount(s)
      /\ Priced(s)["total"] = Total(s)
  BY DEF Priced, Fields
<1>7. Priced(s) \in [Fields -> Nat]
  BY <1>1, <1>2, <1>3, <1>4 DEF Priced, Fields
<1>8. AskedFor(Priced(s)) = Priced(s)["total"]
  <2>1. Discount(s) = 0 => Total(s) = GoodsPrice(s) + Fee(s)
    BY <1>1, <1>2 DEF Total
  <2> QED BY <2>1, <1>3, <1>6 DEF AskedFor
<1> QED BY <1>4, <1>5, <1>6, <1>7, <1>8 DEF Quote

\* Known totals are not the absent ones.
LEMMA QuoteIsKnown == \A q \in Quote : q # NoQuote
<1> SUFFICES ASSUME NEW q \in Quote, q = NoQuote PROVE FALSE
  OBVIOUS
<1>1. q["total"] \in Nat
  BY DEF Quote, Fields
<1>2. NoQuote["total"] = Absent
  BY DEF NoQuote, Fields
<1> QED BY <1>1, <1>2, NullAssumption

-----------------------------------------------------------------------------
(***************************************************************************)
(* Type correctness.                                                       *)
(***************************************************************************)

LEMMA ConfirmedType ==
  ASSUME TypeOK, NEW s \in Sessions, NEW F \in ClientFields,
         F # {} => shown[s] # NoQuote
  PROVE  Confirmed(s, F) \in ClientTotals
<1>1. CASE shown[s] \in Quote
  BY <1>1 DEF Confirmed, ClientTotals, Quote
<1>2. CASE shown[s] = NoQuote
  BY <1>2 DEF Confirmed, ClientTotals, NoQuote
<1> QED BY <1>1, <1>2 DEF TypeOK

LEMMA PlaceOrderType ==
  ASSUME TypeOK, NEW s \in Sessions, Acceptable(s, Cart[s].user), PlaceOrder(s)
  PROVE  /\ orders' \in [Sessions -> Quote \cup {NoQuote}]
         /\ points' \in [Users -> Nat]
         /\ uses' \in [Coupons -> Nat]
<1>1. Priced(s) \in Quote /\ Total(s) \in Nat
  BY PricedTotals DEF Acceptable, TypeOK
<1>2. orders' \in [Sessions -> Quote \cup {NoQuote}]
  BY <1>1 DEF PlaceOrder, TypeOK
<1>3. points' \in [Users -> Nat]
  <2>1. CASE Cart[s].user = Guest
    BY <2>1 DEF PlaceOrder, TypeOK
  <2>2. CASE Cart[s].user # Guest
    <3>1. Cart[s].user \in Users /\ Cart[s].points \in Nat
      BY <2>2, CartAssumption
    <3>2. points[Cart[s].user] \in Nat /\ Cart[s].points <= points[Cart[s].user]
      BY <3>1 DEF TypeOK, Acceptable, PointsAccepted
    <3>3. Total(s) \div 100 \in Nat
      BY <1>1
    <3>4. NewBalance(s) \in Nat
      BY <3>1, <3>2, <3>3 DEF NewBalance
    <3> QED BY <2>2, <3>4 DEF PlaceOrder, TypeOK
  <2> QED BY <2>1, <2>2
<1>4. uses' \in [Coupons -> Nat]
  BY CartAssumption DEF PlaceOrder, TypeOK
<1> QED BY <1>2, <1>3, <1>4

LEMMA InitType == Init => TypeOK
BY TablesAssumption, NullAssumption
DEF Init, TypeOK, NoSession, SessionStatus, ClientTotals, NoQuote

LEMMA NextType == TypeOK /\ [Next]_vars => TypeOK'
<1> SUFFICES ASSUME TypeOK, [Next]_vars PROVE TypeOK'
  OBVIOUS
<1>1. ASSUME NEW s \in Sessions, Preview(s) PROVE TypeOK'
  <2>1. Priced(s) \in Quote
    BY <1>1, PricedTotals DEF Preview, Acceptable, TypeOK
  <2> QED BY <1>1, <2>1 DEF Preview, TypeOK
<1>2. ASSUME NEW s \in Sessions, CreateOrder(s) PROVE TypeOK'
  <2>1. /\ orders' \in [Sessions -> Quote \cup {NoQuote}]
        /\ points' \in [Users -> Nat]
        /\ uses' \in [Coupons -> Nat]
    BY <1>2, PlaceOrderType DEF CreateOrder, StillAcceptable, SessionUser
  <2>2. sess' \in [Sessions -> [status : SessionStatus, client : ClientTotals,
                                quote : Quote \cup {NoQuote}]]
    BY <1>2 DEF CreateOrder, TypeOK, SessionStatus
  <2> QED BY <1>2, <2>1, <2>2 DEF CreateOrder, PlaceOrder, TypeOK
<1>3. ASSUME NEW s \in Sessions, RefuseOrder(s) PROVE TypeOK'
  BY <1>3 DEF RefuseOrder, TypeOK, SessionStatus
<1>4. ASSUME NEW s \in Sessions, NEW F \in ClientFields, OpenCheckout(s, F)
      PROVE  TypeOK'
  <2>1. Priced(s) \in Quote
    BY <1>4, PricedTotals DEF OpenCheckout, Confirms, Acceptable, TypeOK
  <2>2. Confirmed(s, F) \in ClientTotals
    BY <1>4, ConfirmedType DEF OpenCheckout, Confirms
  <2>3. DOMAIN sources' = Sessions
    BY <1>4 DEF OpenCheckout, TypeOK
  <2> QED BY <1>4, <2>1, <2>2, <2>3 DEF OpenCheckout, LeaveScreen, TypeOK, SessionStatus
<1>5. ASSUME NEW s \in Sessions, NEW F \in ClientFields, StaffOrder(s, F)
      PROVE  TypeOK'
  <2>1. Priced(s) \in Quote
    BY <1>5, PricedTotals DEF StaffOrder, Confirms, Acceptable, TypeOK
  <2>2. Confirmed(s, F) \in ClientTotals
    BY <1>5, ConfirmedType DEF StaffOrder, Confirms
  <2>3. /\ orders' \in [Sessions -> Quote \cup {NoQuote}]
        /\ points' \in [Users -> Nat]
        /\ uses' \in [Coupons -> Nat]
    BY <1>5, PlaceOrderType DEF StaffOrder, Confirms
  <2>4. sess' \in [Sessions -> [status : SessionStatus, client : ClientTotals,
                                quote : Quote \cup {NoQuote}]]
    BY <1>5, <2>1, <2>2 DEF StaffOrder, TypeOK, SessionStatus
  <2> QED BY <1>5, <2>3, <2>4 DEF StaffOrder, LeaveScreen, PlaceOrder, TypeOK
<1>6. ASSUME NEW a \in Addresses, AddAddress(a) \/ DeleteAddress(a) PROVE TypeOK'
  BY <1>6 DEF AddAddress, DeleteAddress, TypeOK
<1>7. ASSUME EditCatalog PROVE TypeOK'
  BY <1>7, TablesAssumption DEF EditCatalog, TypeOK
<1>8. ASSUME UNCHANGED vars PROVE TypeOK'
  BY <1>8 DEF vars, TypeOK
<1> QED BY <1>1, <1>2, <1>3, <1>4, <1>5, <1>6, <1>7, <1>8 DEF Next

\* Totals, points and counts stay in their domains, points above zero among
\* them, for any shop.
THEOREM TypeCorrect == Spec => []TypeOK
<1> QED BY InitType, NextType, PTL DEF Spec

-----------------------------------------------------------------------------
(***************************************************************************)
(* The inductive invariant.  None of the properties is inductive alone:    *)
(* that an order says what the session said follows from both agreeing     *)
(* with what the client confirmed, and that needs to know that an order    *)
(* comes after its session.                                                *)
(***************************************************************************)

\* What an order shows, whatever is changed after it.
OrderSound(s) ==
    /\ sess[s].status \in {"ordered", "direct"}
    /\ Agrees(sess[s].client, orders[s])
    /\ orders[s]["delivery_fee"] = Fee(s)
    /\ Cart[s].points = 0 => orders[s]["total"] >= orders[s]["delivery_fee"]

SessionSound(s) ==
    /\ sess[s].status # "none" =>
         /\ Agrees(sess[s].client, sess[s].quote)
         /\ AskedFor(sess[s].quote) = sess[s].quote["total"]
    /\ Ordered(s) => OrderSound(s)

UsesWithin == \A c \in Coupons : MaxUses[c] > 0 => uses[c] <= MaxUses[c]

Inv ==
    /\ TypeOK
    /\ UsesWithin
    /\ \A s \in Sessions : SessionSound(s)

LEMMA InitInv == Init => Inv
<1> SUFFICES ASSUME Init PROVE Inv
  OBVIOUS
<1>1. TypeOK
  BY InitType
<1>2. UsesWithin
  BY TablesAssumption DEF Init, UsesWithin
<1>3. \A s \in Sessions : SessionSound(s)
  BY DEF Init, SessionSound, Ordered, NoSession
<1> QED BY <1>1, <1>2, <1>3 DEF Inv

\* A cart that is ordered as the client confirmed gives a sound order.
LEMMA PlacedIsSound ==
  ASSUME Inv, NEW s \in Sessions, Acceptable(s, Cart[s].user), PlaceOrder(s),
         Agrees(sess'[s].client, Priced(s)),
         Agrees(sess'[s].client, sess'[s].quote),
         AskedFor(sess'[s].quote) = sess'[s].quote["total"],
         sess'[s].status \in {"ordered", "direct"},
         \A t \in Sessions \ {s} : sess'[t] = sess[t]
  PROVE  /\ UsesWithin'
         /\ \A t \in Sessions : SessionSound(t)'
<1>1. orders'[s] = Priced(s)
  BY DEF PlaceOrder, Inv, TypeOK
<1>2. /\ Priced(s)["delivery_fee"] = Fee(s)
      /\ Cart[s].points = 0 => Priced(s)["total"] >= Priced(s)["delivery_fee"]
  BY PricedTotals DEF Acceptable, Inv, TypeOK
<1>3. \A t \in Sessions : Fee(t)' = Fee(t)
  BY DEF Fee
<1>4. SessionSound(s)'
  BY <1>1, <1>2, <1>3 DEF SessionSound, OrderSound, Agrees, AskedFor
<1>5. ASSUME NEW t \in Sessions, t # s PROVE SessionSound(t)'
  <2>1. orders'[t] = orders[t] /\ sess'[t] = sess[t]
    BY <1>5 DEF PlaceOrder, Inv, TypeOK
  <2> QED BY <2>1, <1>3, <1>5 DEF Inv, SessionSound, OrderSound, Ordered, Agrees, AskedFor
<1>6. UsesWithin'
  <2> SUFFICES ASSUME NEW c \in Coupons, MaxUses[c] > 0
               PROVE  uses'[c] <= MaxUses[c]
    BY DEF UsesWithin
  <2>1. CASE Cart[s].coupon = c
    <3>1. c # NoCoupon
      BY NullAssumption
    <3>2. uses[c] < MaxUses[c]
      BY <2>1, <3>1 DEF Acceptable, CouponAccepted, UseLeft
    <3>3. uses'[c] = uses[c] + 1
      BY <2>1, <3>1 DEF PlaceOrder, Inv, TypeOK
    <3> QED BY <3>2, <3>3, TablesAssumption DEF Inv, TypeOK
  <2>2. CASE Cart[s].coupon # c
    <3>1. uses'[c] = uses[c]
      BY <2>2 DEF PlaceOrder, Inv, TypeOK
    <3> QED BY <3>1 DEF Inv, UsesWithin
  <2> QED BY <2>1, <2>2
<1> QED BY <1>4, <1>5, <1>6

\* A step that leaves orders, coupons and every session's totals alone.
LEMMA OrdersUntouched ==
  ASSUME Inv, UNCHANGED <<uses, orders>>,
         \A t \in Sessions :
           /\ sess'[t].client = sess[t].client
           /\ sess'[t].quote = sess[t].quote
           /\ \/ sess'[t].status = sess[t].status
              \/ (sess[t].status = "open" /\ sess'[t].status = "refused")
  PROVE  UsesWithin' /\ \A t \in Sessions : SessionSound(t)'
<1>1. \A t \in Sessions : Fee(t)' = Fee(t)
  BY DEF Fee
<1>2. UsesWithin'
  BY DEF Inv, UsesWithin
<1>3. ASSUME NEW t \in Sessions PROVE SessionSound(t)'
  BY <1>1, <1>3 DEF Inv, SessionSound, OrderSound, Ordered, Agrees, AskedFor
<1> QED BY <1>2, <1>3

LEMMA NextInv == Inv /\ [Next]_vars => Inv'
<1> SUFFICES ASSUME Inv, [Next]_vars PROVE Inv'
  OBVIOUS
<1> DEFINE Sound == UsesWithin' /\ \A t \in Sessions : SessionSound(t)'
<1>0. TypeOK'
  BY NextType DEF Inv
<1>1. ASSUME NEW s \in Sessions, CreateOrder(s) PROVE Sound
  <2>1. /\ Acceptable(s, Cart[s].user)
        /\ Agrees(sess[s].client, Priced(s))
        /\ PlaceOrder(s)
    BY <1>1 DEF CreateOrder, StillAcceptable, SessionUser
  <2>2. /\ sess'[s].status = "ordered"
        /\ sess'[s].client = sess[s].client
        /\ sess'[s].quote = sess[s].quote
        /\ \A t \in Sessions \ {s} : sess'[t] = sess[t]
    BY <1>1 DEF CreateOrder, Inv, TypeOK
  <2>3. /\ Agrees(sess[s].client, sess[s].quote)
        /\ AskedFor(sess[s].quote) = sess[s].quote["total"]
    BY <1>1 DEF CreateOrder, Inv, SessionSound
  <2> QED BY <2>1, <2>2, <2>3, PlacedIsSound
<1>2. ASSUME NEW s \in Sessions, RefuseOrder(s) PROVE Sound
  <2>1. /\ UNCHANGED <<uses, orders>>
        /\ \A t \in Sessions :
             /\ sess'[t].client = sess[t].client
             /\ sess'[t].quote = sess[t].quote
             /\ \/ sess'[t].status = sess[t].status
                \/ (sess[t].status = "open" /\ sess'[t].status = "refused")
    BY <1>2 DEF RefuseOrder, Inv, TypeOK
  <2> QED BY <2>1, OrdersUntouched
<1>3. ASSUME NEW s \in Sessions, NEW F \in ClientFields, OpenCheckout(s, F)
      PROVE  Sound
  <2>1. /\ sess'[s].client = Confirmed(s, F)
        /\ sess'[s].quote = Priced(s)
        /\ \A t \in Sessions \ {s} : sess'[t] = sess[t]
        /\ UNCHANGED <<uses, orders>>
        /\ Agrees(Confirmed(s, F), Priced(s))
        /\ ~Ordered(s)
    BY <1>3 DEF OpenCheckout, Confirms, Inv, TypeOK, SessionSound, OrderSound
  <2>2. \A t \in Sessions : Fee(t)' = Fee(t)
    BY DEF Fee
  <2>3. SessionSound(s)'
    <3>1. AskedFor(Priced(s)) = Priced(s)["total"]
      BY <1>3, PricedTotals DEF OpenCheckout, Confirms, Acceptable, Inv, TypeOK
    <3> QED BY <2>1, <3>1 DEF SessionSound, Agrees, AskedFor, Ordered
  <2>4. ASSUME NEW t \in Sessions, t # s PROVE SessionSound(t)'
    BY <2>1, <2>2, <2>4 DEF Inv, SessionSound, OrderSound, Ordered, Agrees, AskedFor
  <2>5. UsesWithin'
    BY <2>1 DEF Inv, UsesWithin
  <2> QED BY <2>3, <2>4, <2>5
<1>4. ASSUME NEW s \in Sessions, NEW F \in ClientFields, StaffOrder(s, F)
      PROVE  Sound
  <2>1. /\ Acceptable(s, Cart[s].user)
        /\ Agrees(Confirmed(s, F), Priced(s))
        /\ PlaceOrder(s)
    BY <1>4 DEF StaffOrder, Confirms
  <2>2. /\ sess'[s].status = "direct"
        /\ sess'[s].client = Confirmed(s, F)
        /\ sess'[s].quote = Priced(s)
        /\ \A t \in Sessions \ {s} : sess'[t] = sess[t]
    BY <1>4 DEF StaffOrder, Inv, TypeOK
  <2>3. AskedFor(Priced(s)) = Priced(s)["total"]
    BY <2>1, PricedTotals DEF Acceptable, Inv, TypeOK
  <2> QED BY <2>1, <2>2, <2>3, PlacedIsSound
<1>5. ASSUME UNCHANGED <<uses, sess, orders>> PROVE Sound
  BY <1>5, OrdersUntouched
<1>6. Sound
  <2>1. ASSUME NEW s \in Sessions, Preview(s) PROVE Sound
    BY <1>5, <2>1 DEF Preview
  <2>2. ASSUME NEW a \in Addresses, AddAddress(a) \/ DeleteAddress(a) PROVE Sound
    BY <1>5, <2>2 DEF AddAddress, DeleteAddress
  <2>3. ASSUME EditCatalog \/ UNCHANGED vars PROVE Sound
    BY <1>5, <2>3 DEF EditCatalog, vars
  <2> HIDE DEF Sound
  <2> QED BY <1>1, <1>2, <1>3, <1>4, <2>1, <2>2, <2>3 DEF Next
<1> QED BY <1>0, <1>6 DEF Inv

THEOREM Invariance == Spec => []Inv
<1> QED BY InitInv, NextInv, PTL DEF Spec

-----------------------------------------------------------------------------
(***************************************************************************)
(* What the invariant means.                                               *)
(***************************************************************************)

\* A total the customer confirmed is the session's and the order's, in any
\* shop and however often it is edited.
THEOREM ConfirmedTotalsAreHonoured == Spec => []QuoteHonoured
<1>1. Inv => QuoteHonoured
  BY DEF Inv, SessionSound, OrderSound, QuoteHonoured, Agrees
<1> QED BY <1>1, Invariance, PTL

\* The items sent to MercadoPago add up to the total a payment is compared with.
THEOREM TheTotalIsAsked == Spec => []TotalIsAsked
<1>1. Inv => TotalIsAsked
  BY DEF Inv, SessionSound, TotalIsAsked
<1> QED BY <1>1, Invariance, PTL

\* Without overlapping requests, points and coupons keep their limits.
THEOREM SequentialLimits == Spec => []LimitsHold
<1>1. Inv => LimitsHold
  BY DEF Inv, TypeOK, UsesWithin, LimitsHold
<1> QED BY <1>1, Invariance, PTL

\* No coupon pays for a delivery.
THEOREM DeliveryIsNotDiscounted == Spec => []CouponSparesDelivery
<1>1. Inv => CouponSparesDelivery
  BY DEF Inv, SessionSound, OrderSound, CouponSparesDelivery
<1> QED BY <1>1, Invariance, PTL

\* Deliveries within range cost a fee that grows with the distance.
THEOREM DeliveryFeesGrow == Spec => []FeesFollowDistance
<1>1. ASSUME Inv PROVE FeesFollowDistance
  <2>1. ASSUME NEW s \in Sessions, InRange(s)
        PROVE  /\ Distance[Cart[s].address] \in Nat
               /\ IsAvailable(Distance[Cart[s].address])
               /\ orders[s]["delivery_fee"] = Calculate(Distance[Cart[s].address])
    <3>1. Cart[s].address \in Addresses /\ Distance[Cart[s].address] # NoCoordinates
      BY <2>1, CartAssumption DEF InRange
    <3>2. orders[s]["delivery_fee"] = Fee(s)
      BY <1>1, <2>1 DEF Inv, SessionSound, OrderSound, InRange
    <3> QED BY <2>1, <3>1, <3>2, TablesAssumption DEF InRange, Fee
  <2>2. ASSUME NEW s \in Sessions, InRange(s) PROVE orders[s]["delivery_fee"] > 0
    <3>1. 0 < Calculate(Distance[Cart[s].address])
      BY <2>1, <2>2, FeeGrows
    <3>2. Calculate(Distance[Cart[s].address]) \in Nat
      BY <2>1, <2>2, CalculateByCases
    <3> QED BY <2>1, <2>2, <3>1, <3>2
  <2>3. ASSUME NEW s \in Sessions, NEW t \in Sessions, InRange(s), InRange(t),
               Distance[Cart[s].address] <= Distance[Cart[t].address]
        PROVE  orders[s]["delivery_fee"] <= orders[t]["delivery_fee"]
    BY <2>1, <2>3, FeeGrows
  <2> QED BY <2>2, <2>3 DEF FeesFollowDistance
<1> QED BY <1>1, Invariance, PTL

-----------------------------------------------------------------------------
(***************************************************************************)
(* A refusal has a cause.  The invariant remembers the catalog k a session *)
(* was priced from: an unchanged cart has its rows of k still, although    *)
(* the rest of the catalog may be another.                                 *)
(***************************************************************************)
GoodsIn(k, s) == Subtotal(k, Cart[s].lines)

SourcesIn(k, s) ==
    [goods |-> SourceRows(k, Cart[s].lines),
     coupon |-> IF Cart[s].coupon = NoCoupon THEN NoCoupon
                                             ELSE k.coupon[Cart[s].coupon]]

CouponPartIn(k, s) ==
    IF Cart[s].coupon = NoCoupon THEN 0
    ELSE CouponDiscount(k.coupon[Cart[s].coupon], GoodsIn(k, s))

DueIn(k, s) == GoodsIn(k, s) + Fee(s) - (CouponPartIn(k, s) + Cart[s].points)

PricedIn(k, s) ==
    [f \in Fields |->
       CASE f = "subtotal" -> GoodsIn(k, s)
         [] f = "delivery_fee" -> Fee(s)
         [] f = "discount" -> CouponPartIn(k, s) + Cart[s].points
         [] f = "total" -> IF DueIn(k, s) > 0 THEN DueIn(k, s) ELSE 0]

CouponRuleMet(k, s) ==
    Cart[s].coupon # NoCoupon =>
      /\ k.coupon[Cart[s].coupon].active
      /\ GoodsIn(k, s) >= k.coupon[Cart[s].coupon].minimum

Origin(k, s) ==
    /\ sources[s] = SourcesIn(k, s)
    /\ GoodsIn(k, s) # NotSold
    /\ CouponRuleMet(k, s)
    /\ sess[s].quote = PricedIn(k, s)

AddressKnown(s) ==
    Cart[s].address # NoAddress =>
      /\ saved[Cart[s].address] \in {"yes", "deleted"}
      /\ Owner[Cart[s].address] \in {Guest, Cart[s].user}

OpenIsKnown(s) ==
    /\ \E k \in Catalogs : Origin(k, s)
    /\ Cart[s].points > 0 => Cart[s].user # Guest
    /\ AddressKnown(s)

OriginInv == \A s \in Sessions : sess[s].status = "open" => OpenIsKnown(s)

\* The price of now is the price in the catalog of now.
LEMMA PricedNow ==
  ASSUME NEW s \in Sessions
  PROVE  /\ Priced(s) = PricedIn(catalog, s)
         /\ Sources(s) = SourcesIn(catalog, s)
         /\ GoodsPrice(s) = GoodsIn(catalog, s)
<1>1. GoodsPrice(s) = GoodsIn(catalog, s)
  BY DEF GoodsPrice, GoodsIn
<1>2. Discount(s) = CouponPartIn(catalog, s) + Cart[s].points
  BY <1>1 DEF Discount, CouponPart, CouponPartIn
<1>3. Total(s) = IF DueIn(catalog, s) > 0 THEN DueIn(catalog, s) ELSE 0
  BY <1>1, <1>2 DEF Total, DueIn
<1>4. Priced(s) = PricedIn(catalog, s)
  BY <1>1, <1>2, <1>3 DEF Priced, PricedIn
<1>5. Sources(s) = SourcesIn(catalog, s)
  BY DEF Sources, SourcesIn
<1> QED BY <1>1, <1>4, <1>5

\* Two catalogs with the same rows give a cart the same price.
LEMMA SameSourcesSamePrice ==
  ASSUME NEW k \in Catalogs, NEW l \in Catalogs, NEW s \in Sessions,
         SourcesIn(k, s) = SourcesIn(l, s)
  PROVE  /\ GoodsIn(k, s) = GoodsIn(l, s)
         /\ PricedIn(k, s) = PricedIn(l, s)
         /\ CouponRuleMet(k, s) <=> CouponRuleMet(l, s)
<1>1. SourceRows(k, Cart[s].lines) = SourceRows(l, Cart[s].lines)
  BY DEF SourcesIn
<1>2. Cart[s].coupon # NoCoupon => k.coupon[Cart[s].coupon] = l.coupon[Cart[s].coupon]
  BY DEF SourcesIn
<1>3. GoodsIn(k, s) = GoodsIn(l, s)
  BY <1>1, SourceAssumption DEF GoodsIn
<1>4. CouponPartIn(k, s) = CouponPartIn(l, s)
  BY <1>2, <1>3 DEF CouponPartIn
<1>5. DueIn(k, s) = DueIn(l, s)
  BY <1>3, <1>4 DEF DueIn
<1>6. PricedIn(k, s) = PricedIn(l, s)
  BY <1>3, <1>4, <1>5 DEF PricedIn
<1>7. CouponRuleMet(k, s) <=> CouponRuleMet(l, s)
  BY <1>2, <1>3 DEF CouponRuleMet
<1> QED BY <1>3, <1>6, <1>7

LEMMA OpenedIsKnown ==
  ASSUME TypeOK, NEW s \in Sessions, NEW F \in ClientFields, OpenCheckout(s, F)
  PROVE  OpenIsKnown(s)'
<1>1. /\ Acceptable(s, Cart[s].user)
      /\ sources'[s] = Sources(s)
      /\ sess'[s].quote = Priced(s)
      /\ saved' = saved
  BY DEF OpenCheckout, Confirms, TypeOK
<1>2. Origin(catalog, s)'
  <2>1. Fee(s)' = Fee(s)
    BY DEF Fee
  <2>2. CouponRuleMet(catalog, s)
    BY <1>1, PricedNow DEF Acceptable, CouponAccepted, CouponRuleMet
  <2>3. GoodsIn(catalog, s) # NotSold
    BY <1>1, PricedNow DEF Acceptable
  <2>4. catalog' = catalog
    BY DEF OpenCheckout
  <2>5. sources'[s] = SourcesIn(catalog, s) /\ sess'[s].quote = PricedIn(catalog, s)
    BY <1>1, PricedNow
  <2> QED BY <2>2, <2>3, <2>4, <2>5 DEF Origin
<1>3. AddressKnown(s)'
  BY <1>1 DEF Acceptable, AddressAccepted, AddressKnown
<1>4. Cart[s].points > 0 => Cart[s].user # Guest
  BY <1>1 DEF Acceptable, PointsAccepted
<1>5. catalog' \in Catalogs
  BY DEF OpenCheckout, TypeOK
<1> QED BY <1>2, <1>3, <1>4, <1>5 DEF OpenIsKnown

\* What is known of an open session stays known.
LEMMA StaysKnown ==
  ASSUME NEW s \in Sessions, OpenIsKnown(s), sources'[s] = sources[s],
         sess'[s].quote = sess[s].quote,
         Cart[s].address # NoAddress /\ saved[Cart[s].address] \in {"yes", "deleted"} =>
           saved'[Cart[s].address] \in {"yes", "deleted"}
  PROVE  OpenIsKnown(s)'
<1>1. PICK k \in Catalogs : Origin(k, s)
  BY DEF OpenIsKnown
<1>2. Origin(k, s)'
  BY <1>1 DEF Origin
<1>3. AddressKnown(s)'
  BY DEF OpenIsKnown, AddressKnown
<1> QED BY <1>2, <1>3 DEF OpenIsKnown

LEMMA NextOrigin == TypeOK /\ OriginInv /\ [Next]_vars => OriginInv'
<1> SUFFICES ASSUME TypeOK, OriginInv, [Next]_vars,
                    NEW s \in Sessions, sess'[s].status = "open"
             PROVE  OpenIsKnown(s)'
  BY DEF OriginInv
<1>1. ASSUME NEW F \in ClientFields, OpenCheckout(s, F) PROVE OpenIsKnown(s)'
  BY <1>1, OpenedIsKnown
<1> DEFINE Kept == /\ sess[s].status = "open"
                   /\ sess'[s].quote = sess[s].quote
                   /\ sources'[s] = sources[s]
                   /\ \A a \in Addresses :
                        saved[a] \in {"yes", "deleted"} =>
                          saved'[a] \in {"yes", "deleted"}
<1>2. ASSUME ~ \E F \in ClientFields : OpenCheckout(s, F) PROVE Kept
  <2>1. ASSUME NEW t \in Sessions, Preview(t) PROVE Kept
    BY <2>1 DEF Preview
  <2>2. ASSUME NEW t \in Sessions, CreateOrder(t) PROVE Kept
    BY <2>2 DEF CreateOrder, PlaceOrder, TypeOK
  <2>3. ASSUME NEW t \in Sessions, RefuseOrder(t) PROVE Kept
    BY <2>3 DEF RefuseOrder, TypeOK
  <2>4. ASSUME NEW t \in Sessions, NEW F \in ClientFields, OpenCheckout(t, F)
        PROVE  Kept
    <3>1. t # s
      BY <1>2, <2>4
    <3> QED BY <2>4, <3>1 DEF OpenCheckout, TypeOK
  <2>5. ASSUME NEW t \in Sessions, NEW F \in ClientFields, StaffOrder(t, F)
        PROVE  Kept
    BY <2>5 DEF StaffOrder, PlaceOrder, TypeOK
  <2>6. ASSUME NEW a \in Addresses, AddAddress(a) \/ DeleteAddress(a) PROVE Kept
    BY <2>6 DEF AddAddress, DeleteAddress, TypeOK
  <2>7. ASSUME EditCatalog \/ UNCHANGED vars PROVE Kept
    BY <2>7 DEF EditCatalog, vars
  <2> QED BY <2>1, <2>2, <2>3, <2>4, <2>5, <2>6, <2>7 DEF Next
<1>3. ASSUME ~ \E F \in ClientFields : OpenCheckout(s, F) PROVE OpenIsKnown(s)'
  <2>1. OpenIsKnown(s)
    BY <1>2, <1>3 DEF OriginInv
  <2>2. Cart[s].address # NoAddress => Cart[s].address \in Addresses
    BY CartAssumption
  <2> QED BY <1>2, <1>3, <2>1, <2>2, StaysKnown
<1> QED BY <1>1, <1>3

LEMMA RefusalCause ==
  ASSUME Inv, OriginInv, NEW s \in Sessions, RefuseOrder(s)
  PROVE  Cause(s)
<1> SUFFICES ASSUME ~Cause(s) PROVE StillAcceptable(s)
  BY DEF RefuseOrder
<1>1. sess[s].status = "open" /\ OpenIsKnown(s)
  BY DEF RefuseOrder, OriginInv
<1>2. PICK k \in Catalogs : Origin(k, s)
  BY <1>1 DEF OpenIsKnown
<1>3. catalog \in Catalogs
  BY DEF Inv, TypeOK
<1>4. SourcesIn(k, s) = SourcesIn(catalog, s)
  BY <1>2, PricedNow DEF Cause, Origin
<1>5. /\ GoodsIn(k, s) = GoodsIn(catalog, s)
      /\ PricedIn(k, s) = PricedIn(catalog, s)
      /\ CouponRuleMet(catalog, s)
  BY <1>2, <1>3, <1>4, SameSourcesSamePrice DEF Origin
<1>6. Priced(s) = sess[s].quote /\ GoodsPrice(s) # NotSold
  BY <1>2, <1>5, PricedNow DEF Origin
<1>7. Agrees(sess[s].client, Priced(s))
  BY <1>1, <1>6 DEF Inv, SessionSound
<1>8. AddressAccepted(s, SessionUser(s))
  BY <1>1 DEF OpenIsKnown, AddressKnown, AddressAccepted, Cause, SessionUser
<1>9. CouponAccepted(s)
  <2>1. CASE Cart[s].coupon = NoCoupon
    BY <2>1 DEF CouponAccepted
  <2>2. CASE Cart[s].coupon # NoCoupon
    <3>1. uses[Cart[s].coupon] \in Nat /\ MaxUses[Cart[s].coupon] \in Nat
      BY <2>2, CartAssumption, TablesAssumption DEF Inv, TypeOK
    <3>2. UseLeft(Cart[s].coupon)
      BY <2>2, <3>1 DEF Cause, UseLeft
    <3> QED BY <1>5, <2>2, <3>2, PricedNow DEF CouponRuleMet, CouponAccepted
  <2> QED BY <2>1, <2>2
<1>10. PointsAccepted(s, SessionUser(s))
  <2>1. CASE Cart[s].points > 0
    <3>1. Cart[s].user \in Users /\ Cart[s].points \in Nat
      BY <1>1, <2>1, CartAssumption DEF OpenIsKnown
    <3>2. points[Cart[s].user] \in Nat
      BY <3>1 DEF Inv, TypeOK
    <3> QED BY <3>1, <3>2, NullAssumption DEF Cause, PointsAccepted, SessionUser
  <2>2. CASE ~(Cart[s].points > 0)
    BY <2>2 DEF PointsAccepted
  <2> QED BY <2>1, <2>2
<1> QED BY <1>6, <1>7, <1>8, <1>9, <1>10 DEF StillAcceptable, Acceptable

\* A paid cart is refused only because a row it was priced from, its coupon's
\* last use, its user's points or its address is gone or changed.
THEOREM RefusalsHaveACause == Spec => RefusedForACause
<1>1. Init => OriginInv
  BY DEF Init, OriginInv, NoSession
<1>2. ASSUME Inv, OriginInv, [Next]_vars, NEW s \in Sessions,
             sess[s].status = "open", sess'[s].status = "refused"
      PROVE  Cause(s)
  <2>1. ASSUME NEW t \in Sessions, RefuseOrder(t) PROVE Cause(s)
    <3>1. t = s
      BY <1>2, <2>1 DEF RefuseOrder, Inv, TypeOK
    <3> QED BY <1>2, <2>1, <3>1, RefusalCause
  <2>2. ASSUME NEW t \in Sessions, CreateOrder(t) PROVE FALSE
    BY <1>2, <2>2 DEF CreateOrder, Inv, TypeOK
  <2>3. ASSUME NEW t \in Sessions, NEW F \in ClientFields,
               OpenCheckout(t, F) \/ StaffOrder(t, F)
        PROVE  FALSE
    BY <1>2, <2>3 DEF OpenCheckout, StaffOrder, Inv, TypeOK
  <2>4. ASSUME UNCHANGED sess PROVE FALSE
    BY <1>2, <2>4
  <2> QED
    BY <1>2, <2>1, <2>2, <2>3, <2>4
    DEF Next, Preview, AddAddress, DeleteAddress, EditCatalog, vars
<1>3. Inv /\ OriginInv /\ [Next]_vars =>
        [\A s \in Sessions :
           sess[s].status = "open" /\ sess'[s].status = "refused" => Cause(s)]_vars
  BY <1>2
<1>4. Inv => TypeOK
  BY DEF Inv
<1> QED BY <1>1, <1>3, <1>4, NextOrigin, Invariance, PTL DEF Spec, RefusedForACause

-----------------------------------------------------------------------------
(***************************************************************************)
(* The abstract specification: every step of Checkout is a step of         *)
(* CartPromise or leaves its variables alone.                              *)
(***************************************************************************)

\* The totals of CartPromise are those of Checkout.
LEMMA SameTotals ==
  /\ Promise!Totals = Fields
  /\ Promise!Amounts = Quote
  /\ Promise!Nothing = NoQuote
BY DEF Promise!Totals, Fields, Promise!Amounts, Quote, Promise!Nothing, NoQuote

\* What agrees with the totals of a cart is a confirmation of them.
LEMMA AgreedIsConfirmed ==
  ASSUME NEW client \in ClientTotals, NEW amounts, Agrees(client, amounts)
  PROVE  Promise!Confirmed(client, amounts)
BY SameTotals DEF Promise!Confirmed, ClientTotals, Agrees

\* A new row of checkout_sessions has the totals its client has confirmed.
LEMMA StoredRow ==
  ASSUME TypeOK, NEW s \in Sessions, NEW F \in ClientFields, NEW status,
         sess[s].status = "none", Confirms(s, F),
         sess' = [sess EXCEPT ![s] = [status |-> status, client |-> Confirmed(s, F),
                                      quote |-> Priced(s)]]
  PROVE  Promise!Stored(s, status)
<1>1. Priced(s) \in Quote
  BY PricedTotals DEF Confirms, Acceptable, TypeOK
<1>2. Confirmed(s, F) \in ClientTotals
  BY ConfirmedType DEF Confirms
<1>3. Promise!Confirmed(Confirmed(s, F), Priced(s))
  BY <1>2, AgreedIsConfirmed DEF Confirms
<1>4. sess'[s] = [status |-> status, client |-> Confirmed(s, F), quote |-> Priced(s)]
  BY DEF TypeOK
<1>5. \A t \in Sessions \ {s} : sess'[t] = sess[t]
  BY DEF TypeOK
<1> QED BY <1>1, <1>3, <1>4, <1>5, SameTotals DEF Promise!Stored

\* With the order of an accepted cart the points move by what it spends and what
\* it earns, and its coupon is used.
LEMMA PlacedIsSettled ==
  ASSUME TypeOK, NEW s \in Sessions, Acceptable(s, Cart[s].user), PlaceOrder(s)
  PROVE  /\ orders'[s] = Priced(s)
         /\ Priced(s) \in Quote
         /\ \A t \in Sessions \ {s} : orders'[t] = orders[t]
         /\ Promise!Settled(s)
         /\ Promise!Redeemed(s)
<1>1. Priced(s) \in Quote /\ Priced(s)["total"] = Total(s)
  BY PricedTotals DEF Acceptable, TypeOK, Priced, Fields
<1>2. orders'[s] = Priced(s) /\ \A t \in Sessions \ {s} : orders'[t] = orders[t]
  BY DEF PlaceOrder, TypeOK
<1>3. Promise!Settled(s)
  <2>1. Cart[s].points \in Nat
    BY CartAssumption
  <2>2. CASE Cart[s].user = Guest
    BY <2>1, <2>2 DEF Acceptable, PointsAccepted, PlaceOrder, Promise!Settled
  <2>3. CASE Cart[s].user # Guest
    <3>1. Cart[s].user \in Users
      BY <2>3, CartAssumption
    <3>2. Cart[s].points <= points[Cart[s].user]
      BY <2>1, <3>1 DEF TypeOK, Acceptable, PointsAccepted
    <3>3. NewBalance(s) = points[Cart[s].user] - Cart[s].points
                            + orders'[s]["total"] \div 100
      BY <1>1, <1>2 DEF NewBalance
    <3> QED BY <2>3, <3>2, <3>3 DEF PlaceOrder, Promise!Settled
  <2> QED BY <2>2, <2>3
<1>4. Promise!Redeemed(s)
  BY DEF Acceptable, CouponAccepted, UseLeft, PlaceOrder, Promise!Redeemed
<1> QED BY <1>1, <1>2, <1>3, <1>4

LEMMA PromiseInit == Init => Promise!Init
BY SameTotals DEF Init, NoSession, Promise!Init

LEMMA PromiseNext == Inv /\ [Next]_vars => [Promise!Next]_(Promise!pvars)
<1> SUFFICES ASSUME Inv, [Next]_vars
             PROVE  Promise!Next \/ UNCHANGED Promise!pvars
  OBVIOUS
<1>1. TypeOK
  BY DEF Inv
<1>2. ASSUME NEW s \in Sessions, sess[s].status \in {"none", "open"}
      PROVE  orders[s] = Promise!Nothing
  BY <1>2, SameTotals DEF Inv, SessionSound, OrderSound, Ordered
<1>3. ASSUME NEW s \in Sessions, Preview(s) PROVE UNCHANGED Promise!pvars
  BY <1>3 DEF Preview, Promise!pvars
<1>4. ASSUME NEW s \in Sessions, CreateOrder(s) PROVE Promise!Order(s)
  <2>1. Acceptable(s, Cart[s].user) /\ PlaceOrder(s)
    BY <1>4 DEF CreateOrder, StillAcceptable, SessionUser
  <2>2. /\ sess[s].status = "open"
        /\ sess' = [sess EXCEPT ![s].status = "ordered"]
        /\ Agrees(sess[s].client, Priced(s))
    BY <1>4 DEF CreateOrder, StillAcceptable
  <2>3. sess'[s].client = sess[s].client /\ sess[s].client \in ClientTotals
    BY <1>1, <2>2 DEF TypeOK
  <2>4. Promise!Confirmed(sess'[s].client, orders'[s])
    BY <1>1, <2>1, <2>2, <2>3, AgreedIsConfirmed, PlacedIsSettled
  <2> QED BY <1>1, <1>2, <2>1, <2>2, <2>4, SameTotals, PlacedIsSettled DEF Promise!Order
<1>5. ASSUME NEW s \in Sessions, RefuseOrder(s) PROVE Promise!Refuse(s)
  BY <1>5 DEF RefuseOrder, Promise!Refuse
<1>6. ASSUME NEW s \in Sessions, NEW F \in ClientFields, OpenCheckout(s, F)
      PROVE  Promise!Open(s)
  BY <1>1, <1>6, StoredRow DEF OpenCheckout, Promise!Open
<1>7. ASSUME NEW s \in Sessions, NEW F \in ClientFields, StaffOrder(s, F)
      PROVE  Promise!Order(s)
  <2>1. Acceptable(s, Cart[s].user) /\ PlaceOrder(s) /\ sess[s].status = "none"
    BY <1>7 DEF StaffOrder, Confirms
  <2>2. Promise!Stored(s, "direct")
    BY <1>1, <1>7, StoredRow DEF StaffOrder
  <2>3. sess'[s].quote = Priced(s)
    BY <1>1, <1>7 DEF StaffOrder, TypeOK
  <2>4. orders'[s] = sess'[s].quote /\ Promise!Confirmed(sess'[s].client, orders'[s])
    BY <1>1, <2>1, <2>2, <2>3, PlacedIsSettled DEF Promise!Stored
  <2> QED
    BY <1>1, <1>2, <1>7, <2>1, <2>2, <2>4, SameTotals, PlacedIsSettled
    DEF StaffOrder, Promise!Order
<1>8. ASSUME NEW a \in Addresses, AddAddress(a) \/ DeleteAddress(a)
      PROVE  UNCHANGED Promise!pvars
  BY <1>8 DEF AddAddress, DeleteAddress, Promise!pvars
<1>9. ASSUME EditCatalog \/ UNCHANGED vars PROVE UNCHANGED Promise!pvars
  BY <1>9 DEF EditCatalog, vars, Promise!pvars
<1> QED
  BY <1>3, <1>4, <1>5, <1>6, <1>7, <1>8, <1>9 DEF Next, Promise!Next

\* Checkout implements CartPromise: an order keeps the totals that were confirmed,
\* and points and coupons move with it and by what it says, for any rules of the
\* shop and any edits between the three pricings of a cart.
THEOREM Refinement == Spec => ImplementsPromise
BY PromiseInit, PromiseNext, Invariance, PTL
DEF Spec, ImplementsPromise, Promise!Spec

=============================================================================

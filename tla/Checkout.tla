------------------------------- MODULE Checkout -------------------------------
(***************************************************************************)
(* A cart from the screen to the order.  The customer sees a preview, the  *)
(* checkout prices the cart and stores it, and when the payment arrives -  *)
(* minutes or days later - the order is priced again from the stored cart, *)
(* with the totals the customer had confirmed.  In between the catalog is  *)
(* edited, other orders spend the points and the coupon, and addresses are *)
(* deleted.                                                                *)
(*                                                                         *)
(* A request is one step here: Settlement and PaymentWebhook model what    *)
(* happens when two of them overlap.  What the lines of a cart cost is a   *)
(* parameter (Pricing), so this module holds for any rule.                 *)
(***************************************************************************)
EXTENDS DeliveryFee

CONSTANTS
    Sessions,        \* carts, each checked out or ordered at most once
    Users,           \* users.id
    Staff,           \* the users who may POST /orders
    Coupons,         \* coupons.id
    Addresses,       \* addresses.id
    Cart,            \* session -> whose cart it is and what is in it
    Subtotal(_, _),  \* catalog and lines -> subtotal, or NotSold
    SourceRows(_, _),\* catalog and lines -> the rows that subtotal is made from
    Catalogs,        \* the catalogs the shop may have, coupon rules included
    Owner,           \* address -> its user, or Guest for none
    Distance,        \* address -> metres from the store, or NoCoordinates
    MaxUses,         \* coupon -> max_uses, 0 for NULL
    Balance,         \* user -> points at the beginning
    ClientFields,    \* the sets of totals a client may send for confirmation
    MaxEdits,        \* bound: edits of the catalog
    NotSold, Guest, NoCoupon, NoAddress, NoCoordinates,
    Absent           \* a total that is not given

Fields == {"subtotal", "delivery_fee", "discount", "total"}
Quote == [Fields -> Nat]
\* Nothing shown, nothing sent by the client, no order.
NoQuote == [f \in Fields |-> Absent]
\* ClientTotalsInput: every total is optional.
ClientTotals == [Fields -> Nat \cup {Absent}]

CouponRule == [active : BOOLEAN, percent : BOOLEAN, value : Nat, minimum : Nat]

ASSUME CartAssumption ==
    \A s \in Sessions :
      /\ Cart[s].user \in Users \cup {Guest}
      /\ Cart[s].coupon \in Coupons \cup {NoCoupon}
      /\ Cart[s].address \in Addresses \cup {NoAddress}
      /\ Cart[s].points \in Nat
ASSUME NullAssumption ==
    /\ Guest \notin Users
    /\ NoCoupon \notin Coupons
    /\ NoAddress \notin Addresses
    /\ Absent \notin Nat
ASSUME TablesAssumption ==
    /\ Owner \in [Addresses -> Users \cup {Guest}]
    /\ NoCoordinates \notin Nat
    /\ Distance \in [Addresses -> Nat \cup {NoCoordinates}]
    /\ MaxUses \in [Coupons -> Nat]
    /\ Balance \in [Users -> Nat]
    /\ MaxEdits \in Nat
\* A coupon never takes more than 100 percent.
ASSUME CatalogAssumption ==
    \A k \in Catalogs :
      /\ k.coupon \in [Coupons -> CouponRule]
      /\ \A c \in Coupons : k.coupon[c].percent => k.coupon[c].value <= 100
      /\ \A s \in Sessions :
           Subtotal(k, Cart[s].lines) # NotSold => Subtotal(k, Cart[s].lines) \in Nat
\* The subtotal of a cart is made from its rows of the catalog only.
ASSUME SourceAssumption ==
    \A k, l \in Catalogs, s \in Sessions :
      SourceRows(k, Cart[s].lines) = SourceRows(l, Cart[s].lines) =>
        Subtotal(k, Cart[s].lines) = Subtotal(l, Cart[s].lines)
ASSUME ClientAssumption == ClientFields \subseteq SUBSET Fields
ASSUME StaffAssumption == Staff \subseteq Users

VARIABLES
    catalog,  \* products, options, promotions and coupon rules
    edits,    \* edits of the catalog so far
    points,   \* column users.points_balance
    uses,     \* column coupons.uses_count
    saved,    \* table addresses: "no", "yes" or "deleted"
    shown,    \* session -> the totals last previewed
    sess,     \* table checkout_sessions: status, client's totals, priced totals
    sources,  \* history: the rows a session was priced from
    orders    \* session -> the totals of its order

vars == <<catalog, edits, points, uses, saved, shown, sess, sources, orders>>

-----------------------------------------------------------------------------
(***************************************************************************)
(* The price of a cart: OrderPricingService.preview.                       *)
(***************************************************************************)

\* Mutant: the minimum of a fixed coupon and the subtotal is forgotten.
LesserFirst(a, b) == a

Lesser(a, b) == IF a <= b THEN a ELSE b

\* Decimal.quantize(Decimal("1")) of hundredths: half to even.
RoundHundredths(n) ==
    LET q == n \div 100
        r == n % 100
    IN IF r > 50 \/ (r = 50 /\ q % 2 = 1) THEN q + 1 ELSE q

\* CouponValidationService.calculate_discount
CouponDiscount(rule, subtotal) ==
    IF rule.percent THEN RoundHundredths(subtotal * rule.value)
                    ELSE Lesser(rule.value, subtotal)

GoodsPrice(s) == Subtotal(catalog, Cart[s].lines)

\* Mutant: the coupon's last use is not counted as one.
UseLeftOneMore(c) == MaxUses[c] > 0 => uses[c] <= MaxUses[c]

\* max_uses NULL or 0 is no limit.
UseLeft(c) == MaxUses[c] > 0 => uses[c] < MaxUses[c]

\* get_valid_coupon.  The user a coupon was issued to is not looked at.
CouponAccepted(s) ==
    LET c == Cart[s].coupon IN
    c # NoCoupon =>
      /\ catalog.coupon[c].active
      /\ UseLeft(c)
      /\ GoodsPrice(s) >= catalog.coupon[c].minimum

\* _apply_points: only a user who has them.
PointsAccepted(s, user) ==
    Cart[s].points > 0 => user # Guest /\ Cart[s].points <= points[user]

\* _build_delivery: an address nobody owns, or the user's own.
AddressAccepted(s, user) ==
    LET a == Cart[s].address IN
    a # NoAddress => saved[a] = "yes" /\ Owner[a] \in {Guest, user}

Acceptable(s, user) ==
    /\ GoodsPrice(s) # NotSold
    /\ AddressAccepted(s, user)
    /\ CouponAccepted(s)
    /\ PointsAccepted(s, user)

\* A pickup costs no fee, and neither does an address without coordinates.
Fee(s) ==
    LET a == Cart[s].address IN
    IF a = NoAddress THEN 0
    ELSE IF Distance[a] = NoCoordinates THEN 0 ELSE Calculate(Distance[a])

CouponPart(s) ==
    LET c == Cart[s].coupon IN
    IF c = NoCoupon THEN 0 ELSE CouponDiscount(catalog.coupon[c], GoodsPrice(s))

\* A point is worth a peso (POINTS_VALUE).
Discount(s) == CouponPart(s) + Cart[s].points

\* Mutant: the total is not kept from falling below zero.
TotalUnbounded(s) == GoodsPrice(s) + Fee(s) - Discount(s)

Total(s) ==
    LET due == GoodsPrice(s) + Fee(s) - Discount(s) IN
    IF due > 0 THEN due ELSE 0

Priced(s) ==
    [f \in Fields |->
       CASE f = "subtotal" -> GoodsPrice(s)
         [] f = "delivery_fee" -> Fee(s)
         [] f = "discount" -> Discount(s)
         [] f = "total" -> Total(s)]

\* Mutant: only the goods are compared.
AgreesOnGoods(client, quote) ==
    client["subtotal"] \in {Absent, quote["subtotal"]}

\* _validate_client_totals: every total the client sent is the computed one.
Agrees(client, quote) == \A f \in Fields : client[f] \in {Absent, quote[f]}

-----------------------------------------------------------------------------
(***************************************************************************)
(* The steps.                                                              *)
(***************************************************************************)
SessionStatus == {"none", "open", "ordered", "refused", "direct"}
NoSession == [status |-> "none", client |-> NoQuote, quote |-> NoQuote]

\* The rows of the catalog a cart is priced from.
Sources(s) ==
    [goods |-> SourceRows(catalog, Cart[s].lines),
     coupon |-> IF Cart[s].coupon = NoCoupon THEN NoCoupon
                                             ELSE catalog.coupon[Cart[s].coupon]]

Init ==
    /\ catalog \in Catalogs
    /\ edits = 0
    /\ points = Balance
    /\ uses = [c \in Coupons |-> 0]
    /\ saved \in [Addresses -> {"no", "yes"}]
    /\ \A a \in Addresses : Owner[a] = Guest => saved[a] = "yes"
    /\ shown = [s \in Sessions |-> NoQuote]
    /\ sess = [s \in Sessions |-> NoSession]
    /\ sources = [s \in Sessions |-> NotSold]
    /\ orders = [s \in Sessions |-> NoQuote]

\* POST /orders/preview
Preview(s) ==
    /\ sess[s].status = "none"
    /\ Acceptable(s, Cart[s].user)
    /\ shown' = [shown EXCEPT ![s] = Priced(s)]
    /\ UNCHANGED <<catalog, edits, points, uses, saved, sess, sources, orders>>

\* The totals F of the preview, sent for confirmation.
Confirmed(s, F) == [f \in Fields |-> IF f \in F THEN shown[s][f] ELSE Absent]

\* A cart is accepted with the totals the customer has seen.
Confirms(s, F) ==
    /\ F # {} => shown[s] # NoQuote
    /\ Acceptable(s, Cart[s].user)
    /\ Agrees(Confirmed(s, F), Priced(s))

\* After the order or the way to MercadoPago the preview is gone.
LeaveScreen(s) == shown' = [shown EXCEPT ![s] = NoQuote]

\* Mutant: the delivery is not among the items.
AskedForGoods(quote) ==
    IF quote["discount"] > 0 THEN quote["total"] ELSE quote["subtotal"]

\* _build_checkout_items: what the items sent to MercadoPago add up to.  With a
\* discount they are one item, without one the lines of the cart and the fee.
AskedFor(quote) ==
    IF quote["discount"] > 0 THEN quote["total"]
                             ELSE quote["subtotal"] + quote["delivery_fee"]

\* POST /payments/create-preference: price the cart, store it with its totals.
OpenCheckout(s, F) ==
    /\ sess[s].status = "none"
    /\ Confirms(s, F)
    /\ sess' = [sess EXCEPT ![s] = [status |-> "open", client |-> Confirmed(s, F),
                                    quote |-> Priced(s)]]
    /\ sources' = [sources EXCEPT ![s] = Sources(s)]
    /\ LeaveScreen(s)
    /\ UNCHANGED <<catalog, edits, points, uses, saved, orders>>

\* Mutant: points are earned on the goods, also where a discount pays for them.
NewBalanceOnGoods(s) == points[Cart[s].user] - Cart[s].points + GoodsPrice(s) \div 100

\* The points of the user after the order: the debit, and one point earned for
\* every hundred pesos paid.
NewBalance(s) == points[Cart[s].user] - Cart[s].points + Total(s) \div 100

\* CreateOrderUseCase, after the pricing: the order, the points, the coupon.
PlaceOrder(s) ==
    /\ orders' = [orders EXCEPT ![s] = Priced(s)]
    /\ points' = IF Cart[s].user = Guest THEN points
                 ELSE [points EXCEPT ![Cart[s].user] = NewBalance(s)]
    /\ uses' = IF Cart[s].coupon = NoCoupon THEN uses
               ELSE [uses EXCEPT ![Cart[s].coupon] = @ + 1]
    /\ UNCHANGED <<catalog, edits, saved, sources>>

\* Mutant: the order is priced without the user of the session.
NoSessionUser(s) == Guest

\* checkout_session.user_id
SessionUser(s) == Cart[s].user

\* The cart of a session is priced again, with the totals in cart_snapshot.
StillAcceptable(s) ==
    Acceptable(s, SessionUser(s)) /\ Agrees(sess[s].client, Priced(s))

\* The payment of an open session is approved.
CreateOrder(s) ==
    /\ sess[s].status = "open"
    /\ StillAcceptable(s)
    /\ PlaceOrder(s)
    /\ sess' = [sess EXCEPT ![s].status = "ordered"]
    /\ UNCHANGED shown

\* The same, when the cart is refused: the customer has paid, and the session
\* stays claimed.
RefuseOrder(s) ==
    /\ sess[s].status = "open"
    /\ ~StillAcceptable(s)
    /\ sess' = [sess EXCEPT ![s].status = "refused"]
    /\ UNCHANGED <<catalog, edits, points, uses, saved, shown, sources, orders>>

\* POST /orders, for staff: the order without a checkout.
StaffOrder(s, F) ==
    /\ sess[s].status = "none"
    /\ Cart[s].user \in Staff
    /\ Confirms(s, F)
    /\ PlaceOrder(s)
    /\ LeaveScreen(s)
    /\ sess' = [sess EXCEPT ![s] = [status |-> "direct", client |-> Confirmed(s, F),
                                    quote |-> Priced(s)]]

\* POST /users/me/addresses
AddAddress(a) ==
    /\ saved[a] = "no"
    /\ saved' = [saved EXCEPT ![a] = "yes"]
    /\ UNCHANGED <<catalog, edits, points, uses, shown, sess, sources, orders>>

\* DELETE /users/me/addresses/{id}, by its user.  An address of an order cannot
\* be deleted (foreign key); one of a session in checkout can.
DeleteAddress(a) ==
    /\ saved[a] = "yes"
    /\ Owner[a] # Guest
    /\ \A s \in Sessions : orders[s] # NoQuote => Cart[s].address # a
    /\ saved' = [saved EXCEPT ![a] = "deleted"]
    /\ UNCHANGED <<catalog, edits, points, uses, shown, sess, sources, orders>>

\* The shop changes prices, availability or a coupon.
EditCatalog ==
    /\ edits < MaxEdits
    /\ edits' = edits + 1
    /\ catalog' \in Catalogs \ {catalog}
    /\ UNCHANGED <<points, uses, saved, shown, sess, sources, orders>>

Next ==
    \/ \E s \in Sessions :
         \/ Preview(s)
         \/ CreateOrder(s)
         \/ RefuseOrder(s)
         \/ \E F \in ClientFields : OpenCheckout(s, F) \/ StaffOrder(s, F)
    \/ \E a \in Addresses : AddAddress(a) \/ DeleteAddress(a)
    \/ EditCatalog

Spec == Init /\ [][Next]_vars

-----------------------------------------------------------------------------
(***************************************************************************)
(* Properties.                                                             *)
(***************************************************************************)
Ordered(s) == orders[s] # NoQuote

\* Every variable stays in its domain; an order has all its totals.
TypeOK ==
    /\ catalog \in Catalogs
    /\ edits \in 0..MaxEdits
    /\ points \in [Users -> Nat]
    /\ uses \in [Coupons -> Nat]
    /\ saved \in [Addresses -> {"no", "yes", "deleted"}]
    /\ shown \in [Sessions -> Quote \cup {NoQuote}]
    /\ sess \in [Sessions -> [status : SessionStatus,
                              client : ClientTotals,
                              quote : Quote \cup {NoQuote}]]
    /\ DOMAIN sources = Sessions
    /\ orders \in [Sessions -> Quote \cup {NoQuote}]

\* A total the customer confirmed is what the customer pays and what the order
\* says, however the catalog, coupons, points and addresses change between the
\* preview, the checkout and the payment.
QuoteHonoured ==
    \A s \in Sessions : Ordered(s) =>
      \A f \in Fields : sess[s].client[f] # Absent =>
        sess[s].client[f] = sess[s].quote[f] /\ orders[s][f] = sess[s].quote[f]

\* MercadoPago is asked for exactly the total of the session, which is the
\* amount a payment is compared with when it arrives.
TotalIsAsked ==
    \A s \in Sessions : sess[s].status \in {"open", "ordered", "refused"} =>
      AskedFor(sess[s].quote) = sess[s].quote["total"]

\* While requests do not overlap nobody spends points twice and no coupon is
\* used more often than it allows, although sessions are priced long before
\* they are ordered and several of them count on the same points and uses.
LimitsHold ==
    /\ \A u \in Users : points[u] >= 0
    /\ \A c \in Coupons : MaxUses[c] > 0 => uses[c] <= MaxUses[c]

\* A coupon is for the goods: without points an order costs at least its
\* delivery, whatever the kind of the coupon, its value and its rounding.
CouponSparesDelivery ==
    \A s \in Sessions : Ordered(s) /\ Cart[s].points = 0 =>
      orders[s]["total"] >= orders[s]["delivery_fee"]

\* What the shop says it delivers to is delivered for a fee, and a longer way
\* never costs less.
InRange(s) ==
    /\ Ordered(s)
    /\ Cart[s].address # NoAddress
    /\ Distance[Cart[s].address] # NoCoordinates
    /\ IsAvailable(Distance[Cart[s].address])

FeesFollowDistance ==
    \A s \in Sessions : InRange(s) =>
      /\ orders[s]["delivery_fee"] > 0
      /\ \A t \in Sessions :
           InRange(t) /\ Distance[Cart[s].address] <= Distance[Cart[t].address] =>
             orders[s]["delivery_fee"] <= orders[t]["delivery_fee"]

\* A paid cart is refused only because something it was priced from has
\* changed: its rows of the catalog, its coupon, the points of its user or its
\* address.  No other edit, order or customer can refuse it.
Cause(s) ==
    \/ sources[s] # Sources(s)
    \/ Cart[s].coupon # NoCoupon /\ MaxUses[Cart[s].coupon] > 0
         /\ uses[Cart[s].coupon] >= MaxUses[Cart[s].coupon]
    \/ Cart[s].user # Guest /\ points[Cart[s].user] < Cart[s].points
    \/ Cart[s].address # NoAddress /\ saved[Cart[s].address] = "deleted"

RefusedForACause ==
    [][\A s \in Sessions :
         sess[s].status = "open" /\ sess'[s].status = "refused" => Cause(s)]_vars

\* All that happens to checkouts, orders, points and coupons is what CartPromise
\* allows, although the cart is priced three times from tables that change: the
\* order keeps what was confirmed, and points and coupons move with the order only,
\* by the amounts of that order.
Promise == INSTANCE CartPromise
ImplementsPromise == Promise!Spec

=============================================================================

------------------------------ MODULE MCCheckout ------------------------------
(* A small shop for TLC: Checkout with the prices of Pricing. *)
EXTENDS Checkout, Pricing, TLC

CONSTANTS u1, u2, k1, sA, sB, sC, sD, near, far, roll, promo, soy, spicy, sauce, slot1

\* One product with an optional group of sauces, one promotion.
ProductOfSauce == [g \in Groups |-> roll]
GroupOfOption == [o \in Options |-> sauce]
SauceRule == [g \in Groups |-> [required |-> FALSE, min |-> 1, max |-> 2]]
PromoSlots == [p \in Promotions |-> {slot1}]

SpicyRoll == [item |-> roll, slot |-> NoSlot, quantity |-> 1, options |-> <<spicy, spicy>>]
PlainRolls == [item |-> roll, slot |-> NoSlot, quantity |-> 2, options |-> <<soy>>]
Combo == [item |-> promo, slot |-> slot1, quantity |-> 1, options |-> <<>>]

\* The catalog, a coupon of a tenth (the rounding matters), one worth more than
\* the goods, a sauce that is sold out, a higher price of the promotion.
Percent == [active |-> TRUE, percent |-> TRUE, value |-> 10, minimum |-> 100]
Fixed == [active |-> TRUE, percent |-> FALSE, value |-> 900, minimum |-> 100]
Menu(rollPrice, promoPrice, spicySold, coupon) ==
    [product |-> [p \in Products |-> [price |-> rollPrice, sold |-> TRUE]],
     option |-> [o \in Options |-> [price |-> IF o = soy THEN 0 ELSE 25,
                                    sold |-> o = soy \/ spicySold]],
     promotion |-> [p \in Promotions |-> [price |-> promoPrice, sold |-> TRUE]],
     coupon |-> [c \in Coupons |-> coupon]]
Menus == { Menu(245, 400, TRUE, Percent), Menu(245, 400, FALSE, Percent),
           Menu(245, 500, TRUE, Fixed) }

\* Two carts of one user that count on the same points, one of them on the last
\* use of the coupon too; a delivery to an address the user may delete, with the
\* coupon; two deliveries at the limit of a tier, one of them a guest's without any
\* discount.
Carts ==
    (sA :> [user |-> u1, lines |-> <<SpicyRoll, Combo>>, coupon |-> k1,
            points |-> 50, address |-> NoAddress]) @@
    (sB :> [user |-> u1, lines |-> <<PlainRolls>>, coupon |-> NoCoupon,
            points |-> 50, address |-> far]) @@
    (sC :> [user |-> u2, lines |-> <<SpicyRoll>>, coupon |-> k1,
            points |-> 0, address |-> near]) @@
    (sD :> [user |-> Guest, lines |-> <<Combo>>, coupon |-> NoCoupon,
            points |-> 0, address |-> far])

Owners == (near :> u2) @@ (far :> Guest)
Distances == (near :> 2000) @@ (far :> 10000)
OnceEach == [c \in Coupons |-> 1]
SomePoints == [u \in Users |-> 50]
AllOrNothing == {{}, Fields}

=============================================================================

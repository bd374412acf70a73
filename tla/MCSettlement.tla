----------------------------- MODULE MCSettlement -----------------------------
(* Small instances of Settlement for TLC. *)
EXTENDS Settlement, TLC

CONSTANTS u1, c1, r1, r2, r3, r4

\* Two orders of one user that use the coupon, one of them with points; a third
\* order of that user that only spends; an order of another user, or a guest.
Carts ==
    (r1 :> [user |-> u1, spends |-> 2, coupon |-> c1, earns |-> 1]) @@
    (r2 :> [user |-> u1, spends |-> 0, coupon |-> c1, earns |-> 1]) @@
    (r3 :> [user |-> u1, spends |-> 2, coupon |-> NoCoupon, earns |-> 0]) @@
    (r4 :> [user |-> Guest, spends |-> 0, coupon |-> c1, earns |-> 0])

\* Two orders of one user that spend the same points and the last use of the
\* coupon.
SameLimits == [r \in {r1, r2} |->
    [user |-> u1, spends |-> 2, coupon |-> c1, earns |-> 0]]

Some == [u \in Users |-> 3]
Unused == [c \in Coupons |-> 0]
Once == [c \in Coupons |-> 1]
Thrice == [c \in Coupons |-> 3]

=============================================================================

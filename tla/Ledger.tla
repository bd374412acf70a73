-------------------------------- MODULE Ledger --------------------------------
(***************************************************************************)
(* What the creation of orders promises about points and coupons, without  *)
(* transactions and locks: an order is settled at once and exactly.        *)
(***************************************************************************)
EXTENDS Integers

CONSTANTS Users, Coupons, Requests, Cart, Balance, Used

VARIABLES
    points,   \* users.points_balance
    uses,     \* coupons.uses_count
    settled   \* the requests whose order exists

lvars == <<points, uses, settled>>

Init ==
    /\ points = Balance
    /\ uses = Used
    /\ settled = {}

\* What an order is worth to a user, and to a coupon.
Net(r, u) == IF Cart[r].user = u THEN Cart[r].earns - Cart[r].spends ELSE 0
Redeemed(r, c) == IF Cart[r].coupon = c THEN 1 ELSE 0

Settle(r) ==
    /\ r \notin settled
    /\ settled' = settled \cup {r}
    /\ points' = [u \in Users |-> points[u] + Net(r, u)]
    /\ uses' = [c \in Coupons |-> uses[c] + Redeemed(r, c)]

Next == \E r \in Requests : Settle(r)

Spec == Init /\ [][Next]_lvars

=============================================================================

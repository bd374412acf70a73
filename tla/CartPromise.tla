----------------------------- MODULE CartPromise -----------------------------
(***************************************************************************)
(* What the shop promises about the totals of a cart, without catalogs,    *)
(* previews, addresses and prices: a checkout is opened with totals, some  *)
(* of them confirmed by the client; its order has the confirmed ones; and  *)
(* the points and coupons move with the order, by what that order says and *)
(* never below what is there.                                              *)
(***************************************************************************)
EXTENDS Integers

CONSTANTS Sessions, Users, Staff, Coupons, Cart, MaxUses, Balance,
          Guest, NoCoupon, Absent

VARIABLES
    sess,    \* status, confirmed totals and totals of every checkout
    orders,  \* session -> the totals of its order
    points,  \* users.points_balance
    uses     \* coupons.uses_count

pvars == <<sess, orders, points, uses>>

Totals == {"subtotal", "delivery_fee", "discount", "total"}
Amounts == [Totals -> Nat]
Nothing == [f \in Totals |-> Absent]

\* A client confirms some of the totals, or all, or none.
Confirmed(client, amounts) ==
    client \in [Totals -> Nat \cup {Absent}] /\ \A f \in Totals : client[f] \in {Absent, amounts[f]}

Init ==
    /\ sess = [s \in Sessions |-> [status |-> "none", client |-> Nothing, quote |-> Nothing]]
    /\ orders = [s \in Sessions |-> Nothing]
    /\ points = Balance
    /\ uses = [c \in Coupons |-> 0]

\* The row of s is now new, with totals its client has confirmed.
Stored(s, status) ==
    /\ sess[s].status = "none"
    /\ sess'[s].status = status
    /\ sess'[s].quote \in Amounts
    /\ Confirmed(sess'[s].client, sess'[s].quote)
    /\ \A t \in Sessions \ {s} : sess'[t] = sess[t]

Open(s) ==
    /\ Stored(s, "open")
    /\ UNCHANGED <<orders, points, uses>>

Refuse(s) ==
    /\ sess[s].status = "open"
    /\ sess' = [sess EXCEPT ![s].status = "refused"]
    /\ UNCHANGED <<orders, points, uses>>

\* The points of the cart are spent, and one is earned for every hundred paid.
Settled(s) ==
    LET u == Cart[s].user IN
    IF u = Guest
      THEN Cart[s].points = 0 /\ points' = points
      ELSE /\ Cart[s].points <= points[u]
           /\ points' = [points EXCEPT ![u] = @ - Cart[s].points + orders'[s]["total"] \div 100]

\* The coupon of the cart has a use left, and is used.
Redeemed(s) ==
    LET c == Cart[s].coupon IN
    IF c = NoCoupon
      THEN uses' = uses
      ELSE /\ MaxUses[c] > 0 => uses[c] < MaxUses[c]
           /\ uses' = [uses EXCEPT ![c] = @ + 1]

\* The one order of s: of an open checkout, or made by staff without one.
Order(s) ==
    /\ orders[s] = Nothing
    /\ \/ sess[s].status = "open" /\ sess' = [sess EXCEPT ![s].status = "ordered"]
       \/ Cart[s].user \in Staff /\ Stored(s, "direct") /\ orders'[s] = sess'[s].quote
    /\ orders'[s] \in Amounts
    /\ Confirmed(sess'[s].client, orders'[s])
    /\ \A t \in Sessions \ {s} : orders'[t] = orders[t]
    /\ Settled(s)
    /\ Redeemed(s)

Next == \E s \in Sessions : Open(s) \/ Refuse(s) \/ Order(s)

Spec == Init /\ [][Next]_pvars

=============================================================================

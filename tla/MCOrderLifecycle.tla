--------------------------- MODULE MCOrderLifecycle ---------------------------
(* Small instances of OrderLifecycle for TLC. *)
EXTENDS OrderLifecycle, TLC

CONSTANTS o1, p1, p2, t1, t2, c1, c2, w1, w2

\* Two payments of one order, one payment of one order.
PaidTwice == [p \in {p1, p2} |-> o1]
PaidOnce == [p \in {p1} |-> o1]
\* What a payment may do at MercadoPago.
AnySteps ==
    { <<"none", "pending">>, <<"none", "authorized">>, <<"none", "approved">>,
      <<"none", "rejected">>, <<"pending", "approved">>, <<"pending", "rejected">>,
      <<"authorized", "approved">>, <<"approved", "refunded">> }
ApprovedSteps == { <<"none", "approved">> }

Symmetric == Permutations(Checkouts) \cup Permutations(Webhooks)

=============================================================================

--------------------------- MODULE MCPaymentWebhook ---------------------------
(* Small instances of PaymentWebhook for TLC. *)
EXTENDS StatusView, TLC

CONSTANTS s1, p1, p2, o1, o2, w1, w2, w3

\* One or two payments of one session.
OneSession == [p \in {p1, p2} |-> s1]
OnePayment == [p \in {p1} |-> s1]

\* What a payment may do at MercadoPago.  A pending and an authorized payment are
\* treated alike by the code, so each stands for one of their two outcomes.
AnySteps ==
    { <<"none", "pending">>, <<"none", "approved">>, <<"none", "rejected">>,
      <<"none", "authorized">>, <<"authorized", "approved">>,
      <<"pending", "rejected">>, <<"approved", "refunded">> }
ApprovedSteps == { <<"none", "approved">> }
PendingFirst == { <<"none", "pending">>, <<"pending", "approved">> }
RejectedOrApproved == { <<"none", "rejected">>, <<"none", "approved">> }

WorkerSymmetry == Permutations(Workers)
OrderSymmetry == Permutations(Orders)
Symmetric == WorkerSymmetry \cup OrderSymmetry

=============================================================================

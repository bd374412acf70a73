------------------------------ MODULE StatusView ------------------------------
(***************************************************************************)
(* GET /payments/status/{external_reference}: what a customer is told of a *)
(* checkout, computed from the session, its last changed payment and its   *)
(* order.  The three rows are read in one snapshot, so they are the        *)
(* committed tables of PaymentWebhook.  Which payment was changed last is  *)
(* decided by the clocks of the processes that wrote updated_at, so here   *)
(* any registered payment of the session may be the latest.                *)
(*                                                                         *)
(* The column provider_status is written together with status, and in      *)
(* _public_payment_status both lead to the same answer, so it is left out. *)
(***************************************************************************)
EXTENDS PaymentWebhook

\* The statuses that _map_payment_status takes for a rejection, and that a payment
\* at MercadoPago does not leave for another kind.
TurnedDown == {"rejected", "cancelled", "refunded", "charged_back"}

ASSUME TurnedDownAssumption ==
    \A st \in ProviderSteps : st[1] \in TurnedDown => st[2] \in TurnedDown

Registered(s) == {p \in Payments : SessionOf[p] = s /\ pay[p].status # "none"}

\* The payments that may be the latest one; NoPayment when there is none.
Latest(s) == IF Registered(s) = {} THEN {NoPayment} ELSE Registered(s)

\* Mutant: the latest payment decides, also about the order.
OrderShownOfPayment(s, p) == IF p # NoPayment THEN pay[p].order ELSE sess[s].order

\* The order shown: the session's, or else that of the latest payment.
OrderShown(s, p) ==
    IF sess[s].order # NoOrder THEN sess[s].order
    ELSE IF p # NoPayment THEN pay[p].order ELSE NoOrder

HasOrder(s, p) == OrderShown(s, p) # NoOrder

\* Mutant: a session that is creating its order counts as paid.
PublicCheckoutEarly(status, hasOrder) ==
    IF hasOrder \/ status \in {"pagado", "processing_order"} THEN "paid"
    ELSE IF status = "rechazado" THEN "failed"
    ELSE IF status = "amount_mismatch" THEN "amount_mismatch"
    ELSE "pending"

\* _public_checkout_status
PublicCheckout(status, hasOrder) ==
    IF hasOrder \/ status = "pagado" THEN "paid"
    ELSE IF status = "rechazado" THEN "failed"
    ELSE IF status = "amount_mismatch" THEN "amount_mismatch"
    ELSE "pending"

\* _public_payment_status
PublicPayment(status) ==
    CASE status = "amount_mismatch" -> "amount_mismatch"
      [] status = "pagado" -> "approved"
      [] status = "rechazado" -> "rejected"
      [] status = "pendiente" -> "pending"
      [] status = "none" -> "none"

CheckoutShown(s, p) == PublicCheckout(sess[s].status, HasOrder(s, p))
PaymentShown(p) == IF p = NoPayment THEN "none" ELSE PublicPayment(pay[p].status)

\* _payment_status_message: "Detectamos una diferencia en el monto ...", "El
\* pago fue rechazado ...", "Pago aprobado. Tu pedido fue creado ...", "Pago
\* aprobado. Estamos terminando ...", "Estamos esperando ...".
Message(checkout, payment, hasOrder) ==
    IF checkout = "amount_mismatch" THEN "difference"
    ELSE IF payment = "rejected" \/ checkout = "failed" THEN "rejected"
    ELSE IF hasOrder THEN "created"
    ELSE IF payment = "approved" THEN "creating"
    ELSE "waiting"

\* What the customer is told if p is the latest payment.
Told(s, p) == Message(CheckoutShown(s, p), PaymentShown(p), HasOrder(s, p))

-----------------------------------------------------------------------------
(***************************************************************************)
(* Properties.                                                             *)
(***************************************************************************)

\* A checkout is shown as paid exactly when it is shown with an order, whatever
\* payments, crashes and refusals left in the three rows, and the order shown
\* was created for a payment of this session.
PaidShowsOrder ==
    \A s \in Sessions : \A p \in Latest(s) :
      /\ CheckoutShown(s, p) = "paid" <=> HasOrder(s, p)
      /\ HasOrder(s, p) => orders[OrderShown(s, p)] \in Registered(s)

\* Of the money the message tells what MercadoPago says of the payment it is about:
\* of the one the order was created for, of the latest one, or, when the checkout
\* as a whole is shown as failed or different, of one that made it so.
MessageFitsItsPayment ==
    \A s \in Sessions : \A p \in Latest(s) :
      /\ Told(s, p) = "created" =>
           LET payer == orders[OrderShown(s, p)] IN
           payer \in Registered(s) \cap Matching /\ mp[payer] \in EverApproved
      /\ Told(s, p) = "creating" => p \in Matching /\ mp[p] \in EverApproved
      /\ Told(s, p) = "rejected" =>
           IF PaymentShown(p) = "rejected"
             THEN mp[p] \in TurnedDown
             ELSE \E q \in Registered(s) : mp[q] \in TurnedDown
      /\ Told(s, p) = "difference" =>
           \E q \in Registered(s) : q \notin Matching /\ mp[q] \in EverApproved

\* Who is told that the payment was rejected, and to try again, has not paid: no
\* registered payment of the checkout is approved.  This is what the message says
\* of the checkout; it does not hold when a checkout has two payments.
RejectedIsUnpaid ==
    \A s \in Sessions : \A p \in Latest(s) :
      Told(s, p) = "rejected" => \A q \in Registered(s) : mp[q] # "approved"

\* A customer who has seen the order of a checkout sees that order, and the checkout
\* as paid, whenever the page is asked again: no later notification, of whatever
\* payment of the session becomes the latest one, takes it back or shows another.
ShownOrderStays ==
    [][\A s \in Sessions : \A p \in Latest(s) :
         HasOrder(s, p) =>
           \A q \in Latest(s)' :
             /\ OrderShown(s, q)' = OrderShown(s, p)
             /\ CheckoutShown(s, q)' = "paid"]_vars

=============================================================================

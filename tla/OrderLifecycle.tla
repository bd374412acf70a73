---------------------------- MODULE OrderLifecycle ----------------------------
(***************************************************************************)
(* The life of an order that exists: the POS moves its status, and a       *)
(* legacy checkout (one that was given an order_id) pays it.               *)
(*                                                                         *)
(* Three kinds of request change the row of an order: PATCH                *)
(* /internal/orders/{id}/status from a POS terminal, POST                  *)
(* /payments/create-preference with an order_id, and the notification of   *)
(* a payment whose external_reference is an order id.  Each reads the row, *)
(* decides, and later writes it with UPDATE statements on the row last     *)
(* committed.  The first UPDATE locks the row until the commit, so the     *)
(* UPDATEs of a request and its commit are one step.                       *)
(***************************************************************************)
EXTENDS Naturals

CONSTANTS
    Orders,          \* orders.id
    Payments,        \* MercadoPago payments with an order id as reference
    OrderOf,         \* the order a payment refers to
    ProviderSteps,   \* pairs <<old, new>> of payment statuses at MercadoPago
    Terminals,       \* POS requests that can be in progress at the same time
    Checkouts,       \* create-preference requests at the same time
    Webhooks,        \* notifications handled at the same time
    NoOrder,         \* no request in progress
    NoPayment,       \* NULL in mp_payment_id
    CheckoutPayment  \* the payment of an order that PaymentWebhook created

OrderStatus == {"pendiente", "pagado", "en_preparacion", "listo", "despachado",
                "entregado", "cancelado", "anulado"}
PaymentStatus == {"pendiente", "pagado", "rechazado"}
ProviderStatus == {"none", "pending", "in_process", "authorized", "approved",
                   "rejected", "cancelled", "refunded", "charged_back"}
EverApproved == {"approved", "refunded", "charged_back"}

ASSUME OrderOfAssumption == OrderOf \in [Payments -> Orders]
ASSUME NullAssumption ==
    /\ NoOrder \notin Orders
    /\ NoPayment \notin Payments
    /\ CheckoutPayment \notin Payments \cup {NoPayment}
\* A payment that was approved can only be given back afterwards.
ASSUME ProviderAssumption ==
    /\ ProviderSteps \subseteq ProviderStatus \X (ProviderStatus \ {"none"})
    /\ \A st \in ProviderSteps :
         st[1] \in EverApproved => st[2] \in EverApproved

VARIABLES
    mp,        \* payment -> its status at MercadoPago
    rows,      \* table orders
    pos,       \* terminal -> the order it read, the status it saw and asks for
    checkout,  \* preference request -> the order it waits at MercadoPago for
    hook       \* webhook request -> its payment, status got and row read

vars == <<mp, rows, pos, checkout, hook>>

\* status "none": no such order.  preference: mp_preference_id is set, payment:
\* mp_payment_id, stamped: paid_at is set.
Row == [status : OrderStatus \cup {"none"}, pay : PaymentStatus,
        preference : BOOLEAN, payment : Payments \cup {NoPayment, CheckoutPayment},
        stamped : BOOLEAN]
NoRow == [status |-> "none", pay |-> "pendiente", preference |-> FALSE,
          payment |-> NoPayment, stamped |-> FALSE]

\* The requests in progress.
PosRequest == [order : Orders \cup {NoOrder}, seen : OrderStatus \cup {"none"},
               target : OrderStatus \cup {"none"}]
PosIdle == [order |-> NoOrder, seen |-> "none", target |-> "none"]
HookRequest == [pc : {"idle", "read", "write"}, payment : Payments \cup {NoPayment},
                got : ProviderStatus, stamped : BOOLEAN]
HookIdle == [pc |-> "idle", payment |-> NoPayment, got |-> "none", stamped |-> FALSE]

\* Order.can_transition_to
CanTransition(status, target) ==
    <<status, target>> \in
      { <<"pendiente", "pagado">>, <<"pendiente", "cancelado">>,
        <<"pagado", "en_preparacion">>, <<"pagado", "cancelado">>,
        <<"en_preparacion", "listo">>, <<"en_preparacion", "anulado">>,
        <<"listo", "despachado">>, <<"listo", "entregado">>,
        <<"despachado", "entregado">> }

\* Mutant: an authorization is taken for a payment.
MapPaymentStatusAuthorized(status) ==
    CASE status \in {"approved", "authorized"} -> "pagado"
      [] status \in {"rejected", "cancelled", "refunded", "charged_back"} -> "rechazado"
      [] OTHER -> "pendiente"

\* Mutant: the provider's status is saved as it is.
MapPaymentStatusRaw(status) == status

\* ProcessMercadoPagoWebhookUseCase._map_payment_status
MapPaymentStatus(status) ==
    CASE status = "approved" -> "pagado"
      [] status \in {"rejected", "cancelled", "refunded", "charged_back"} -> "rechazado"
      [] OTHER -> "pendiente"

Init ==
    /\ mp = [p \in Payments |-> "none"]
    /\ rows = [o \in Orders |-> NoRow]
    /\ pos = [t \in Terminals |-> PosIdle]
    /\ checkout = [c \in Checkouts |-> NoOrder]
    /\ hook = [w \in Webhooks |-> HookIdle]

-----------------------------------------------------------------------------
(***************************************************************************)
(* Orders appear, and customers pay.                                       *)
(***************************************************************************)

\* POST /orders by an administrator or the POS: an order nobody has paid.
Place(o) ==
    /\ rows[o] = NoRow
    /\ rows' = [rows EXCEPT ![o] = [NoRow EXCEPT !.status = "pendiente"]]
    /\ UNCHANGED <<mp, pos, checkout, hook>>

\* The commit of PaymentWebhook: the order is first seen paid.
PlacePaid(o) ==
    /\ rows[o] = NoRow
    /\ rows' = [rows EXCEPT ![o] = [NoRow EXCEPT !.status = "pagado", !.pay = "pagado",
                                     !.payment = CheckoutPayment, !.stamped = TRUE]]
    /\ UNCHANGED <<mp, pos, checkout, hook>>

\* The customer pays with a preference of the order; the payment changes.
ProviderStep(p) ==
    /\ rows[OrderOf[p]].preference
    /\ \E st \in ProviderSteps :
         /\ mp[p] = st[1]
         /\ mp' = [mp EXCEPT ![p] = st[2]]
    /\ UNCHANGED <<rows, pos, checkout, hook>>

-----------------------------------------------------------------------------
(***************************************************************************)
(* A POS terminal: UpdateOrderStatusUseCase.                               *)
(***************************************************************************)

\* The status is read and the transition checked; a forbidden one is refused.
PosRead(t, o, target) ==
    /\ pos[t] = PosIdle
    /\ CanTransition(rows[o].status, target)
    /\ pos' = [pos EXCEPT ![t] = [order |-> o, seen |-> rows[o].status, target |-> target]]
    /\ UNCHANGED <<mp, rows, checkout, hook>>

\* update_status: the row gets the status asked for, whatever it is by now.
StatusSet(row, target) ==
    [row EXCEPT !.status = target, !.stamped = @ \/ target = "pagado"]

PosWrite(t) ==
    /\ pos[t] # PosIdle
    /\ rows' = [rows EXCEPT ![pos[t].order] = StatusSet(@, pos[t].target)]
    /\ pos' = [pos EXCEPT ![t] = PosIdle]
    /\ UNCHANGED <<mp, checkout, hook>>

\* The process ends, or the database fails, before the commit.
PosFails(t) ==
    /\ pos[t] # PosIdle
    /\ pos' = [pos EXCEPT ![t] = PosIdle]
    /\ UNCHANGED <<mp, rows, checkout, hook>>

-----------------------------------------------------------------------------
(***************************************************************************)
(* A preference for an order: _execute_legacy_order_preference.            *)
(***************************************************************************)

\* _ensure_payable, then MercadoPago is asked.
CheckoutRead(c, o) ==
    /\ checkout[c] = NoOrder
    /\ rows[o] # NoRow
    /\ rows[o].pay # "pagado"
    /\ checkout' = [checkout EXCEPT ![c] = o]
    /\ UNCHANGED <<mp, rows, pos, hook>>

\* MercadoPago answered: update_mp_preference.
CheckoutWrite(c) ==
    /\ checkout[c] # NoOrder
    /\ rows' = [rows EXCEPT ![checkout[c]] =
                  [@ EXCEPT !.preference = TRUE, !.pay = "pendiente"]]
    /\ checkout' = [checkout EXCEPT ![c] = NoOrder]
    /\ UNCHANGED <<mp, pos, hook>>

\* MercadoPago failed: PaymentError, nothing was written.
CheckoutFails(c) ==
    /\ checkout[c] # NoOrder
    /\ checkout' = [checkout EXCEPT ![c] = NoOrder]
    /\ UNCHANGED <<mp, rows, pos, hook>>

-----------------------------------------------------------------------------
(***************************************************************************)
(* A notification, possibly repeated or late: get_payment and              *)
(* _process_legacy_order_payment.                                          *)
(***************************************************************************)
HookFetch(w, p) ==
    /\ hook[w].pc = "idle"
    /\ mp[p] # "none"
    /\ hook' = [hook EXCEPT ![w] = 
                  [pc |-> "read", payment |-> p, got |-> mp[p], stamped |-> FALSE]]
    /\ UNCHANGED <<mp, rows, pos, checkout>>

\* The order is read; its paid_at is written back unless the payment is approved.
HookRead(w) ==
    /\ hook[w].pc = "read"
    /\ hook' = [hook EXCEPT ![w] =
                  [@ EXCEPT !.pc = "write",
                            !.stamped = rows[OrderOf[hook[w].payment]].stamped]]
    /\ UNCHANGED <<mp, rows, pos, checkout>>

\* update_payment: the columns it sets on the row last committed.
PaymentSet(row, h) ==
    LET mapped == MapPaymentStatus(h.got)
    IN  [row EXCEPT !.pay = mapped, !.payment = h.payment,
                    !.stamped = (mapped = "pagado") \/ h.stamped]

\* Mutants of the status after the payment: paid in any case, or never.
SettledAlways(row) == IF row.pay = "pagado" THEN StatusSet(row, "pagado") ELSE row
SettledNever(row) == row

\* update_status to PAID, when the row just written allows it.
Settled(row) ==
    IF row.pay = "pagado" /\ CanTransition(row.status, "pagado")
      THEN StatusSet(row, "pagado")
      ELSE row

HookWrite(w) ==
    /\ hook[w].pc = "write"
    /\ rows' = [rows EXCEPT ![OrderOf[hook[w].payment]] = Settled(PaymentSet(@, hook[w]))]
    /\ hook' = [hook EXCEPT ![w] = HookIdle]
    /\ UNCHANGED <<mp, pos, checkout>>

\* The process ends or the database fails before the commit.  A notification is
\* sent again: HookFetch may be taken at any time.
HookFails(w) ==
    /\ hook[w].pc # "idle"
    /\ hook' = [hook EXCEPT ![w] = HookIdle]
    /\ UNCHANGED <<mp, rows, pos, checkout>>

-----------------------------------------------------------------------------
Pos(t) ==
    \/ \E o \in Orders, target \in OrderStatus : PosRead(t, o, target)
    \/ PosWrite(t)
    \/ PosFails(t)

Checkout(c) ==
    \/ \E o \in Orders : CheckoutRead(c, o)
    \/ CheckoutWrite(c)
    \/ CheckoutFails(c)

Hook(w) ==
    \/ \E p \in Payments : HookFetch(w, p)
    \/ HookRead(w)
    \/ HookWrite(w)
    \/ HookFails(w)

Next ==
    \/ \E o \in Orders : Place(o) \/ PlacePaid(o)
    \/ \E p \in Payments : ProviderStep(p)
    \/ \E t \in Terminals : Pos(t)
    \/ \E c \in Checkouts : Checkout(c)
    \/ \E w \in Webhooks : Hook(w)

Spec == Init /\ [][Next]_vars

-----------------------------------------------------------------------------
(***************************************************************************)
(* Properties.                                                             *)
(***************************************************************************)

\* Every variable stays in its domain.
TypeOK ==
    /\ mp \in [Payments -> ProviderStatus]
    /\ rows \in [Orders -> Row]
    /\ pos \in [Terminals -> PosRequest]
    /\ checkout \in [Checkouts -> Orders \cup {NoOrder}]
    /\ hook \in [Webhooks -> HookRequest]

\* The committed status of an order only ever moves along the transitions of
\* can_transition_to, although the POS checks the status before it writes it and
\* payments are notified in between.
TransitionsAreValid ==
    [][\A o \in Orders :
         rows[o] # NoRow =>
           \/ rows'[o].status = rows[o].status
           \/ CanTransition(rows[o].status, rows'[o].status)]_vars

\* An order whose payment is recorded as approved never waits as "pendiente",
\* where the POS does not see it: payment and status change in one commit.
PaidIsNotPending ==
    \A o \in Orders : rows[o].pay = "pagado" => rows[o].status # "pendiente"

\* An order is recorded as paid only with a payment of its own that MercadoPago
\* has approved, however late and in whatever order notifications are applied.
PaidIsBacked ==
    \A o \in Orders :
      rows[o].pay = "pagado" =>
        \/ rows[o].payment = CheckoutPayment
        \/ /\ rows[o].payment \in Payments
           /\ OrderOf[rows[o].payment] = o
           /\ mp[rows[o].payment] \in EverApproved

\* A paid order stays paid.
PaidStaysPaid ==
    [][\A o \in Orders : rows[o].pay = "pagado" => rows'[o].pay = "pagado"]_vars

=============================================================================

---------------------------- MODULE PaymentWebhook ----------------------------
(***************************************************************************)
(* The checkout path of the MercadoPago webhook.                           *)
(*                                                                         *)
(* A customer opens a checkout session and pays it, once or several times, *)
(* at MercadoPago.  MercadoPago notifies the backend of every change of a  *)
(* payment, at least once.  Each notification is handled by a request with *)
(* its own database transaction; up to Cardinality(Workers) of them run    *)
(* at the same time, in one event loop or in several uvicorn processes.    *)
(*                                                                         *)
(* The database is MySQL/InnoDB at its default isolation, REPEATABLE READ: *)
(* a SELECT reads the snapshot taken by the first SELECT of the            *)
(* transaction, an UPDATE works on the row last committed and keeps the    *)
(* row locked until the transaction ends, and an INSERT of a unique key    *)
(* that another transaction has inserted waits for that transaction, with  *)
(* a shared lock of the key if that one is rolled back.  The rows of users *)
(* and coupons that the creation of an order locks are those of Settlement *)
(* and left out here: who loses a deadlock over them is rolled back, which *)
(* is an Abort.                                                            *)
(* So one step of a request is: all reads of one snapshot, or one write    *)
(* statement that may wait, or the commit.                                 *)
(***************************************************************************)
EXTENDS Naturals, FiniteSets

CONSTANTS
    Sessions,        \* checkout_sessions.id
    Payments,        \* provider_payment_id of MercadoPago payments
    Orders,          \* orders.id
    Workers,         \* requests that can be in progress at the same time
    SessionOf,       \* the session a payment's external_reference resolves to
    Matching,        \* the payments whose amount equals the session's total
    ProviderSteps,   \* pairs <<old, new>> of payment statuses at MercadoPago
    Faults,          \* kinds of fault that may happen
    MaxFaults,       \* bound: faults in a behaviour
    MaxRedeliveries, \* bound: duplicate notifications in a behaviour
    NoOrder,         \* NULL in an order id column
    NoPayment        \* no payment: an order id not in use, an idle worker

ProviderStatus == {"none", "pending", "in_process", "authorized", "approved",
                   "rejected", "cancelled", "refunded", "charged_back"}

\* The statuses of a payment that is, or once was, approved.
EverApproved == {"approved", "refunded", "charged_back"}

FaultKinds == {"fetch", "refuse", "abort", "ackloss"}

ASSUME SessionOfAssumption == SessionOf \in [Payments -> Sessions]
ASSUME NullAssumption == NoOrder \notin Orders /\ NoPayment \notin Payments
ASSUME FaultsAssumption == Faults \subseteq FaultKinds
ASSUME BoundsAssumption == MaxFaults \in Nat /\ MaxRedeliveries \in Nat
\* A payment that was approved can only be given back afterwards.
ASSUME ProviderAssumption ==
    /\ ProviderSteps \subseteq ProviderStatus \X (ProviderStatus \ {"none"})
    /\ \A st \in ProviderSteps :
         st[1] \in EverApproved => st[2] \in EverApproved

VARIABLES
    mp,           \* payment id -> its status at MercadoPago
    due,          \* payment id -> notifications sent and not yet answered
    redeliveries, \* duplicate notifications sent so far
    faults,       \* faults so far
    sess,         \* table checkout_sessions: id -> [status, order]
    pay,          \* table payments: provider id -> [status, order]
    orders,       \* table orders: id -> mp_payment_id of the order
    req           \* worker -> the request it handles

provider == <<mp, due, redeliveries>>
db == <<sess, pay, orders>>
vars == <<mp, due, redeliveries, faults, sess, pay, orders, req>>

(***************************************************************************)
(* Rows.  The status "none" stands for a row that does not exist (in a     *)
(* table) or for no write (in the write buffer of a request).              *)
(***************************************************************************)
SessionStatus == {"none", "pending", "pendiente", "rechazado",
                  "amount_mismatch", "processing_order", "pagado"}
PaymentStatus == {"none", "pendiente", "rechazado", "pagado", "amount_mismatch"}

OrderId == Orders \cup {NoOrder}
SessionRow == [status : SessionStatus, order : OrderId]
PaymentRow == [status : PaymentStatus, order : OrderId]
NoRow == [status |-> "none", order |-> NoOrder]

(***************************************************************************)
(* A request: where it stands (pc), the payment it is about (p), the       *)
(* status MercadoPago gave for it (got), the session object read first     *)
(* (seen), the session in the snapshot of the transaction in progress      *)
(* (snap), order_id of the payment object upsert returned (found), whether *)
(* it holds the lock of the session row (lock), and its writes that are    *)
(* not committed: the payment row, the session row and the new order.      *)
(***************************************************************************)
PC == {"idle", "fetch", "read", "insert", "queued", "mark", "approve", "create", "commit"}

Request ==
    [pc : PC, p : Payments \cup {NoPayment}, got : ProviderStatus,
     seen : SessionRow, snap : SessionRow, found : OrderId, lock : BOOLEAN,
     wPay : PaymentRow, wSess : SessionRow, wOrder : OrderId]

Idle ==
    [pc |-> "idle", p |-> NoPayment, got |-> "none",
     seen |-> NoRow, snap |-> NoRow, found |-> NoOrder, lock |-> FALSE,
     wPay |-> NoRow, wSess |-> NoRow, wOrder |-> NoOrder]

SessionIn(w) == SessionOf[req[w].p]

\* Mutant: an authorization is taken for a payment.
MapPaymentStatusAuthorized(status) ==
    CASE status \in {"approved", "authorized"} -> "pagado"
      [] status \in {"rejected", "cancelled", "refunded", "charged_back"} -> "rechazado"
      [] OTHER -> "pendiente"

\* ProcessMercadoPagoWebhookUseCase._map_payment_status
MapPaymentStatus(status) ==
    CASE status = "approved" -> "pagado"
      [] status \in {"rejected", "cancelled", "refunded", "charged_back"} -> "rechazado"
      [] OTHER -> "pendiente"

\* Mutant: the provider's status is saved as it is.
InternalStatusRaw(p, status) == status

\* The status saved: the mapped one, unless an approved amount differs.
InternalStatus(p, status) ==
    IF MapPaymentStatus(status) = "pagado" /\ p \notin Matching
      THEN "amount_mismatch"
      ELSE MapPaymentStatus(status)

\* Mutant: an approval is enough, whatever the amount.
PayableAnyAmount(p, status) == MapPaymentStatus(status) = "pagado"

Payable(p, status) == InternalStatus(p, status) = "pagado"

\* Mutant: an UPDATE of the session row does not wait for another one.
NoSessionHolders(w) == {}

\* The other transactions that keep the session row of w locked,
SessionHolders(w) ==
    {v \in Workers \ {w} : req[v].lock /\ SessionIn(v) = SessionIn(w)}

\* and those that keep its payment row, or the unique key of it, locked for writing.
PaymentHolders(w) ==
    {v \in Workers \ {w} : req[v].wPay # NoRow /\ req[v].p = req[w].p}

\* The INSERTs of the same key that have met an uncommitted row.  If it is rolled
\* back, each of them has a shared lock on the key and its gap.  (If it is committed,
\* each of them fails, and its transaction is rolled back at once.)
Queued(w) ==
    {v \in Workers \ {w} : req[v].pc = "queued" /\ req[v].p = req[w].p}

\* Mutant: nobody looks for transactions that wait for each other.
NeverDeadlocked(w) == FALSE

\* The writer of the key was rolled back, and w and another INSERT have the shared
\* lock that keeps the other from inserting.
Deadlocked(w) ==
    /\ req[w].pc = "queued"
    /\ PaymentHolders(w) = {}
    /\ pay[req[w].p] = NoRow
    /\ Queued(w) # {}

FreshOrders ==
    {o \in Orders : orders[o] = NoPayment /\ \A v \in Workers : req[v].wOrder # o}

MayFail(kind) ==
    /\ kind \in Faults
    /\ faults < MaxFaults
    /\ faults' = faults + 1

Go(w, r) == req' = [req EXCEPT ![w] = r]

Init ==
    /\ mp = [p \in Payments |-> "none"]
    /\ due = [p \in Payments |-> 0]
    /\ redeliveries = 0
    /\ faults = 0
    /\ sess = [s \in Sessions |-> NoRow]
    /\ pay = [p \in Payments |-> NoRow]
    /\ orders = [o \in Orders |-> NoPayment]
    /\ req = [w \in Workers |-> Idle]

-----------------------------------------------------------------------------
(***************************************************************************)
(* The customer and MercadoPago.                                           *)
(***************************************************************************)

\* POST /payments/create-preference with a cart.  The session row is inserted
\* before MercadoPago is called and committed after it answered; when the call
\* fails the insert is rolled back, and nothing was visible in between.
CreatePreference(s) ==
    /\ sess[s] = NoRow
    /\ sess' = [sess EXCEPT ![s] = [status |-> "pending", order |-> NoOrder]]
    /\ UNCHANGED <<provider, faults, pay, orders, req>>

\* A payment of an open session is made, or its status changes.
ProviderStep(p) ==
    /\ sess[SessionOf[p]] # NoRow
    /\ \E st \in ProviderSteps :
         /\ mp[p] = st[1]
         /\ mp' = [mp EXCEPT ![p] = st[2]]
    /\ due' = [due EXCEPT ![p] = @ + 1]
    /\ UNCHANGED <<redeliveries, faults, db, req>>

\* MercadoPago sends a notification again that it holds for unanswered.
Redeliver(p) ==
    /\ mp[p] # "none"
    /\ redeliveries < MaxRedeliveries
    /\ redeliveries' = redeliveries + 1
    /\ due' = [due EXCEPT ![p] = @ + 1]
    /\ UNCHANGED <<mp, faults, db, req>>

-----------------------------------------------------------------------------
(***************************************************************************)
(* The request: POST /payments/webhook.                                    *)
(***************************************************************************)

\* A notification of type payment with an id reaches a free handler.
Deliver(w, p) ==
    /\ req[w].pc = "idle"
    /\ due[p] > 0
    /\ due' = [due EXCEPT ![p] = @ - 1]
    /\ Go(w, [Idle EXCEPT !.pc = "fetch", !.p = p])
    /\ UNCHANGED <<mp, redeliveries, faults, db>>

\* get_payment: the status the provider has now, no matter which change the
\* notification was sent for.
Fetch(w) ==
    /\ req[w].pc = "fetch"
    /\ Go(w, [req[w] EXCEPT !.pc = "read", !.got = mp[req[w].p]])
    /\ UNCHANGED <<provider, faults, db>>

\* get_payment fails (timeout, HTTP error): PaymentError is a DomainError, which
\* the route answers with 200 "ignored", so the notification is not sent again.
FetchFails(w) ==
    /\ req[w].pc = "fetch"
    /\ MayFail("fetch")
    /\ Go(w, Idle)
    /\ UNCHANGED <<provider, db>>

\* The first reads take the snapshot.  A payment already registered is a
\* duplicate: the request reads the order, if there is one, and answers 200.
ReadDuplicate(w) ==
    /\ req[w].pc = "read"
    /\ pay[req[w].p] # NoRow
    /\ Go(w, Idle)
    /\ UNCHANGED <<provider, faults, db>>

ReadNew(w) ==
    /\ req[w].pc = "read"
    /\ pay[req[w].p] = NoRow
    /\ LET row == sess[SessionIn(w)]
       IN  Go(w, [req[w] EXCEPT !.pc = "insert", !.seen = row, !.snap = row])
    /\ UNCHANGED <<provider, faults, db>>

\* After the payment row is settled: an approved payment of the right amount
\* goes on to the order, any other only marks the session.
AfterUpsert(w) ==
    IF Payable(req[w].p, req[w].got) THEN "approve" ELSE "mark"

\* upsert: its INSERT meets the row that another request has inserted and not
\* committed, and waits.
InsertWaits(w) ==
    /\ req[w].pc = "insert"
    /\ PaymentHolders(w) # {}
    /\ pay[req[w].p] = NoRow
    /\ Go(w, [req[w] EXCEPT !.pc = "queued"])
    /\ UNCHANGED <<provider, faults, db>>

\* upsert: INSERT of the payment row, flushed and not committed.
Insert(w) ==
    /\ req[w].pc \in {"insert", "queued"}
    /\ PaymentHolders(w) \cup Queued(w) = {}
    /\ pay[req[w].p] = NoRow
    /\ LET row == [status |-> InternalStatus(req[w].p, req[w].got),
                   order |-> req[w].seen.order]
       IN  Go(w, [req[w] EXCEPT !.pc = AfterUpsert(w), !.wPay = row,
                                !.found = row.order])
    /\ UNCHANGED <<provider, faults, db>>

\* upsert: another request has committed the row meanwhile.  IntegrityError:
\* the transaction is rolled back, a new one reads the row and a new snapshot,
\* and the request goes on with the session object of the old one.
InsertConflict(w) ==
    /\ req[w].pc \in {"insert", "queued"}
    /\ PaymentHolders(w) = {}
    /\ pay[req[w].p] # NoRow
    /\ Go(w, [req[w] EXCEPT !.pc = AfterUpsert(w),
                            !.found = pay[req[w].p].order,
                            !.snap = sess[SessionIn(w)]])
    /\ UNCHANGED <<provider, faults, db>>

\* Mutant: the whole session object read first is written back.
MarkedStale(w) ==
    [req[w].seen EXCEPT !.status = InternalStatus(req[w].p, req[w].got)]

\* update_status of the session without an order: only its status changes.
Marked(w) ==
    [sess[SessionIn(w)] EXCEPT !.status = InternalStatus(req[w].p, req[w].got)]

\* A payment that is not approved, or of a wrong amount: update_status of the
\* session, whatever its status is.
MarkSession(w) ==
    /\ req[w].pc = "mark"
    /\ SessionHolders(w) = {}
    /\ Go(w, [req[w] EXCEPT !.pc = "commit", !.lock = TRUE, !.wSess = Marked(w)])
    /\ UNCHANGED <<provider, faults, db>>

\* attach_order to the payment row.
Attached(w, o) ==
    IF req[w].wPay # NoRow
      THEN [req[w].wPay EXCEPT !.order = o]
      ELSE [pay[req[w].p] EXCEPT !.order = o]

\* create_order_from_approved_payment, its two outcomes before the claim: the
\* payment already has its order (orders are never deleted: get_by_id finds it);
ReturnPaymentOrder(w) ==
    /\ req[w].pc = "approve"
    /\ req[w].found # NoOrder
    /\ Go(w, [req[w] EXCEPT !.pc = "commit"])
    /\ UNCHANGED <<provider, faults, db>>

\* or the session read first has one, and the payment is attached to it.
AttachSessionOrder(w) ==
    /\ req[w].pc = "approve"
    /\ req[w].found = NoOrder
    /\ req[w].seen.order # NoOrder
    /\ PaymentHolders(w) = {}
    /\ Go(w, [req[w] EXCEPT !.pc = "commit", !.wPay = Attached(w, req[w].seen.order)])
    /\ UNCHANGED <<provider, faults, db>>

\* claim_for_order_creation is reached, and the session row is not locked.
Claiming(w) ==
    /\ req[w].pc = "approve"
    /\ req[w].found = NoOrder
    /\ req[w].seen.order = NoOrder
    /\ SessionHolders(w) = {}

\* Mutants: the claim without its guard; a claim that forgets new sessions.
ClaimableAlways(row) == TRUE
ClaimableMarked(row) == row.order = NoOrder /\ row.status = "pendiente"

Claimable(row) == row.order = NoOrder /\ row.status \in {"pending", "pendiente"}

\* The claim updated the row.  When the session object read first was being
\* processed, the request takes itself for a duplicate and stops there.
Claim(w) ==
    /\ Claiming(w)
    /\ Claimable(sess[SessionIn(w)])
    /\ Go(w, [req[w] EXCEPT
                !.pc = IF req[w].seen.status = "processing_order"
                         THEN "commit" ELSE "create",
                !.lock = TRUE,
                !.wSess = [status |-> "processing_order", order |-> NoOrder]])
    /\ UNCHANGED <<provider, faults, db>>

\* The claim updated no row, and the snapshot shows no order: nothing more.
ClaimRejected(w) ==
    /\ Claiming(w)
    /\ ~ Claimable(sess[SessionIn(w)])
    /\ req[w].snap.order = NoOrder
    /\ Go(w, [req[w] EXCEPT !.pc = "commit", !.lock = TRUE])
    /\ UNCHANGED <<provider, faults, db>>

\* The claim updated no row, and the snapshot (a new one, after a conflict)
\* shows the order of another request: the payment is attached to it.
ClaimFindsOrder(w) ==
    /\ Claiming(w)
    /\ ~ Claimable(sess[SessionIn(w)])
    /\ req[w].snap.order # NoOrder
    /\ PaymentHolders(w) = {}
    /\ Go(w, [req[w] EXCEPT !.pc = "commit", !.lock = TRUE,
                            !.wPay = Attached(w, req[w].snap.order)])
    /\ UNCHANGED <<provider, faults, db>>

\* Mutant: the session is marked as paid without its order.
PaidWithoutOrder(o) == [status |-> "pagado", order |-> NoOrder]

\* update_status of the session with the order created.
PaidSession(o) == [status |-> "pagado", order |-> o]

\* CreateOrderUseCase prices the cart again and saves the order; then
\* update_payment, update_status to PAID, attach_order and update_status of the
\* session.  None of this is visible before the commit.
CreateOrder(w) ==
    /\ req[w].pc = "create"
    /\ PaymentHolders(w) = {}
    /\ \E o \in FreshOrders :
         Go(w, [req[w] EXCEPT !.pc = "commit", !.wOrder = o,
                              !.wPay = Attached(w, o),
                              !.wSess = PaidSession(o)])
    /\ UNCHANGED <<provider, faults, db>>

\* Pricing refuses the cart now (a product withdrawn, a coupon used up, too few
\* points, an address deleted).  The DomainError is answered with 200 "ignored",
\* and what the transaction has written so far is committed.
CreateRefused(w) ==
    /\ req[w].pc = "create"
    /\ MayFail("refuse")
    /\ Go(w, [req[w] EXCEPT !.pc = "commit"])
    /\ UNCHANGED <<provider, db>>

\* get_db commits after the handler: the buffered rows become visible and the
\* locks are released.
ApplyWrites(w) ==
    LET r == req[w]
    IN  /\ sess' = IF r.wSess = NoRow THEN sess
                     ELSE [sess EXCEPT ![SessionIn(w)] = r.wSess]
        /\ pay' = IF r.wPay = NoRow THEN pay ELSE [pay EXCEPT ![r.p] = r.wPay]
        /\ orders' = IF r.wOrder = NoOrder THEN orders
                       ELSE [orders EXCEPT ![r.wOrder] = r.p]

Commit(w) ==
    /\ req[w].pc = "commit"
    /\ ApplyWrites(w)
    /\ Go(w, Idle)
    /\ UNCHANGED <<provider, faults>>

\* The process ends, or the connection breaks, after the commit and before the
\* answer: MercadoPago sends the notification again.
CommitUnanswered(w) ==
    /\ req[w].pc = "commit"
    /\ MayFail("ackloss")
    /\ ApplyWrites(w)
    /\ due' = [due EXCEPT ![req[w].p] = @ + 1]
    /\ Go(w, Idle)
    /\ UNCHANGED <<mp, redeliveries>>

\* Mutant: a failed handler commits what it has written.
AbortCommits(w) ==
    /\ req[w].pc # "idle"
    /\ MayFail("abort")
    /\ ApplyWrites(w)
    /\ due' = [due EXCEPT ![req[w].p] = @ + 1]
    /\ Go(w, Idle)
    /\ UNCHANGED <<mp, redeliveries>>

\* An exception that is no DomainError (deadlock victim, lock wait timeout, lost
\* connection, commit failure) or the end of the process: the transaction is
\* rolled back, and MercadoPago, answered 500 or nothing, sends again.
Abort(w) ==
    /\ req[w].pc # "idle"
    /\ MayFail("abort")
    /\ due' = [due EXCEPT ![req[w].p] = @ + 1]
    /\ Go(w, Idle)
    /\ UNCHANGED <<mp, redeliveries, db>>

\* InnoDB rolls back one of the INSERTs that wait for each other: no IntegrityError,
\* so the answer is 500 and MercadoPago sends again.
Victim(w) ==
    /\ Deadlocked(w)
    /\ due' = [due EXCEPT ![req[w].p] = @ + 1]
    /\ Go(w, Idle)
    /\ UNCHANGED <<mp, redeliveries, faults, db>>

-----------------------------------------------------------------------------
\* The steps of a request in which nothing goes wrong.
Handle(w) ==
    \/ Fetch(w)
    \/ ReadDuplicate(w)
    \/ ReadNew(w)
    \/ InsertWaits(w)
    \/ Insert(w)
    \/ InsertConflict(w)
    \/ MarkSession(w)
    \/ ReturnPaymentOrder(w)
    \/ AttachSessionOrder(w)
    \/ Claim(w)
    \/ ClaimRejected(w)
    \/ ClaimFindsOrder(w)
    \/ CreateOrder(w)
    \/ Commit(w)

Fault(w) ==
    \/ FetchFails(w)
    \/ CreateRefused(w)
    \/ CommitUnanswered(w)
    \/ Abort(w)

Environment ==
    \/ \E s \in Sessions : CreatePreference(s)
    \/ \E p \in Payments : ProviderStep(p) \/ Redeliver(p)

Next ==
    \/ Environment
    \/ \E w \in Workers, p \in Payments : Deliver(w, p)
    \/ \E w \in Workers : Handle(w) \/ Fault(w) \/ Victim(w)

Spec == Init /\ [][Next]_vars

\* The event loop runs every request that can go on, InnoDB breaks deadlocks, and
\* MercadoPago repeats a notification until it is answered.  Nothing is assumed of
\* the customer, of the provider's decisions or of the faults.
Fairness ==
    /\ \A w \in Workers : WF_vars(Handle(w))
    /\ WF_vars(\E w \in Workers : Victim(w))
    /\ \A p \in Payments : WF_vars(\E w \in Workers : Deliver(w, p))

FairSpec == Spec /\ Fairness

-----------------------------------------------------------------------------
(***************************************************************************)
(* Properties.                                                             *)
(***************************************************************************)

\* Every variable stays in its domain.
TypeOK ==
    /\ mp \in [Payments -> ProviderStatus]
    /\ due \in [Payments -> Nat]
    /\ redeliveries \in Nat
    /\ faults \in Nat
    /\ sess \in [Sessions -> SessionRow]
    /\ pay \in [Payments -> PaymentRow]
    /\ orders \in [Orders -> Payments \cup {NoPayment}]
    /\ req \in [Workers -> Request]

Created(o) == orders[o] # NoPayment
OrderSession(o) == SessionOf[orders[o]]

\* A cart is never turned into two orders, however many payments of the session
\* are approved, and however their notifications are repeated, overlap or fail
\* half way (the claim of claim_for_order_creation and the single commit).
OneOrderPerSession ==
    \A o1, o2 \in Orders :
      Created(o1) /\ Created(o2) /\ OrderSession(o1) = OrderSession(o2) => o1 = o2

\* created_order_id of a session and the order agree in both directions: no
\* order without its session, no session that names an order of another cart.
SessionAndOrderAgree ==
    /\ \A o \in Orders : Created(o) => sess[OrderSession(o)].order = o
    /\ \A s \in Sessions :
         sess[s].order # NoOrder =>
           Created(sess[s].order) /\ OrderSession(sess[s].order) = s

\* A payment is attached to the order of its own session and to no other, also
\* when the attachment was decided on a stale session object or snapshot.
PaymentAndOrderAgree ==
    \A p \in Payments :
      pay[p].order # NoOrder => pay[p].order = sess[SessionOf[p]].order

\* Every order was created for a payment of the right amount that MercadoPago
\* has approved (it may have been given back since), and that payment is
\* registered and attached to it.
OrderIsBacked ==
    \A o \in Orders :
      Created(o) =>
        /\ orders[o] \in Matching
        /\ mp[orders[o]] \in EverApproved
        /\ pay[orders[o]].order = o

\* Once a session names its order no later notification, of whatever payment
\* and status, makes it name another or none; nor does an order vanish, or a
\* payment lose its order.
OrdersAreKept ==
    [][ /\ \A s \in Sessions : sess[s].order # NoOrder => sess'[s].order = sess[s].order
        /\ \A o \in Orders : Created(o) => orders'[o] = orders[o]
        /\ \A p \in Payments : pay[p].order # NoOrder => pay'[p].order = pay[p].order ]_vars

\* The claim is never seen without the order, whatever crashes: a session is
\* left in processing_order only when the creation of its order was refused
\* (so this holds where "refuse" is not among the Faults).
ClaimNeverSurvives == \A s \in Sessions : sess[s].status # "processing_order"

\* Every request that has started is answered or rolled back: the locks that webhooks
\* of one payment or session take, in two orders and while others fail, never make
\* them wait for each other for ever.
RequestsEnd == \A w \in Workers : req[w].pc # "idle" ~> req[w].pc = "idle"

\* An approved payment of the right amount eventually gives its session an
\* order.
ApprovedGetsOrder ==
    \A p \in Matching : mp[p] = "approved" ~> sess[SessionOf[p]].order # NoOrder

-----------------------------------------------------------------------------
(***************************************************************************)
(* The webhook implements OrderPromise.                                    *)
(***************************************************************************)
Promise ==
    INSTANCE OrderPromise WITH
        approved <- {p \in Payments : mp[p] \in EverApproved},
        orderOf <- [s \in Sessions |-> sess[s].order],
        paidWith <- orders

\* Every behaviour of the webhook handlers, with their crashes and repetitions,
\* is one of OrderPromise: the commit that shows an order shows it with the
\* session and the payment, for an approved payment of a session without order.
ImplementsPromise == Promise!Spec

=============================================================================

------------------------ MODULE OrderLifecycle_proofs ------------------------
(***************************************************************************)
(* Proofs about OrderLifecycle, for every set of orders, payments,         *)
(* terminals and requests, and every provider.                             *)
(***************************************************************************)
EXTENDS OrderLifecycle, TLAPS

-----------------------------------------------------------------------------
(***************************************************************************)
(* The operators.                                                          *)
(***************************************************************************)
LEMMA RowTypes == NoRow \in Row /\ PosIdle \in PosRequest /\ HookIdle \in HookRequest
  BY DEF NoRow, Row, OrderStatus, PaymentStatus, PosIdle, PosRequest, HookIdle,
         HookRequest, ProviderStatus

\* Only an approved payment counts as paid.
LEMMA MapPaymentStatusOK ==
    ASSUME NEW st \in ProviderStatus
    PROVE  /\ MapPaymentStatus(st) \in PaymentStatus
           /\ MapPaymentStatus(st) = "pagado" => st \in EverApproved
  BY DEF MapPaymentStatus, PaymentStatus, EverApproved

\* A transition starts and ends in a status, and leads to a new one.
LEMMA TransitionOK ==
    ASSUME NEW a, NEW b, CanTransition(a, b)
    PROVE  /\ a \in OrderStatus /\ b \in OrderStatus
           /\ b # "pendiente"
           /\ b = "pagado" => a = "pendiente"
           /\ a = "pendiente" => CanTransition("pagado", b) \/ b = "pagado"
  BY DEF CanTransition, OrderStatus

\* update_status changes the status and the time it was paid.
LEMMA StatusSetOK ==
    ASSUME NEW row \in Row, NEW target \in OrderStatus
    PROVE  /\ StatusSet(row, target) \in Row
           /\ StatusSet(row, target).status = target
           /\ StatusSet(row, target).pay = row.pay
           /\ StatusSet(row, target).payment = row.payment
           /\ StatusSet(row, target).preference = row.preference
  BY DEF StatusSet, Row

\* A row after a notification: the payment and its status, and PAID if that is
\* a transition.
LEMMA SettledOK ==
    ASSUME NEW row \in Row, NEW h \in HookRequest, h.payment \in Payments
    PROVE  LET new == Settled(PaymentSet(row, h))
           IN  /\ new \in Row
               /\ new.pay = MapPaymentStatus(h.got)
               /\ new.payment = h.payment
               /\ new.preference = row.preference
               /\ new.status = row.status \/
                    (row.status = "pendiente" /\ new.status = "pagado")
               /\ new.pay = "pagado" => new.status # "pendiente"
  <1>. DEFINE set == PaymentSet(row, h)
  <1>1. /\ set \in Row
        /\ set.pay = MapPaymentStatus(h.got)
        /\ set.payment = h.payment
        /\ set.preference = row.preference
        /\ set.status = row.status
    <2>1. MapPaymentStatus(h.got) \in PaymentStatus
      BY MapPaymentStatusOK DEF HookRequest
    <2>2. h.stamped \in BOOLEAN
      BY DEF HookRequest
    <2>3. ((MapPaymentStatus(h.got) = "pagado") \/ h.stamped) \in BOOLEAN
      BY <2>2
    <2>. QED
      BY <2>1, <2>3 DEF PaymentSet, Row
  <1>. HIDE DEF set
  <1>2. CASE set.pay = "pagado" /\ CanTransition(set.status, "pagado")
    <2>1. set.status = "pendiente"
      BY <1>2, TransitionOK
    <2>2. Settled(set) = StatusSet(set, "pagado")
      BY <1>2 DEF Settled
    <2>3. "pagado" \in OrderStatus
      BY DEF OrderStatus
    <2>. QED
      BY <1>1, <2>1, <2>2, <2>3, StatusSetOK DEF set
  <1>3. CASE ~ (set.pay = "pagado" /\ CanTransition(set.status, "pagado"))
    <2>1. Settled(set) = set
      BY <1>3 DEF Settled
    <2>2. CanTransition("pendiente", "pagado")
      BY DEF CanTransition
    <2>. QED
      BY <1>1, <1>3, <2>1, <2>2 DEF set
  <1>. QED
    BY <1>2, <1>3

-----------------------------------------------------------------------------
(***************************************************************************)
(* The inductive invariant.                                                *)
(***************************************************************************)

\* A POS request in progress asks for a transition from the status it saw.
PosInv ==
    \A t \in Terminals :
      pos[t] # PosIdle =>
        /\ pos[t].order \in Orders
        /\ CanTransition(pos[t].seen, pos[t].target)

\* A notification in progress is about a payment, and what it was told of an
\* approval is still so.
HookInv ==
    \A w \in Webhooks :
      hook[w].pc # "idle" =>
        /\ hook[w].payment \in Payments
        /\ hook[w].got \in EverApproved => mp[hook[w].payment] \in EverApproved

IInv == TypeOK /\ PosInv /\ HookInv /\ PaidIsNotPending /\ PaidIsBacked

LEMMA IInvInit == Init => IInv
  <1>. SUFFICES ASSUME Init PROVE IInv
    OBVIOUS
  <1>1. NoRow.pay # "pagado" /\ HookIdle.pc = "idle"
    BY DEF NoRow, HookIdle
  <1>. QED
    BY <1>1, RowTypes DEF Init, IInv, TypeOK, PosInv, HookInv, PaidIsNotPending,
       PaidIsBacked, ProviderStatus

\* The three invariants about a row, of one row only.
RowOK(o, row) ==
    row.pay = "pagado" =>
      /\ row.status # "pendiente"
      /\ \/ row.payment = CheckoutPayment
         \/ /\ row.payment \in Payments
            /\ OrderOf[row.payment] = o
            /\ mp[row.payment] \in EverApproved

\* A step that changes one row, to one that is in order, keeps the table so.
LEMMA RowStep ==
    ASSUME IInv, NEW o \in Orders, NEW new \in Row, RowOK(o, new),
           rows' = [rows EXCEPT ![o] = new], UNCHANGED mp
    PROVE  rows' \in [Orders -> Row] /\ PaidIsNotPending' /\ PaidIsBacked'
  <1>1. rows \in [Orders -> Row]
    BY DEF IInv, TypeOK
  <1>2. \A q \in Orders : rows'[q] = IF q = o THEN new ELSE rows[q]
    BY <1>1
  <1>3. \A q \in Orders : RowOK(q, rows'[q])
    BY <1>2 DEF RowOK, IInv, PaidIsNotPending, PaidIsBacked
  <1>. QED
    BY <1>1, <1>3 DEF RowOK, PaidIsNotPending, PaidIsBacked

LEMMA PlaceStep ==
    ASSUME IInv, NEW o \in Orders, Place(o) \/ PlacePaid(o)
    PROVE  IInv'
  <1>. DEFINE placed == [NoRow EXCEPT !.status = "pendiente"]
              paid == [NoRow EXCEPT !.status = "pagado", !.pay = "pagado",
                                    !.payment = CheckoutPayment, !.stamped = TRUE]
  <1>1. placed \in Row /\ paid \in Row /\ RowOK(o, placed) /\ RowOK(o, paid)
    BY DEF NoRow, Row, OrderStatus, PaymentStatus, RowOK
  <1>2. rows' = [rows EXCEPT ![o] = placed] \/ rows' = [rows EXCEPT ![o] = paid]
    BY DEF Place, PlacePaid
  <1>3. UNCHANGED <<mp, pos, checkout, hook>>
    BY DEF Place, PlacePaid
  <1>. HIDE DEF placed, paid
  <1>4. rows' \in [Orders -> Row] /\ PaidIsNotPending' /\ PaidIsBacked'
    BY <1>1, <1>2, <1>3, RowStep
  <1>. QED
    BY <1>3, <1>4 DEF IInv, TypeOK, PosInv, HookInv

\* A payment that was approved stays one that was.
LEMMA ProviderStepStep ==
    ASSUME IInv, NEW p \in Payments, ProviderStep(p)
    PROVE  IInv'
  <1>1. PICK st \in ProviderSteps : mp[p] = st[1] /\ mp' = [mp EXCEPT ![p] = st[2]]
    BY DEF ProviderStep
  <1>2. /\ st[2] \in ProviderStatus
        /\ st[1] \in EverApproved => st[2] \in EverApproved
    BY ProviderAssumption
  <1>3. mp \in [Payments -> ProviderStatus]
    BY DEF IInv, TypeOK
  <1>4. /\ mp' \in [Payments -> ProviderStatus]
        /\ \A q \in Payments : mp[q] \in EverApproved => mp'[q] \in EverApproved
    BY <1>1, <1>2, <1>3
  <1>5. UNCHANGED <<rows, pos, checkout, hook>>
    BY DEF ProviderStep
  <1>. QED
    BY <1>4, <1>5 DEF IInv, TypeOK, PosInv, HookInv, PaidIsNotPending, PaidIsBacked

LEMMA PosStep ==
    ASSUME IInv, NEW t \in Terminals, Pos(t)
    PROVE  IInv'
  <1>1. pos \in [Terminals -> PosRequest] /\ rows \in [Orders -> Row]
    BY DEF IInv, TypeOK
  <1>2. ASSUME NEW o \in Orders, NEW target \in OrderStatus, PosRead(t, o, target)
        PROVE  IInv'
    <2>. DEFINE new == [order |-> o, seen |-> rows[o].status, target |-> target]
    <2>1. CanTransition(rows[o].status, target)
      BY <1>2 DEF PosRead
    <2>2. rows[o].status \in OrderStatus
      BY <2>1, TransitionOK
    <2>3. new \in PosRequest
      BY <2>2 DEF PosRequest
    <2>4. pos' = [pos EXCEPT ![t] = new] /\ UNCHANGED <<mp, rows, checkout, hook>>
      BY <1>2 DEF PosRead
    <2>5. PosInv'
      BY <1>1, <2>1, <2>4 DEF PosInv, IInv
    <2>. QED
      BY <1>1, <2>3, <2>4, <2>5 DEF IInv, TypeOK, HookInv, PaidIsNotPending, PaidIsBacked
  <1>3. CASE PosWrite(t)
    <2>. DEFINE o == pos[t].order
                new == StatusSet(rows[o], pos[t].target)
    <2>1. o \in Orders /\ CanTransition(pos[t].seen, pos[t].target)
      BY <1>3 DEF PosWrite, IInv, PosInv
    <2>2. pos[t].target \in OrderStatus /\ pos[t].target # "pendiente"
      BY <2>1, TransitionOK
    <2>3. /\ new \in Row
          /\ new.status = pos[t].target
          /\ new.pay = rows[o].pay
          /\ new.payment = rows[o].payment
      BY <1>1, <2>1, <2>2, StatusSetOK
    <2>4. /\ rows' = [rows EXCEPT ![o] = new]
          /\ pos' = [pos EXCEPT ![t] = PosIdle]
          /\ UNCHANGED <<mp, checkout, hook>>
      BY <1>3 DEF PosWrite
    <2>. HIDE DEF new
    <2>5. RowOK(o, new)
      BY <2>1, <2>2, <2>3 DEF RowOK, IInv, PaidIsBacked
    <2>6. rows' \in [Orders -> Row] /\ PaidIsNotPending' /\ PaidIsBacked'
      BY <2>1, <2>3, <2>4, <2>5, RowStep
    <2>7. PosInv'
      BY <1>1, <2>4 DEF PosInv, IInv
    <2>. QED
      BY <1>1, <2>4, <2>6, <2>7, RowTypes DEF IInv, TypeOK, HookInv
  <1>4. CASE PosFails(t)
    <2>1. pos' = [pos EXCEPT ![t] = PosIdle] /\ UNCHANGED <<mp, rows, checkout, hook>>
      BY <1>4 DEF PosFails
    <2>2. PosInv'
      BY <1>1, <2>1 DEF PosInv, IInv
    <2>. QED
      BY <1>1, <2>1, <2>2, RowTypes
         DEF IInv, TypeOK, HookInv, PaidIsNotPending, PaidIsBacked
  <1>. QED
    BY <1>2, <1>3, <1>4 DEF Pos

LEMMA CheckoutStep ==
    ASSUME IInv, NEW c \in Checkouts, Checkout(c)
    PROVE  IInv'
  <1>1. checkout \in [Checkouts -> Orders \cup {NoOrder}] /\ rows \in [Orders -> Row]
    BY DEF IInv, TypeOK
  <1>2. CASE (\E o \in Orders : CheckoutRead(c, o)) \/ CheckoutFails(c)
    <2>1. checkout' \in [Checkouts -> Orders \cup {NoOrder}]
      BY <1>1, <1>2 DEF CheckoutRead, CheckoutFails
    <2>2. UNCHANGED <<mp, rows, pos, hook>>
      BY <1>2 DEF CheckoutRead, CheckoutFails
    <2>. QED
      BY <2>1, <2>2 DEF IInv, TypeOK, PosInv, HookInv, PaidIsNotPending, PaidIsBacked
  <1>3. CASE CheckoutWrite(c)
    <2>. DEFINE o == checkout[c]
                new == [rows[o] EXCEPT !.preference = TRUE, !.pay = "pendiente"]
    <2>1. o \in Orders
      BY <1>1, <1>3 DEF CheckoutWrite
    <2>2. new \in Row /\ new.pay = "pendiente"
      <3>1. rows[o] \in Row /\ "pendiente" \in PaymentStatus /\ TRUE \in BOOLEAN
        BY <1>1, <2>1 DEF PaymentStatus
      <3>. HIDE DEF o
      <3>. QED
        BY <3>1 DEF Row
    <2>3. /\ rows' = [rows EXCEPT ![o] = new]
          /\ checkout' = [checkout EXCEPT ![c] = NoOrder]
          /\ UNCHANGED <<mp, pos, hook>>
      BY <1>3 DEF CheckoutWrite
    <2>. HIDE DEF new
    <2>4. RowOK(o, new)
      BY <2>2 DEF RowOK
    <2>5. rows' \in [Orders -> Row] /\ PaidIsNotPending' /\ PaidIsBacked'
      BY <2>1, <2>2, <2>3, <2>4, RowStep
    <2>. QED
      BY <1>1, <2>3, <2>5 DEF IInv, TypeOK, PosInv, HookInv
  <1>. QED
    BY <1>2, <1>3 DEF Checkout

LEMMA HookStep ==
    ASSUME IInv, NEW w \in Webhooks, Hook(w)
    PROVE  IInv'
  <1>1. /\ hook \in [Webhooks -> HookRequest]
        /\ rows \in [Orders -> Row]
        /\ mp \in [Payments -> ProviderStatus]
    BY DEF IInv, TypeOK
  <1>2. HookIdle.pc = "idle"
    BY DEF HookIdle
  \* A step that only replaces the request by one that is in order.
  <1>3. ASSUME NEW h \in HookRequest, hook' = [hook EXCEPT ![w] = h],
               UNCHANGED <<mp, pos, checkout>>,
               h.pc # "idle" =>
                 /\ h.payment \in Payments
                 /\ h.got \in EverApproved => mp[h.payment] \in EverApproved
        PROVE  hook' \in [Webhooks -> HookRequest] /\ HookInv'
    BY <1>1, <1>3 DEF HookInv, IInv
  <1>4. ASSUME NEW p \in Payments, HookFetch(w, p)
        PROVE  IInv'
    <2>. DEFINE h == [pc |-> "read", payment |-> p, got |-> mp[p], stamped |-> FALSE]
    <2>1. h \in HookRequest
      BY <1>1 DEF HookRequest
    <2>2. hook' = [hook EXCEPT ![w] = h] /\ UNCHANGED <<mp, rows, pos, checkout>>
      BY <1>4 DEF HookFetch
    <2>3. hook' \in [Webhooks -> HookRequest] /\ HookInv'
      BY <1>3, <2>1, <2>2
    <2>. QED
      BY <2>2, <2>3 DEF IInv, TypeOK, PosInv, PaidIsNotPending, PaidIsBacked
  <1>5. CASE HookRead(w)
    <2>. DEFINE h == [hook[w] EXCEPT !.pc = "write",
                                     !.stamped = rows[OrderOf[hook[w].payment]].stamped]
    <2>1. /\ hook[w] \in HookRequest
          /\ hook[w].payment \in Payments
          /\ hook[w].got \in EverApproved => mp[hook[w].payment] \in EverApproved
      BY <1>1, <1>5 DEF HookRead, IInv, HookInv
    <2>2. rows[OrderOf[hook[w].payment]].stamped \in BOOLEAN
      BY <1>1, <2>1, OrderOfAssumption DEF Row
    <2>3. h \in HookRequest /\ h.payment = hook[w].payment /\ h.got = hook[w].got
      BY <2>1, <2>2 DEF HookRequest
    <2>4. hook' = [hook EXCEPT ![w] = h] /\ UNCHANGED <<mp, rows, pos, checkout>>
      BY <1>5 DEF HookRead
    <2>. HIDE DEF h
    <2>5. hook' \in [Webhooks -> HookRequest] /\ HookInv'
      BY <1>3, <2>1, <2>3, <2>4
    <2>. QED
      BY <2>4, <2>5 DEF IInv, TypeOK, PosInv, PaidIsNotPending, PaidIsBacked
  <1>6. CASE HookWrite(w)
    <2>. DEFINE o == OrderOf[hook[w].payment]
                new == Settled(PaymentSet(rows[o], hook[w]))
    <2>1. /\ hook[w] \in HookRequest
          /\ hook[w].payment \in Payments
          /\ hook[w].got \in EverApproved => mp[hook[w].payment] \in EverApproved
          /\ hook[w].got \in ProviderStatus
      BY <1>1, <1>6 DEF HookWrite, IInv, HookInv, HookRequest
    <2>2. o \in Orders
      BY <2>1, OrderOfAssumption
    <2>3. /\ new \in Row
          /\ new.pay = MapPaymentStatus(hook[w].got)
          /\ new.payment = hook[w].payment
          /\ new.pay = "pagado" => new.status # "pendiente"
      BY <1>1, <2>1, <2>2, SettledOK
    <2>4. /\ rows' = [rows EXCEPT ![o] = new]
          /\ hook' = [hook EXCEPT ![w] = HookIdle]
          /\ UNCHANGED <<mp, pos, checkout>>
      BY <1>6 DEF HookWrite
    <2>. HIDE DEF new
    <2>5. RowOK(o, new)
      BY <2>1, <2>3, MapPaymentStatusOK DEF RowOK
    <2>6. rows' \in [Orders -> Row] /\ PaidIsNotPending' /\ PaidIsBacked'
      BY <2>2, <2>3, <2>4, <2>5, RowStep
    <2>7. hook' \in [Webhooks -> HookRequest] /\ HookInv'
      BY <1>2, <1>3, <2>4, RowTypes
    <2>. QED
      BY <2>4, <2>6, <2>7 DEF IInv, TypeOK, PosInv
  <1>7. CASE HookFails(w)
    <2>1. hook' = [hook EXCEPT ![w] = HookIdle] /\ UNCHANGED <<mp, rows, pos, checkout>>
      BY <1>7 DEF HookFails
    <2>2. hook' \in [Webhooks -> HookRequest] /\ HookInv'
      BY <1>2, <1>3, <2>1, RowTypes
    <2>. QED
      BY <2>1, <2>2 DEF IInv, TypeOK, PosInv, PaidIsNotPending, PaidIsBacked
  <1>. QED
    BY <1>4, <1>5, <1>6, <1>7 DEF Hook

LEMMA IInvStep == IInv /\ [Next]_vars => IInv'
  <1>. SUFFICES ASSUME IInv, [Next]_vars PROVE IInv'
    OBVIOUS
  <1>1. CASE \E o \in Orders : Place(o) \/ PlacePaid(o)
    BY <1>1, PlaceStep
  <1>2. CASE \E p \in Payments : ProviderStep(p)
    BY <1>2, ProviderStepStep
  <1>3. CASE \E t \in Terminals : Pos(t)
    BY <1>3, PosStep
  <1>4. CASE \E c \in Checkouts : Checkout(c)
    BY <1>4, CheckoutStep
  <1>5. CASE \E w \in Webhooks : Hook(w)
    BY <1>5, HookStep
  <1>6. CASE UNCHANGED vars
    BY <1>6 DEF vars, IInv, TypeOK, PosInv, HookInv, PaidIsNotPending, PaidIsBacked
  <1>. QED
    BY <1>1, <1>2, <1>3, <1>4, <1>5, <1>6 DEF Next

LEMMA Invariance == Spec => []IInv
  BY IInvInit, IInvStep, PTL DEF Spec

\* Every variable stays in its domain.
THEOREM TypeCorrect == Spec => []TypeOK
  <1>1. IInv => TypeOK
    BY DEF IInv
  <1>. QED
    BY <1>1, Invariance, PTL

\* An order recorded as paid is never left in "pendiente": update_payment and
\* update_status of _process_legacy_order_payment are one transaction.
THEOREM PaidOrdersAreSeen == Spec => []PaidIsNotPending
  <1>1. IInv => PaidIsNotPending
    BY DEF IInv
  <1>. QED
    BY <1>1, Invariance, PTL

\* An order is recorded as paid only with an approved payment of its own.
THEOREM PaidOrdersAreBacked == Spec => []PaidIsBacked
  <1>1. IInv => PaidIsBacked
    BY DEF IInv
  <1>. QED
    BY <1>1, Invariance, PTL

-----------------------------------------------------------------------------
(***************************************************************************)
(* Valid transitions, while no two POS requests for the same order overlap.*)
(***************************************************************************)

\* What a terminal saw is what the row says, but for a payment meanwhile.
SeenInv ==
    \A t \in Terminals :
      pos[t] # PosIdle =>
        \/ rows[pos[t].order].status = pos[t].seen
        \/ /\ pos[t].seen = "pendiente"
           /\ rows[pos[t].order].status = "pagado"

\* No two POS requests for the same order are in progress.
Serial ==
    \A t, u \in Terminals :
      t # u /\ pos[t] # PosIdle /\ pos[u] # PosIdle => pos[t].order # pos[u].order

OneTerminal == \A t, u \in Terminals : t = u

StatusStep ==
    \A o \in Orders :
      rows[o] # NoRow =>
        \/ rows'[o].status = rows[o].status
        \/ CanTransition(rows[o].status, rows'[o].status)

\* The steps of the others change a status from "pendiente" to "pagado" at most.
LEMMA OthersStep ==
    ASSUME IInv, [Next]_vars, \A t \in Terminals : ~ Pos(t)
    PROVE  /\ \A o \in Orders :
                rows[o] = NoRow \/ rows'[o].status = rows[o].status \/
                (rows[o].status = "pendiente" /\ rows'[o].status = "pagado")
           /\ UNCHANGED pos
  <1>1. rows \in [Orders -> Row]
    BY DEF IInv, TypeOK
  <1>2. ASSUME NEW o \in Orders, Place(o) \/ PlacePaid(o)
        PROVE  /\ \A q \in Orders : rows[q] = NoRow \/ rows'[q].status = rows[q].status
               /\ UNCHANGED pos
    BY <1>1, <1>2 DEF Place, PlacePaid
  <1>3. ASSUME NEW c \in Checkouts, Checkout(c)
        PROVE  (\A q \in Orders : rows'[q].status = rows[q].status) /\ UNCHANGED pos
    <2>1. CASE CheckoutWrite(c)
      <3>1. checkout[c] \in Orders
        BY <2>1 DEF CheckoutWrite, IInv, TypeOK
      <3>2. \A q \in Orders : rows[q] \in Row
        BY <1>1
      <3>. QED
        BY <1>1, <2>1, <3>1, <3>2 DEF CheckoutWrite, Row
    <2>2. CASE (\E o \in Orders : CheckoutRead(c, o)) \/ CheckoutFails(c)
      BY <2>2 DEF CheckoutRead, CheckoutFails
    <2>. QED
      BY <1>3, <2>1, <2>2 DEF Checkout
  <1>4. ASSUME NEW w \in Webhooks, Hook(w)
        PROVE  /\ \A q \in Orders : rows'[q].status = rows[q].status \/
                    (rows[q].status = "pendiente" /\ rows'[q].status = "pagado")
               /\ UNCHANGED pos
    <2>1. CASE HookWrite(w)
      <3>. DEFINE o == OrderOf[hook[w].payment]
      <3>1. hook[w] \in HookRequest /\ hook[w].payment \in Payments /\ o \in Orders
        BY <2>1, OrderOfAssumption DEF HookWrite, IInv, TypeOK, HookInv
      <3>2. rows' = [rows EXCEPT ![o] = Settled(PaymentSet(rows[o], hook[w]))]
        BY <2>1 DEF HookWrite
      <3>3. rows[o] \in Row
        BY <1>1, <3>1
      <3>4. \/ Settled(PaymentSet(rows[o], hook[w])).status = rows[o].status
            \/ /\ rows[o].status = "pendiente"
               /\ Settled(PaymentSet(rows[o], hook[w])).status = "pagado"
        BY <3>1, <3>3, SettledOK
      <3>. QED
        BY <1>1, <2>1, <3>1, <3>2, <3>4 DEF HookWrite
    <2>2. CASE (\E p \in Payments : HookFetch(w, p)) \/ HookRead(w) \/ HookFails(w)
      BY <2>2 DEF HookFetch, HookRead, HookFails
    <2>. QED
      BY <1>4, <2>1, <2>2 DEF Hook
  <1>5. CASE (\E p \in Payments : ProviderStep(p)) \/ UNCHANGED vars
    BY <1>5 DEF ProviderStep, vars
  <1>. QED
    BY <1>2, <1>3, <1>4, <1>5 DEF Next

LEMMA SeenStep ==
    ASSUME Serial, IInv, SeenInv, [Next]_vars
    PROVE  SeenInv' /\ StatusStep
  <1>1. pos \in [Terminals -> PosRequest] /\ rows \in [Orders -> Row]
    BY DEF IInv, TypeOK
  <1>2. ASSUME NEW t \in Terminals, Pos(t)
        PROVE  SeenInv' /\ StatusStep
    <2>1. \A u \in Terminals : u # t => pos'[u] = pos[u]
      BY <1>1, <1>2 DEF Pos, PosRead, PosWrite, PosFails
    <2>2. ASSUME NEW o \in Orders, NEW target \in OrderStatus, PosRead(t, o, target)
          PROVE  SeenInv' /\ StatusStep
      <3>1. UNCHANGED rows /\ pos'[t].order = o /\ pos'[t].seen = rows[o].status
        BY <1>1, <2>2 DEF PosRead
      <3>. QED
        BY <2>1, <3>1 DEF SeenInv, StatusStep
    <2>3. CASE PosWrite(t)
      <3>. DEFINE o == pos[t].order
      <3>1. /\ o \in Orders
            /\ CanTransition(pos[t].seen, pos[t].target)
            /\ rows[o].status = pos[t].seen \/
                 (pos[t].seen = "pendiente" /\ rows[o].status = "pagado")
        BY <2>3 DEF PosWrite, IInv, PosInv, SeenInv
      <3>2. rows' = [rows EXCEPT ![o] = StatusSet(rows[o], pos[t].target)]
        BY <2>3 DEF PosWrite
      <3>3. pos[t].target \in OrderStatus
        BY <3>1, TransitionOK
      <3>4. rows[o] \in Row
        BY <1>1, <3>1
      <3>5. rows'[o].status = pos[t].target
        BY <1>1, <3>1, <3>2, <3>3, <3>4, StatusSetOK
      <3>6. \/ rows'[o].status = rows[o].status
            \/ CanTransition(rows[o].status, rows'[o].status)
        BY <3>1, <3>5, TransitionOK
      <3>7. \A q \in Orders : q # o => rows'[q] = rows[q]
        BY <1>1, <3>2
      <3>8. pos'[t] = PosIdle
        BY <1>1, <2>3 DEF PosWrite
      <3>9. \A u \in Terminals : u # t /\ pos[u] # PosIdle =>
              pos[u].order # o /\ pos[u].order \in Orders
        BY <2>3 DEF PosWrite, Serial, IInv, PosInv
      <3>. HIDE DEF o
      <3>. QED
        BY <2>1, <3>6, <3>7, <3>8, <3>9 DEF SeenInv, StatusStep
    <2>4. CASE PosFails(t)
      <3>1. pos'[t] = PosIdle /\ UNCHANGED rows
        BY <1>1, <2>4 DEF PosFails
      <3>. QED
        BY <2>1, <3>1 DEF SeenInv, StatusStep
    <2>. QED
      BY <1>2, <2>2, <2>3, <2>4 DEF Pos
  <1>3. CASE \A t \in Terminals : ~ Pos(t)
    <2>1. /\ \A o \in Orders :
               rows[o] = NoRow \/ rows'[o].status = rows[o].status \/
               (rows[o].status = "pendiente" /\ rows'[o].status = "pagado")
          /\ UNCHANGED pos
      BY <1>3, OthersStep
    <2>2. CanTransition("pendiente", "pagado")
      BY DEF CanTransition
    <2>3. StatusStep
      BY <2>1, <2>2 DEF StatusStep
    <2>4. ASSUME NEW t \in Terminals, pos'[t] # PosIdle
          PROVE  \/ rows'[pos'[t].order].status = pos'[t].seen
                 \/ /\ pos'[t].seen = "pendiente"
                    /\ rows'[pos'[t].order].status = "pagado"
      <3>1. /\ pos[t].order \in Orders
            /\ CanTransition(pos[t].seen, pos[t].target)
            /\ rows[pos[t].order].status = pos[t].seen \/
                 (pos[t].seen = "pendiente" /\ rows[pos[t].order].status = "pagado")
        BY <2>1, <2>4 DEF IInv, PosInv, SeenInv
      <3>2. rows[pos[t].order] # NoRow
        BY <3>1, TransitionOK DEF NoRow, OrderStatus
      <3>. QED
        BY <2>1, <3>1, <3>2
    <2>. QED
      BY <2>3, <2>4 DEF SeenInv
  <1>. QED
    BY <1>2, <1>3

\* Where no two terminals move the same order at the same time, notifications that
\* pay it in between never make a status change that can_transition_to forbids.
THEOREM SerialIsValid == Spec /\ []Serial => TransitionsAreValid
  <1>1. Init => SeenInv
    BY DEF Init, SeenInv
  <1>2. Serial /\ IInv /\ SeenInv /\ [Next]_vars => SeenInv' /\ StatusStep
    BY SeenStep
  <1>3. TransitionsAreValid <=> [][StatusStep]_vars
    BY PTL DEF TransitionsAreValid, StatusStep
  <1>. QED
    BY <1>1, <1>2, <1>3, Invariance, PTL DEF Spec

\* So it is where there is one terminal.
THEOREM OneTerminalIsValid ==
    ASSUME OneTerminal
    PROVE  Spec => TransitionsAreValid
  <1>1. Serial
    BY DEF Serial, OneTerminal
  <1>. QED
    BY <1>1, SerialIsValid, PTL

-----------------------------------------------------------------------------
(***************************************************************************)
(* Paid orders, while the requests about an order do not overlap.          *)
(* order_paid_again shows one request that takes a payment back; these are *)
(* conditions under which none does.                                       *)
(***************************************************************************)

\* No preference request or notification for an order is handled during another
\* notification for it.
OneAtATime ==
    /\ \A w \in Webhooks, c \in Checkouts :
         hook[w].pc # "idle" /\ checkout[c] # NoOrder =>
           OrderOf[hook[w].payment] # checkout[c]
    /\ \A v, w \in Webhooks :
         v # w /\ hook[v].pc # "idle" /\ hook[w].pc # "idle" =>
           OrderOf[hook[v].payment] # OrderOf[hook[w].payment]

\* An order has one payment, and an approved payment is not given back.
OnePaymentEach == \A p, q \in Payments : OrderOf[p] = OrderOf[q] => p = q
NothingGivenBack == \A st \in ProviderSteps : st[1] # "approved"

\* A payment is made with a preference of its order, which an order of the checkout
\* does not have; what made an order paid is still approved.
PaymentsInv ==
    /\ \A p \in Payments : mp[p] # "none" => rows[OrderOf[p]].preference
    /\ \A o \in Orders :
         rows[o].pay = "pagado" =>
           IF rows[o].payment = CheckoutPayment THEN ~ rows[o].preference
                                                ELSE mp[rows[o].payment] = "approved"

\* A preference is in progress for an order that is not paid, and a notification for
\* a paid order reports its approval.
RequestsInv ==
    /\ \A c \in Checkouts :
         checkout[c] # NoOrder =>
           rows[checkout[c]] # NoRow /\ rows[checkout[c]].pay # "pagado"
    /\ \A w \in Webhooks :
         hook[w].pc # "idle" =>
           /\ mp[hook[w].payment] # "none"
           /\ hook[w].got = "approved" => mp[hook[w].payment] = "approved"
           /\ rows[OrderOf[hook[w].payment]].pay = "pagado" => hook[w].got = "approved"

PaidStep == \A o \in Orders : rows[o].pay = "pagado" => rows'[o].pay = "pagado"

\* A step that leaves the payments and requests alone, and changes one row without
\* touching what is known of its payment.
LEMMA RowOnlyStep ==
    ASSUME IInv, PaymentsInv, RequestsInv, UNCHANGED <<mp, checkout, hook>>,
           NEW o \in Orders, NEW new, rows' = [rows EXCEPT ![o] = new],
           new # NoRow, new.pay = rows[o].pay, new.payment = rows[o].payment,
           new.preference = rows[o].preference
    PROVE  PaymentsInv' /\ RequestsInv' /\ PaidStep
  <1>1. \A q \in Orders : rows'[q] = IF q = o THEN new ELSE rows[q]
    BY DEF IInv, TypeOK
  <1>2. \A q \in Orders : /\ rows'[q].pay = rows[q].pay
                          /\ rows'[q].payment = rows[q].payment
                          /\ rows'[q].preference = rows[q].preference
                          /\ rows[q] # NoRow => rows'[q] # NoRow
    BY <1>1
  <1>3. /\ \A p \in Payments : OrderOf[p] \in Orders
        /\ \A c \in Checkouts : checkout[c] # NoOrder => checkout[c] \in Orders
        /\ \A w \in Webhooks : hook[w].pc # "idle" => hook[w].payment \in Payments
    BY OrderOfAssumption DEF IInv, TypeOK, HookInv
  <1>. QED
    BY <1>2, <1>3 DEF PaymentsInv, RequestsInv, PaidStep

\* A new order is nobody's yet: no payment, preference or notification is about it.
LEMMA PlacePaidStep ==
    ASSUME IInv, PaymentsInv, RequestsInv, NEW o \in Orders, Place(o) \/ PlacePaid(o)
    PROVE  PaymentsInv' /\ RequestsInv' /\ PaidStep
  <1>1. rows[o] = NoRow /\ UNCHANGED <<mp, checkout, hook>>
    BY DEF Place, PlacePaid
  <1>2. /\ \A q \in Orders : q # o => rows'[q] = rows[q]
        /\ rows'[o].pay = "pagado" =>
             rows'[o].payment = CheckoutPayment /\ ~ rows'[o].preference
    BY DEF Place, PlacePaid, NoRow, IInv, TypeOK
  <1>3. ~ NoRow.preference /\ NoRow.pay # "pagado"
    BY DEF NoRow
  <1>4. /\ \A p \in Payments : OrderOf[p] = o => mp[p] = "none"
        /\ \A c \in Checkouts : checkout[c] # NoOrder => checkout[c] # o
    BY <1>1, <1>3 DEF PaymentsInv, RequestsInv
  <1>5. /\ \A p \in Payments : OrderOf[p] \in Orders
        /\ \A c \in Checkouts : checkout[c] # NoOrder => checkout[c] \in Orders
        /\ \A w \in Webhooks : hook[w].pc # "idle" => hook[w].payment \in Payments
    BY OrderOfAssumption DEF IInv, TypeOK, HookInv
  <1>. QED
    BY <1>1, <1>2, <1>3, <1>4, <1>5 DEF PaymentsInv, RequestsInv, PaidStep

LEMMA ProviderKeepsPaid ==
    ASSUME NothingGivenBack, IInv, PaymentsInv, RequestsInv, NEW p \in Payments,
           ProviderStep(p)
    PROVE  PaymentsInv' /\ RequestsInv' /\ PaidStep
  <1>1. UNCHANGED <<rows, checkout, hook>> /\ rows[OrderOf[p]].preference
    BY DEF ProviderStep
  <1>2. /\ \A q \in Payments : q # p => mp'[q] = mp[q]
        /\ mp[p] # "approved" /\ mp'[p] # "none"
    BY ProviderAssumption DEF ProviderStep, NothingGivenBack, IInv, TypeOK
  <1>3. \A w \in Webhooks : hook[w].pc # "idle" => hook[w].payment \in Payments
    BY DEF IInv, HookInv
  <1>4. \A o \in Orders : rows[o].pay = "pagado" /\ rows[o].payment # CheckoutPayment =>
          rows[o].payment \in Payments
    BY DEF IInv, PaidIsBacked
  <1>. QED
    BY <1>1, <1>2, <1>3, <1>4 DEF PaymentsInv, RequestsInv, PaidStep

LEMMA PosKeepsPaid ==
    ASSUME IInv, PaymentsInv, RequestsInv, NEW t \in Terminals, Pos(t)
    PROVE  PaymentsInv' /\ RequestsInv' /\ PaidStep
  <1>1. CASE PosWrite(t)
    <2>1. pos[t].order \in Orders /\ pos[t].target \in OrderStatus
      BY <1>1, TransitionOK DEF PosWrite, IInv, PosInv
    <2>2. rows[pos[t].order] \in Row
      BY <2>1 DEF IInv, TypeOK
    <2>3. NoRow.status \notin OrderStatus
      BY DEF NoRow, OrderStatus
    <2>4. StatusSet(rows[pos[t].order], pos[t].target) # NoRow
      BY <2>1, <2>2, <2>3, StatusSetOK
    <2>5. /\ rows' = [rows EXCEPT ![pos[t].order] =
                        StatusSet(rows[pos[t].order], pos[t].target)]
          /\ UNCHANGED <<mp, checkout, hook>>
      BY <1>1 DEF PosWrite
    <2>. QED
      BY <2>1, <2>2, <2>4, <2>5, StatusSetOK, RowOnlyStep
  <1>2. CASE ~ PosWrite(t)
    <2>1. UNCHANGED <<mp, rows, checkout, hook>>
      BY <1>2 DEF Pos, PosRead, PosFails
    <2>. QED
      BY <2>1 DEF PaymentsInv, RequestsInv, PaidStep
  <1>. QED
    BY <1>1, <1>2

LEMMA CheckoutKeepsPaid ==
    ASSUME IInv, PaymentsInv, RequestsInv, NEW c \in Checkouts, Checkout(c)
    PROVE  PaymentsInv' /\ RequestsInv' /\ PaidStep
  <1>1. /\ \A p \in Payments : OrderOf[p] \in Orders
        /\ \A d \in Checkouts : checkout[d] # NoOrder => checkout[d] \in Orders
        /\ \A w \in Webhooks : hook[w].pc # "idle" => hook[w].payment \in Payments
        /\ checkout = [d \in Checkouts |-> checkout[d]]
    BY OrderOfAssumption DEF IInv, TypeOK, HookInv
  <1>2. CASE CheckoutWrite(c)
    <2>. DEFINE o == checkout[c]
                new == [rows[o] EXCEPT !.preference = TRUE, !.pay = "pendiente"]
    <2>1. o \in Orders /\ rows[o].pay # "pagado"
      BY <1>1, <1>2 DEF CheckoutWrite, RequestsInv
    <2>2. rows[o] \in Row
      BY <2>1 DEF IInv, TypeOK
    <2>3. new.preference /\ new.pay = "pendiente" /\ new # NoRow
      BY <2>2 DEF Row, NoRow
    <2>4. \A q \in Orders : rows'[q] = IF q = o THEN new ELSE rows[q]
      BY <1>2, <2>1 DEF CheckoutWrite, IInv, TypeOK
    <2>5. /\ UNCHANGED <<mp, hook>>
          /\ \A d \in Checkouts : checkout'[d] # NoOrder => checkout'[d] = checkout[d]
      BY <1>1, <1>2 DEF CheckoutWrite
    <2>. HIDE DEF o, new
    <2>. QED
      BY <1>1, <2>1, <2>3, <2>4, <2>5 DEF PaymentsInv, RequestsInv, PaidStep
  <1>3. CASE \E o \in Orders : CheckoutRead(c, o)
    <2>1. PICK o \in Orders : CheckoutRead(c, o)
      BY <1>3
    <2>2. /\ \A d \in Checkouts : checkout'[d] = IF d = c THEN o ELSE checkout[d]
          /\ rows[o] # NoRow /\ rows[o].pay # "pagado" /\ UNCHANGED <<mp, rows, hook>>
      BY <1>1, <2>1 DEF CheckoutRead
    <2>. QED
      BY <2>2 DEF PaymentsInv, RequestsInv, PaidStep
  <1>4. CASE CheckoutFails(c)
    <2>1. /\ \A d \in Checkouts : checkout'[d] # NoOrder => checkout'[d] = checkout[d]
          /\ UNCHANGED <<mp, rows, hook>>
      BY <1>1, <1>4 DEF CheckoutFails
    <2>. QED
      BY <2>1 DEF PaymentsInv, RequestsInv, PaidStep
  <1>. QED
    BY <1>2, <1>3, <1>4 DEF Checkout

LEMMA HookKeepsPaid ==
    ASSUME OnePaymentEach, OneAtATime, IInv, PaymentsInv, RequestsInv,
           NEW w \in Webhooks, Hook(w)
    PROVE  PaymentsInv' /\ RequestsInv' /\ PaidStep
  <1>1. /\ \A p \in Payments : OrderOf[p] \in Orders
        /\ \A c \in Checkouts : checkout[c] # NoOrder => checkout[c] \in Orders
        /\ \A v \in Webhooks : hook[v].pc # "idle" => hook[v].payment \in Payments
        /\ hook \in [Webhooks -> HookRequest]
    BY OrderOfAssumption DEF IInv, TypeOK, HookInv
  <1>2. UNCHANGED <<mp, checkout>> /\ \A v \in Webhooks : v # w => hook'[v] = hook[v]
    BY <1>1 DEF Hook, HookFetch, HookRead, HookWrite, HookFails
  <1>3. CASE HookWrite(w)
    <2>. DEFINE p == hook[w].payment
                o == OrderOf[p]
                new == Settled(PaymentSet(rows[o], hook[w]))
    <2>1. hook[w].pc = "write" /\ p \in Payments /\ o \in Orders /\ hook[w] \in HookRequest
      BY <1>1, <1>3 DEF HookWrite
    <2>2. rows[o] \in Row
      BY <2>1 DEF IInv, TypeOK
    <2>3. /\ new.pay = MapPaymentStatus(hook[w].got) /\ new.payment = p
          /\ new.preference = rows[o].preference
      BY <2>1, <2>2, SettledOK
    <2>4. MapPaymentStatus(hook[w].got) = "pagado" <=> hook[w].got = "approved"
      BY DEF MapPaymentStatus
    <2>5. new # NoRow
      BY <2>1, <2>3, NullAssumption DEF NoRow
    <2>6. \A q \in Orders : rows'[q] = IF q = o THEN new ELSE rows[q]
      BY <1>3, <2>1 DEF HookWrite, IInv, TypeOK
    <2>7. hook'[w].pc = "idle"
      BY <1>1, <1>3 DEF HookWrite, HookIdle
    <2>8. /\ hook[w].got = "approved" => mp[p] = "approved"
          /\ rows[o].pay = "pagado" => hook[w].got = "approved"
      BY <2>1 DEF RequestsInv
    <2>9. /\ \A c \in Checkouts : checkout[c] # NoOrder => checkout[c] # o
          /\ \A v \in Webhooks :
               v # w /\ hook[v].pc # "idle" => OrderOf[hook[v].payment] # o
      BY <2>1 DEF OneAtATime
    <2>10. CheckoutPayment # p
      BY <2>1, NullAssumption
    <2>. HIDE DEF p, o, new
    <2>11. PaymentsInv'
      BY <1>1, <1>2, <2>1, <2>3, <2>4, <2>6, <2>8, <2>10 DEF PaymentsInv
    <2>12. RequestsInv'
      BY <1>1, <1>2, <2>6, <2>7, <2>9 DEF RequestsInv
    <2>13. PaidStep
      BY <2>3, <2>4, <2>6, <2>8 DEF PaidStep
    <2>. QED
      BY <2>11, <2>12, <2>13
  <1>4. ASSUME NEW p \in Payments, HookFetch(w, p)
        PROVE  PaymentsInv' /\ RequestsInv' /\ PaidStep
    <2>1. /\ UNCHANGED rows /\ mp[p] # "none"
          /\ hook'[w].payment = p /\ hook'[w].got = mp[p]
      BY <1>1, <1>4 DEF HookFetch
    <2>2. rows[OrderOf[p]].pay = "pagado" => mp[p] = "approved"
      <3>. SUFFICES ASSUME rows[OrderOf[p]].pay = "pagado" PROVE mp[p] = "approved"
        OBVIOUS
      <3>1. rows[OrderOf[p]].preference
        BY <2>1 DEF PaymentsInv
      <3>2. /\ rows[OrderOf[p]].payment \in Payments
            /\ OrderOf[rows[OrderOf[p]].payment] = OrderOf[p]
            /\ mp[rows[OrderOf[p]].payment] = "approved"
        BY <1>1, <3>1 DEF PaymentsInv, IInv, PaidIsBacked
      <3>. QED
        BY <3>2 DEF OnePaymentEach
    <2>. QED
      BY <1>2, <2>1, <2>2 DEF PaymentsInv, RequestsInv, PaidStep
  <1>5. CASE HookRead(w)
    <2>1. /\ UNCHANGED rows /\ hook[w].pc # "idle"
          /\ hook'[w].payment = hook[w].payment /\ hook'[w].got = hook[w].got
      BY <1>1, <1>5 DEF HookRead, HookRequest
    <2>. QED
      BY <1>2, <2>1 DEF PaymentsInv, RequestsInv, PaidStep
  <1>6. CASE HookFails(w)
    <2>1. UNCHANGED rows /\ hook'[w].pc = "idle"
      BY <1>1, <1>6 DEF HookFails, HookIdle
    <2>. QED
      BY <1>2, <2>1 DEF PaymentsInv, RequestsInv, PaidStep
  <1>. QED
    BY <1>3, <1>4, <1>5, <1>6 DEF Hook

LEMMA PaidStepHolds ==
    ASSUME OnePaymentEach, NothingGivenBack, OneAtATime, IInv, PaymentsInv, RequestsInv,
           [Next]_vars
    PROVE  PaymentsInv' /\ RequestsInv' /\ PaidStep
  <1>1. CASE UNCHANGED vars
    BY <1>1 DEF vars, PaymentsInv, RequestsInv, PaidStep
  <1>. QED
    BY <1>1, PlacePaidStep, ProviderKeepsPaid, PosKeepsPaid, CheckoutKeepsPaid,
       HookKeepsPaid DEF Next

\* A paid order stays paid where every order has one payment, nothing is given back
\* and no request for an order overlaps a notification for it, whatever is late or
\* repeated and whatever the POS does: without one of the three, the UPDATE of
\* update_mp_preference or update_payment can take the mark away.
THEOREM UndisturbedStaysPaid ==
    ASSUME OnePaymentEach, NothingGivenBack
    PROVE  Spec /\ []OneAtATime => PaidStaysPaid
  <1>1. Init => PaymentsInv /\ RequestsInv
    BY OrderOfAssumption DEF Init, PaymentsInv, RequestsInv, NoRow, HookIdle
  <1>2. OneAtATime /\ IInv /\ PaymentsInv /\ RequestsInv /\ [Next]_vars =>
          PaymentsInv' /\ RequestsInv' /\ PaidStep
    BY PaidStepHolds
  <1>3. PaidStaysPaid <=> [][PaidStep]_vars
    BY PTL DEF PaidStaysPaid, PaidStep
  <1>. QED
    BY <1>1, <1>2, <1>3, Invariance, PTL DEF Spec

=============================================================================

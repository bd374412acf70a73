------------------------ MODULE PaymentWebhook_proofs ------------------------
(***************************************************************************)
(* Proofs about PaymentWebhook, for every set of sessions, payments,       *)
(* orders and workers, every provider and every number of faults.          *)
(***************************************************************************)
EXTENDS PaymentWebhook, TLAPS

-----------------------------------------------------------------------------
(***************************************************************************)
(* Type correctness.                                                       *)
(***************************************************************************)

LEMMA NullsAreApart ==
    /\ NoOrder \notin Orders
    /\ NoPayment \notin Payments
  BY NullAssumption

LEMMA RowTypes ==
    /\ NoRow \in SessionRow
    /\ NoRow \in PaymentRow
    /\ Idle \in Request
  BY DEF NoRow, SessionRow, PaymentRow, SessionStatus, PaymentStatus, OrderId,
         Idle, Request, PC, ProviderStatus

\* What is saved is never "none", and "pagado" is saved for an approved payment
\* of the right amount only.
LEMMA InternalStatusOK ==
    ASSUME NEW p \in Payments, NEW st \in ProviderStatus
    PROVE  /\ InternalStatus(p, st) \in PaymentStatus \ {"none"}
           /\ InternalStatus(p, st) \in SessionStatus \ {"none"}
           /\ Payable(p, st) => st = "approved" /\ p \in Matching
  <1>1. MapPaymentStatus(st) \in {"pagado", "rechazado", "pendiente"}
    BY DEF MapPaymentStatus
  <1>2. MapPaymentStatus(st) = "pagado" => st = "approved"
    BY DEF MapPaymentStatus
  <1>. QED
    BY <1>1, <1>2 DEF InternalStatus, Payable, PaymentStatus, SessionStatus

\* The types, and that a request in progress is about a payment.
TypeInv ==
    /\ TypeOK
    /\ \A w \in Workers : req[w].pc # "idle" => req[w].p \in Payments

\* A request replaced by another one: only that worker's changes.
LEMMA GoOK ==
    ASSUME TypeInv, NEW w \in Workers, NEW r \in Request, Go(w, r),
           r.pc # "idle" => r.p \in Payments
    PROVE  /\ req' \in [Workers -> Request]
           /\ req'[w] = r
           /\ \A v \in Workers : v # w => req'[v] = req[v]
           /\ \A v \in Workers : req'[v].pc # "idle" => req'[v].p \in Payments
  BY DEF TypeInv, TypeOK, Go

\* The rows a request reads in the tables.
LEMMA RowsRead ==
    ASSUME TypeInv, NEW w \in Workers, req[w].pc # "idle"
    PROVE  /\ req[w] \in Request
           /\ req[w].p \in Payments
           /\ SessionIn(w) \in Sessions
           /\ sess[SessionIn(w)] \in SessionRow
           /\ pay[req[w].p] \in PaymentRow
           /\ mp[req[w].p] \in ProviderStatus
  BY SessionOfAssumption DEF TypeInv, TypeOK, SessionIn

LEMMA IdleIsIdle == Idle.pc = "idle"
  BY DEF Idle

\* The tables after a commit.
LEMMA ApplyTypes ==
    ASSUME TypeInv, NEW w \in Workers, req[w].pc # "idle", ApplyWrites(w)
    PROVE  /\ sess' \in [Sessions -> SessionRow]
           /\ pay' \in [Payments -> PaymentRow]
           /\ orders' \in [Orders -> Payments \cup {NoPayment}]
  BY RowsRead DEF ApplyWrites, TypeInv, TypeOK, Request

LEMMA TypeInit == Init => TypeInv
  BY RowTypes DEF Init, TypeInv, TypeOK, Idle, ProviderStatus

LEMMA TypeStep == TypeInv /\ [Next]_vars => TypeInv'
  <1>. SUFFICES ASSUME TypeInv, [Next]_vars PROVE TypeInv'
    OBVIOUS
  <1>1. ASSUME NEW s \in Sessions, CreatePreference(s) PROVE TypeInv'
    BY <1>1 DEF CreatePreference, TypeInv, TypeOK, provider, SessionRow, SessionStatus, OrderId
  <1>2. ASSUME NEW p \in Payments, ProviderStep(p) PROVE TypeInv'
    <2>1. mp' \in [Payments -> ProviderStatus] /\ due' \in [Payments -> Nat]
      BY <1>2, ProviderAssumption DEF ProviderStep, TypeInv, TypeOK
    <2>. QED  BY <1>2, <2>1 DEF ProviderStep, TypeInv, TypeOK, db
  <1>3. ASSUME NEW p \in Payments, Redeliver(p) PROVE TypeInv'
    BY <1>3 DEF Redeliver, TypeInv, TypeOK, db
  <1>4. ASSUME NEW w \in Workers, NEW p \in Payments, Deliver(w, p) PROVE TypeInv'
    <2>1. /\ [Idle EXCEPT !.pc = "fetch", !.p = p] \in Request
          /\ [Idle EXCEPT !.pc = "fetch", !.p = p].p = p
      BY RowTypes DEF Idle, Request, PC
    <2>2. due' \in [Payments -> Nat]
      BY <1>4 DEF Deliver, TypeInv, TypeOK
    <2>. QED  BY <1>4, <2>1, <2>2, GoOK DEF Deliver, TypeInv, TypeOK, db
  <1>5. ASSUME NEW w \in Workers, Fetch(w) PROVE TypeInv'
    <2>. DEFINE r == [req[w] EXCEPT !.pc = "read", !.got = mp[req[w].p]]
    <2>1. r \in Request /\ r.p \in Payments
      BY <1>5, RowsRead DEF Fetch, Request, PC
    <2>. QED  BY <1>5, <2>1, GoOK DEF Fetch, TypeInv, TypeOK, db, provider
  <1>6. ASSUME NEW w \in Workers, FetchFails(w) PROVE TypeInv'
    <2>. QED  BY <1>6, RowTypes, IdleIsIdle, GoOK DEF FetchFails, MayFail, TypeInv, TypeOK, db, provider
  <1>7. ASSUME NEW w \in Workers, ReadDuplicate(w) PROVE TypeInv'
    <2>. QED  BY <1>7, RowTypes, IdleIsIdle, GoOK DEF ReadDuplicate, MayFail, TypeInv, TypeOK, db, provider
  <1>8. ASSUME NEW w \in Workers, ReadNew(w) PROVE TypeInv'
    <2>. DEFINE r == [req[w] EXCEPT !.pc = "insert", !.seen = sess[SessionIn(w)],
                                 !.snap = sess[SessionIn(w)]]
    <2>1. r \in Request /\ r.p \in Payments
      BY <1>8, RowsRead DEF ReadNew, Request, PC
    <2>. QED  BY <1>8, <2>1, GoOK DEF ReadNew, MayFail, TypeInv, TypeOK, db, provider
  <1>9. ASSUME NEW w \in Workers, Insert(w) PROVE TypeInv'
    <2>. DEFINE row == [status |-> InternalStatus(req[w].p, req[w].got),
                        order |-> req[w].seen.order]
                r == [req[w] EXCEPT !.pc = AfterUpsert(w), !.wPay = row,
                                    !.found = row.order]
    <2>1. row \in PaymentRow /\ row.order \in OrderId
      BY <1>9, RowsRead, InternalStatusOK DEF Insert, Request, SessionRow, PaymentRow
    <2>2. AfterUpsert(w) \in PC
      BY DEF AfterUpsert, PC
    <2>3. r \in Request /\ r.p \in Payments
      BY <1>9, <2>1, <2>2, RowsRead DEF Insert, Request
    <2>. QED  BY <1>9, <2>3, GoOK DEF Insert, TypeInv, TypeOK, db, provider
  <1>10. ASSUME NEW w \in Workers, InsertConflict(w) PROVE TypeInv'
    <2>. DEFINE r == [req[w] EXCEPT !.pc = AfterUpsert(w),
                                    !.found = pay[req[w].p].order,
                                    !.snap = sess[SessionIn(w)]]
    <2>1. AfterUpsert(w) \in PC
      BY DEF AfterUpsert, PC
    <2>2. r \in Request /\ r.p \in Payments
      BY <1>10, <2>1, RowsRead DEF InsertConflict, Request, PaymentRow
    <2>. QED  BY <1>10, <2>2, GoOK DEF InsertConflict, TypeInv, TypeOK, db, provider
  <1>11. ASSUME NEW w \in Workers, MarkSession(w) PROVE TypeInv'
    <2>. DEFINE row == Marked(w)
                r == [req[w] EXCEPT !.pc = "commit", !.lock = TRUE, !.wSess = row]
    <2>1. row \in SessionRow
      BY <1>11, RowsRead, InternalStatusOK DEF MarkSession, Marked, Request, SessionRow
    <2>2. r \in Request /\ r.p \in Payments
      BY <1>11, <2>1, RowsRead DEF MarkSession, Request, PC
    <2>. QED  BY <1>11, <2>2, GoOK DEF MarkSession, TypeInv, TypeOK, db, provider
  <1>12. ASSUME NEW w \in Workers, ReturnPaymentOrder(w) PROVE TypeInv'
    <2>. DEFINE r == [req[w] EXCEPT !.pc = "commit"]
    <2>1. r \in Request /\ r.p \in Payments
      BY <1>12, RowsRead DEF ReturnPaymentOrder, Request, PC
    <2>. QED  BY <1>12, <2>1, GoOK DEF ReturnPaymentOrder, MayFail, TypeInv, TypeOK, db, provider
  <1>13. ASSUME NEW w \in Workers, AttachSessionOrder(w) PROVE TypeInv'
    <2>. DEFINE row == Attached(w, req[w].seen.order)
                r == [req[w] EXCEPT !.pc = "commit", !.wPay = row]
    <2>1. row \in PaymentRow
      BY <1>13, RowsRead DEF AttachSessionOrder, Attached, Request, SessionRow, PaymentRow
    <2>2. r \in Request /\ r.p \in Payments
      BY <1>13, <2>1, RowsRead DEF AttachSessionOrder, Request, PC
    <2>. QED  BY <1>13, <2>2, GoOK DEF AttachSessionOrder, TypeInv, TypeOK, db, provider
  <1>14. ASSUME NEW w \in Workers, Claim(w) PROVE TypeInv'
    <2>. DEFINE r == [req[w] EXCEPT
                        !.pc = IF req[w].seen.status = "processing_order"
                                 THEN "commit" ELSE "create",
                        !.lock = TRUE,
                        !.wSess = [status |-> "processing_order", order |-> NoOrder]]
    <2>1. r \in Request /\ r.p \in Payments
      <3>1. /\ req[w] \in Request
            /\ req[w].p \in Payments
        BY <1>14, RowsRead DEF Claim, Claiming
      <3>2. [status |-> "processing_order", order |-> NoOrder] \in SessionRow
        BY DEF SessionRow, SessionStatus, OrderId
      <3>. QED  BY <3>1, <3>2 DEF Request, PC
    <2>. QED  BY <1>14, <2>1, GoOK DEF Claim, TypeInv, TypeOK, db, provider
  <1>15. ASSUME NEW w \in Workers, ClaimRejected(w) PROVE TypeInv'
    <2>. DEFINE r == [req[w] EXCEPT !.pc = "commit", !.lock = TRUE]
    <2>1. r \in Request /\ r.p \in Payments
      BY <1>15, RowsRead DEF ClaimRejected, Request, PC, Claiming
    <2>. QED  BY <1>15, <2>1, GoOK DEF ClaimRejected, MayFail, TypeInv, TypeOK, db, provider
  <1>16. ASSUME NEW w \in Workers, ClaimFindsOrder(w) PROVE TypeInv'
    <2>. DEFINE row == Attached(w, req[w].snap.order)
                r == [req[w] EXCEPT !.pc = "commit", !.lock = TRUE, !.wPay = row]
    <2>1. row \in PaymentRow
      BY <1>16, RowsRead DEF ClaimFindsOrder, Claiming, Attached, Request, SessionRow, PaymentRow
    <2>2. r \in Request /\ r.p \in Payments
      BY <1>16, <2>1, RowsRead DEF ClaimFindsOrder, Claiming, Request, PC
    <2>. QED  BY <1>16, <2>2, GoOK DEF ClaimFindsOrder, TypeInv, TypeOK, db, provider
  <1>17. ASSUME NEW w \in Workers, CreateOrder(w) PROVE TypeInv'
    <2>1. PICK o \in FreshOrders :
            Go(w, [req[w] EXCEPT !.pc = "commit", !.wOrder = o,
                                 !.wPay = Attached(w, o),
                                 !.wSess = PaidSession(o)])
      BY <1>17 DEF CreateOrder
    <2>. DEFINE row == Attached(w, o)
                r == [req[w] EXCEPT !.pc = "commit", !.wOrder = o, !.wPay = row,
                                    !.wSess = PaidSession(o)]
    <2>2. o \in OrderId
      BY DEF FreshOrders, OrderId
    <2>3. row \in PaymentRow
      BY <1>17, <2>2, RowsRead DEF CreateOrder, Attached, Request, PaymentRow
    <2>4. r \in Request /\ r.p \in Payments
      BY <1>17, <2>2, <2>3, RowsRead DEF CreateOrder, PaidSession, Request, PC, SessionRow, SessionStatus
    <2>. QED  BY <1>17, <2>1, <2>4, GoOK DEF CreateOrder, TypeInv, TypeOK, db, provider
  <1>18. ASSUME NEW w \in Workers, CreateRefused(w) PROVE TypeInv'
    <2>. DEFINE r == [req[w] EXCEPT !.pc = "commit"]
    <2>1. r \in Request /\ r.p \in Payments
      BY <1>18, RowsRead DEF CreateRefused, Request, PC
    <2>2. /\ req' \in [Workers -> Request]
          /\ \A v \in Workers : req'[v].pc # "idle" => req'[v].p \in Payments
      BY <1>18, <2>1, GoOK DEF CreateRefused
    <2>. QED  BY <1>18, <2>2 DEF CreateRefused, MayFail, TypeInv, TypeOK, db, provider
  <1>19. ASSUME NEW w \in Workers, Commit(w) PROVE TypeInv'
    <2>1. /\ sess' \in [Sessions -> SessionRow]
          /\ pay' \in [Payments -> PaymentRow]
          /\ orders' \in [Orders -> Payments \cup {NoPayment}]
      BY <1>19, RowsRead, ApplyTypes DEF Commit
    <2>2. /\ req' \in [Workers -> Request]
          /\ \A v \in Workers : req'[v].pc # "idle" => req'[v].p \in Payments
      BY <1>19, RowTypes, IdleIsIdle, GoOK DEF Commit
    <2>. QED  BY <1>19, <2>1, <2>2 DEF Commit, TypeInv, TypeOK, provider
  <1>20. ASSUME NEW w \in Workers, CommitUnanswered(w) PROVE TypeInv'
    <2>1. /\ sess' \in [Sessions -> SessionRow]
          /\ pay' \in [Payments -> PaymentRow]
          /\ orders' \in [Orders -> Payments \cup {NoPayment}]
      BY <1>20, RowsRead, ApplyTypes DEF CommitUnanswered
    <2>2. /\ req' \in [Workers -> Request]
          /\ \A v \in Workers : req'[v].pc # "idle" => req'[v].p \in Payments
      BY <1>20, RowTypes, IdleIsIdle, GoOK DEF CommitUnanswered
    <2>3. due' \in [Payments -> Nat] /\ faults' \in Nat
      BY <1>20 DEF CommitUnanswered, MayFail, TypeInv, TypeOK
    <2>. QED  BY <1>20, <2>1, <2>2, <2>3 DEF CommitUnanswered, TypeInv, TypeOK
  <1>21. ASSUME NEW w \in Workers, Abort(w) PROVE TypeInv'
    BY <1>21, RowTypes, IdleIsIdle, GoOK DEF Abort, MayFail, TypeInv, TypeOK, db
  <1>22. ASSUME NEW w \in Workers, InsertWaits(w) PROVE TypeInv'
    <2>. DEFINE r == [req[w] EXCEPT !.pc = "queued"]
    <2>1. r \in Request /\ r.p \in Payments
      BY <1>22, RowsRead DEF InsertWaits, Request, PC
    <2>. QED  BY <1>22, <2>1, GoOK DEF InsertWaits, TypeInv, TypeOK, db, provider
  <1>23. ASSUME NEW w \in Workers, Victim(w) PROVE TypeInv'
    <2>1. due' \in [Payments -> Nat]
      <3>1. req[w].p \in Payments
        BY <1>23, RowsRead DEF Victim, Deadlocked
      <3>. QED  BY <1>23, <3>1 DEF Victim, TypeInv, TypeOK
    <2>2. /\ req' \in [Workers -> Request]
          /\ \A v \in Workers : req'[v].pc # "idle" => req'[v].p \in Payments
      BY <1>23, RowTypes, IdleIsIdle, GoOK DEF Victim
    <2>. QED  BY <1>23, <2>1, <2>2 DEF Victim, TypeInv, TypeOK, db
  <1>24. CASE UNCHANGED vars
    BY <1>24 DEF TypeInv, TypeOK, Request, vars
  <1>25. ASSUME NEW w \in Workers, Handle(w) PROVE TypeInv'
    BY <1>5, <1>7, <1>8, <1>9, <1>10, <1>11, <1>12, <1>13, <1>14, <1>15, <1>16, <1>17,
       <1>19, <1>22, <1>25 DEF Handle
  <1>26. ASSUME NEW w \in Workers, Fault(w) PROVE TypeInv'
    BY <1>6, <1>18, <1>20, <1>21, <1>26 DEF Fault
  <1>. QED  BY <1>1, <1>2, <1>3, <1>4, <1>23, <1>24, <1>25, <1>26 DEF Next, Environment

\* The variables of PaymentWebhook stay in their domains.
THEOREM TypeCorrect == Spec => []TypeOK
  <1>1. TypeInv => TypeOK
    BY DEF TypeInv
  <1>. QED  BY <1>1, TypeInit, TypeStep, PTL DEF Spec

-----------------------------------------------------------------------------
(***************************************************************************)
(* The inductive invariant.  The properties of the tables are not          *)
(* inductive: they rest on what the open transactions will write, on what  *)
(* they hold locked, and on how old the rows they decided upon can be.     *)
(***************************************************************************)

\* What a request has written and locked at each of its steps.
Phase(r) ==
    /\ r.pc \in {"idle", "fetch", "read", "insert", "queued"} => r.wPay = NoRow
    /\ r.pc \in {"idle", "fetch", "read", "insert", "queued", "mark", "approve"} =>
         ~ r.lock /\ r.wSess = NoRow /\ r.wOrder = NoOrder
    /\ r.pc \in {"approve", "create"} => Payable(r.p, r.got)
    /\ r.pc = "create" =>
         /\ r.wSess # NoRow
         /\ r.wOrder = NoOrder
         /\ sess[SessionOf[r.p]].order = NoOrder
    /\ r.wSess # NoRow => r.lock

\* A stale session object or snapshot may miss the order, never invent one; an
\* approval that was fetched is one MercadoPago gave.
Stale(r) ==
    r.pc # "idle" =>
      /\ r.seen.order \in {NoOrder, sess[SessionOf[r.p]].order}
      /\ r.snap.order \in {NoOrder, sess[SessionOf[r.p]].order}
      /\ r.found \in {NoOrder, sess[SessionOf[r.p]].order}
      /\ r.got = "approved" => mp[r.p] \in EverApproved

\* What the commit will write is right for the tables as they are.
Writes(r) ==
    /\ r.wOrder = NoOrder =>
         /\ r.wSess # NoRow => r.wSess.order = sess[SessionOf[r.p]].order
         /\ r.wPay.order # NoOrder => r.wPay.order = sess[SessionOf[r.p]].order
    /\ r.wOrder # NoOrder =>
         /\ r.wSess # NoRow
         /\ r.wSess.order = r.wOrder
         /\ r.wPay.order = r.wOrder
         /\ sess[SessionOf[r.p]].order = NoOrder
         /\ orders[r.wOrder] = NoPayment
         /\ Payable(r.p, r.got)
    /\ r.wPay # NoRow => pay[r.p].order \in {NoOrder, r.wPay.order}

RequestOK(r) == Phase(r) /\ Stale(r) /\ Writes(r)

\* The rows, unique keys and new ids that two transactions hold are different.
Apart(q, r) ==
    /\ q.lock /\ r.lock => SessionOf[q.p] # SessionOf[r.p]
    /\ q.wPay # NoRow /\ r.wPay # NoRow => q.p # r.p
    /\ q.wOrder # NoOrder => q.wOrder # r.wOrder

RequestsInv == \A w \in Workers : RequestOK(req[w])
LocksInv == \A v, w \in Workers : v # w => Apart(req[v], req[w])
TablesInv == SessionAndOrderAgree /\ PaymentAndOrderAgree /\ OrderIsBacked

IInv == TypeInv /\ RequestsInv /\ LocksInv /\ TablesInv

LEMMA IInvInit == Init => IInv
  <1>. SUFFICES ASSUME Init PROVE IInv
    OBVIOUS
  <1>1. TypeInv
    BY TypeInit
  <1>2. RequestsInv
    BY DEF Init, RequestsInv, RequestOK, Phase, Stale, Writes, Idle, NoRow
  <1>3. LocksInv
    BY DEF Init, LocksInv, Apart, Idle, NoRow
  <1>4. TablesInv
    BY SessionOfAssumption DEF Init, TablesInv, SessionAndOrderAgree, PaymentAndOrderAgree,
                               OrderIsBacked, Created, NoRow
  <1>. QED  BY <1>1, <1>2, <1>3, <1>4 DEF IInv

\* A step of one request that leaves the tables and the provider alone keeps the
\* invariant when what it makes of the request is right.
LEMMA RequestStep ==
    ASSUME IInv, NEW w \in Workers, NEW r \in Request, Go(w, r),
           r.pc # "idle" => r.p \in Payments,
           UNCHANGED <<mp, sess, pay, orders>>,
           RequestOK(r), \A v \in Workers \ {w} : Apart(req[v], r)
    PROVE  RequestsInv' /\ LocksInv' /\ TablesInv'
  <1>1. /\ req'[w] = r
        /\ \A v \in Workers : v # w => req'[v] = req[v]
    BY GoOK DEF IInv
  <1>2. RequestsInv'
    <2>. SUFFICES ASSUME NEW v \in Workers PROVE RequestOK(req[v])'
      BY DEF RequestsInv
    <2>1. RequestOK(req[v])
      BY DEF IInv, RequestsInv
    <2>. QED  BY <1>1, <2>1 DEF RequestOK, Phase, Stale, Writes
  <1>3. LocksInv'
    <2>. SUFFICES ASSUME NEW u \in Workers, NEW v \in Workers, u # v
                  PROVE  Apart(req[u], req[v])'
      BY DEF LocksInv
    <2>1. Apart(req[u], req[v]) /\ Apart(req[v], req[u])
      BY DEF IInv, LocksInv
    <2>. QED  BY <1>1, <2>1 DEF Apart
  <1>4. TablesInv'
    BY DEF IInv, TablesInv, SessionAndOrderAgree, PaymentAndOrderAgree, OrderIsBacked,
           Created, OrderSession
  <1>. QED  BY <1>2, <1>3, <1>4

LEMMA IdleOK ==
    /\ RequestOK(Idle)
    /\ \A q \in Request : Apart(q, Idle)
  BY DEF RequestOK, Phase, Stale, Writes, Apart, Idle, NoRow

\* The rest of the invariant; TypeStep has its types.
Inv == RequestsInv /\ LocksInv /\ TablesInv

\* Opening a session changes no order, an approval is not taken back.
LEMMA EnvironmentStep == IInv /\ Environment => Inv'
  <1>. SUFFICES ASSUME IInv, Environment PROVE Inv'
    OBVIOUS
  <1>. USE DEF IInv, Inv
  <1>1. ASSUME NEW s \in Sessions, CreatePreference(s) PROVE Inv'
    <2>1. \A t \in Sessions : sess'[t].order = sess[t].order
      BY <1>1 DEF CreatePreference, TypeInv, TypeOK, NoRow
    <2>2. RequestsInv'
      <3>. SUFFICES ASSUME NEW v \in Workers PROVE RequestOK(req[v])'
        BY DEF RequestsInv
      <3>1. RequestOK(req[v])
        BY DEF RequestsInv
      <3>2. CASE req[v].pc = "idle"
        BY <1>1, <3>1, <3>2 DEF CreatePreference, provider, RequestOK, Phase, Stale, Writes, NoRow
      <3>3. CASE req[v].pc # "idle"
        <4>1. SessionOf[req[v].p] \in Sessions
          BY <3>3, RowsRead DEF SessionIn
        <4>. QED  BY <1>1, <2>1, <3>1, <4>1
                  DEF CreatePreference, provider, RequestOK, Phase, Stale, Writes
      <3>. QED  BY <3>2, <3>3
    <2>3. LocksInv'
      BY <1>1 DEF CreatePreference, LocksInv, Apart
    <2>4. TablesInv'
      BY <1>1, <2>1, SessionOfAssumption
         DEF CreatePreference, provider, TablesInv, SessionAndOrderAgree, PaymentAndOrderAgree,
             OrderIsBacked, Created, OrderSession, TypeInv, TypeOK
    <2>. QED  BY <2>2, <2>3, <2>4
  <1>2. ASSUME NEW p \in Payments, ProviderStep(p) PROVE Inv'
    <2>1. \A q \in Payments : mp[q] \in EverApproved => mp'[q] \in EverApproved
      BY <1>2, ProviderAssumption DEF ProviderStep, TypeInv, TypeOK
    <2>2. UNCHANGED <<sess, pay, orders, req>>
      BY <1>2 DEF ProviderStep, db
    <2>3. RequestsInv'
      BY <2>1, <2>2 DEF TypeInv, RequestsInv, RequestOK, Phase, Stale, Writes
    <2>4. LocksInv'
      BY <2>2 DEF LocksInv, Apart
    <2>5. TablesInv'
      BY <2>1, <2>2 DEF TablesInv, SessionAndOrderAgree, PaymentAndOrderAgree, OrderIsBacked,
                        Created, OrderSession, TypeInv, TypeOK
    <2>. QED  BY <2>3, <2>4, <2>5
  <1>3. ASSUME NEW p \in Payments, Redeliver(p) PROVE Inv'
    BY <1>3 DEF Redeliver, db, RequestsInv, LocksInv, TablesInv, RequestOK, Phase, Stale, Writes,
                Apart, SessionAndOrderAgree, PaymentAndOrderAgree, OrderIsBacked, Created, OrderSession
  <1>. QED  BY <1>1, <1>2, <1>3 DEF Environment

-----------------------------------------------------------------------------
(***************************************************************************)
(* The steps of a request up to its commit.                                *)
(***************************************************************************)

\* What the steps of a request start from.
LEMMA RequestFacts ==
    ASSUME IInv, NEW w \in Workers, req[w].pc # "idle"
    PROVE  /\ req[w] \in Request
           /\ req[w].p \in Payments
           /\ SessionIn(w) = SessionOf[req[w].p]
           /\ SessionIn(w) \in Sessions
           /\ sess[SessionIn(w)] \in SessionRow
           /\ pay[req[w].p] \in PaymentRow
           /\ mp[req[w].p] \in ProviderStatus
           /\ RequestOK(req[w])
           /\ \A v \in Workers \ {w} : Apart(req[v], req[w])
           /\ \A v \in Workers : req[v] \in Request
           /\ pay[req[w].p].order \in {NoOrder, sess[SessionIn(w)].order}
  BY RowsRead DEF IInv, SessionIn, RequestsInv, LocksInv, TablesInv, PaymentAndOrderAgree,
                  TypeInv, TypeOK

LEMMA IdleStep ==
    ASSUME IInv, NEW w \in Workers, Go(w, Idle), UNCHANGED <<mp, sess, pay, orders>>
    PROVE  Inv'
  BY RowTypes, IdleIsIdle, IdleOK, RequestStep DEF IInv, TypeInv, TypeOK, Inv

LEMMA DeliverStep ==
    ASSUME IInv, NEW w \in Workers, NEW p \in Payments, Deliver(w, p)
    PROVE  Inv'
  <1>. DEFINE r == [Idle EXCEPT !.pc = "fetch", !.p = p]
  <1>1. r \in Request /\ r.p = p
    BY RowTypes DEF Idle, Request, PC
  <1>2. RequestOK(r)
    BY DEF RequestOK, Phase, Stale, Writes, Idle, NoRow
  <1>3. \A v \in Workers \ {w} : Apart(req[v], r)
    BY DEF Apart, Idle, NoRow
  <1>4. Go(w, r) /\ UNCHANGED <<mp, sess, pay, orders>>
    BY DEF Deliver, db
  <1>. HIDE DEF r
  <1>. QED  BY <1>1, <1>2, <1>3, <1>4, RequestStep DEF Inv

LEMMA FetchStep ==
    ASSUME IInv, NEW w \in Workers, Fetch(w)
    PROVE  Inv'
  <1>. DEFINE r == [req[w] EXCEPT !.pc = "read", !.got = mp[req[w].p]]
  <1>1. r \in Request /\ r.p \in Payments
    BY RequestFacts DEF Fetch, Request, PC
  <1>2. RequestOK(r)
    BY RequestFacts DEF Fetch, Request, RequestOK, Phase, Stale, Writes, EverApproved
  <1>3. \A v \in Workers \ {w} : Apart(req[v], r)
    BY RequestFacts DEF Fetch, Request, Apart
  <1>4. Go(w, r) /\ UNCHANGED <<mp, sess, pay, orders>>
    BY DEF Fetch, provider, db
  <1>. HIDE DEF r
  <1>. QED  BY <1>1, <1>2, <1>3, <1>4, RequestStep DEF Inv

LEMMA ReadNewStep ==
    ASSUME IInv, NEW w \in Workers, ReadNew(w)
    PROVE  Inv'
  <1>. DEFINE r == [req[w] EXCEPT !.pc = "insert", !.seen = sess[SessionIn(w)],
                                  !.snap = sess[SessionIn(w)]]
  <1>1. r \in Request /\ r.p \in Payments
    BY RequestFacts DEF ReadNew, Request, PC
  <1>2. RequestOK(r)
    BY RequestFacts DEF ReadNew, Request, RequestOK, Phase, Stale, Writes
  <1>3. \A v \in Workers \ {w} : Apart(req[v], r)
    BY RequestFacts DEF ReadNew, Request, Apart
  <1>4. Go(w, r) /\ UNCHANGED <<mp, sess, pay, orders>>
    BY DEF ReadNew, provider, db
  <1>. HIDE DEF r
  <1>. QED  BY <1>1, <1>2, <1>3, <1>4, RequestStep DEF Inv

\* An INSERT that waits has written nothing yet.
LEMMA InsertWaitsStep ==
    ASSUME IInv, NEW w \in Workers, InsertWaits(w)
    PROVE  Inv'
  <1>. DEFINE r == [req[w] EXCEPT !.pc = "queued"]
  <1>1. r \in Request /\ r.p \in Payments
    BY RequestFacts DEF InsertWaits, Request, PC
  <1>2. RequestOK(r)
    BY RequestFacts DEF InsertWaits, Request, RequestOK, Phase, Stale, Writes
  <1>3. \A v \in Workers \ {w} : Apart(req[v], r)
    BY RequestFacts DEF InsertWaits, Request, Apart
  <1>4. Go(w, r) /\ UNCHANGED <<mp, sess, pay, orders>>
    BY DEF InsertWaits, provider, db
  <1>. HIDE DEF r
  <1>. QED  BY <1>1, <1>2, <1>3, <1>4, RequestStep DEF Inv

\* The new payment row names the order of the session object read first, which
\* is still the session's order; nobody else holds the key.
LEMMA InsertStep ==
    ASSUME IInv, NEW w \in Workers, Insert(w)
    PROVE  Inv'
  <1>. DEFINE row == [status |-> InternalStatus(req[w].p, req[w].got),
                      order |-> req[w].seen.order]
              r == [req[w] EXCEPT !.pc = AfterUpsert(w), !.wPay = row,
                                  !.found = row.order]
  <1>1. /\ row \in PaymentRow
        /\ row.order = req[w].seen.order
        /\ row # NoRow
    BY RequestFacts, InternalStatusOK DEF Insert, Request, SessionRow, PaymentRow, NoRow
  <1>2. /\ AfterUpsert(w) \in {"approve", "mark"}
        /\ AfterUpsert(w) = "approve" => Payable(req[w].p, req[w].got)
    BY DEF AfterUpsert
  <1>. HIDE DEF row
  <1>3. r \in Request /\ r.p \in Payments
    <2>1. row.order \in OrderId /\ AfterUpsert(w) \in PC
      BY <1>1, <1>2 DEF PC, PaymentRow
    <2>. QED  BY <1>1, <2>1, RequestFacts DEF Insert, Request
  <1>4. RequestOK(r)
    <2>1. Phase(r)
      BY <1>1, <1>2, RequestFacts DEF Insert, Request, RequestOK, Phase, NoRow
    <2>2. Stale(r)
      BY <1>1, <1>2, RequestFacts DEF Insert, Request, RequestOK, Stale
    <2>3. Writes(r)
      BY <1>1, <1>2, RequestFacts DEF Insert, Request, RequestOK, Phase, Stale, Writes, NoRow
    <2>. QED  BY <2>1, <2>2, <2>3 DEF RequestOK
  <1>5. \A v \in Workers \ {w} : Apart(req[v], r)
    BY <1>1, RequestFacts DEF Insert, PaymentHolders, Request, Apart
  <1>6. Go(w, r) /\ UNCHANGED <<mp, sess, pay, orders>>
    BY DEF Insert, provider, db, row
  <1>. HIDE DEF r
  <1>. QED  BY <1>3, <1>4, <1>5, <1>6, RequestStep DEF Inv

LEMMA InsertConflictStep ==
    ASSUME IInv, NEW w \in Workers, InsertConflict(w)
    PROVE  Inv'
  <1>. DEFINE r == [req[w] EXCEPT !.pc = AfterUpsert(w),
                                  !.found = pay[req[w].p].order,
                                  !.snap = sess[SessionIn(w)]]
  <1>1. /\ AfterUpsert(w) \in {"approve", "mark"}
        /\ AfterUpsert(w) = "approve" => Payable(req[w].p, req[w].got)
    BY DEF AfterUpsert
  <1>2. r \in Request /\ r.p \in Payments
    <2>1. /\ req[w] \in Request /\ req[w].p \in Payments
          /\ pay[req[w].p].order \in OrderId /\ sess[SessionIn(w)] \in SessionRow
      BY RequestFacts DEF InsertConflict, PaymentRow
    <2>. QED  BY <1>1, <2>1 DEF Request, PC
  <1>3. RequestOK(r)
    <2>1. Phase(r)
      BY <1>1, RequestFacts DEF InsertConflict, Request, RequestOK, Phase, NoRow
    <2>2. Stale(r)
      BY <1>1, RequestFacts DEF InsertConflict, Request, RequestOK, Stale
    <2>3. Writes(r)
      BY <1>1, RequestFacts DEF InsertConflict, Request, RequestOK, Phase, Stale, Writes, NoRow
    <2>. QED  BY <2>1, <2>2, <2>3 DEF RequestOK
  <1>4. \A v \in Workers \ {w} : Apart(req[v], r)
    BY RequestFacts DEF InsertConflict, Request, Apart
  <1>5. Go(w, r) /\ UNCHANGED <<mp, sess, pay, orders>>
    BY DEF InsertConflict, provider, db
  <1>. HIDE DEF r
  <1>. QED  BY <1>2, <1>3, <1>4, <1>5, RequestStep DEF Inv

\* The mark keeps the order the session row has now, under the row's lock.
LEMMA MarkSessionStep ==
    ASSUME IInv, NEW w \in Workers, MarkSession(w)
    PROVE  Inv'
  <1>. DEFINE row == Marked(w)
              r == [req[w] EXCEPT !.pc = "commit", !.lock = TRUE, !.wSess = row]
  <1>1. /\ row \in SessionRow
        /\ row.order = sess[SessionIn(w)].order
    BY RequestFacts, InternalStatusOK DEF MarkSession, Marked, Request, SessionRow
  <1>. HIDE DEF row
  <1>2. r \in Request /\ r.p \in Payments
    BY <1>1, RequestFacts DEF MarkSession, Request, PC
  <1>3. RequestOK(r)
    BY <1>1, RequestFacts DEF MarkSession, Request, RequestOK, Phase, Stale, Writes
  <1>4. \A v \in Workers \ {w} : Apart(req[v], r)
    BY RequestFacts DEF MarkSession, SessionHolders, SessionIn, Request, Apart
  <1>5. Go(w, r) /\ UNCHANGED <<mp, sess, pay, orders>>
    BY DEF MarkSession, provider, db, row
  <1>. HIDE DEF r
  <1>. QED  BY <1>2, <1>3, <1>4, <1>5, RequestStep DEF Inv

LEMMA ReturnPaymentOrderStep ==
    ASSUME IInv, NEW w \in Workers, ReturnPaymentOrder(w)
    PROVE  Inv'
  <1>. DEFINE r == [req[w] EXCEPT !.pc = "commit"]
  <1>1. r \in Request /\ r.p \in Payments
    BY RequestFacts DEF ReturnPaymentOrder, Request, PC
  <1>2. RequestOK(r)
    BY RequestFacts DEF ReturnPaymentOrder, Request, RequestOK, Phase, Stale, Writes
  <1>3. \A v \in Workers \ {w} : Apart(req[v], r)
    BY RequestFacts DEF ReturnPaymentOrder, Request, Apart
  <1>4. Go(w, r) /\ UNCHANGED <<mp, sess, pay, orders>>
    BY DEF ReturnPaymentOrder, provider, db
  <1>. HIDE DEF r
  <1>. QED  BY <1>1, <1>2, <1>3, <1>4, RequestStep DEF Inv

LEMMA AttachedOK ==
    ASSUME IInv, NEW w \in Workers, req[w].pc # "idle", NEW o \in OrderId
    PROVE  /\ Attached(w, o) \in PaymentRow
           /\ Attached(w, o).order = o
  BY RequestFacts DEF Attached, Request, PaymentRow

\* The order found in the session object read first is still the session's.
LEMMA AttachSessionOrderStep ==
    ASSUME IInv, NEW w \in Workers, AttachSessionOrder(w)
    PROVE  Inv'
  <1>. DEFINE row == Attached(w, req[w].seen.order)
              r == [req[w] EXCEPT !.pc = "commit", !.wPay = row]
  <1>1. /\ row \in PaymentRow
        /\ row.order = req[w].seen.order
    BY RequestFacts, AttachedOK DEF AttachSessionOrder, Request, SessionRow
  <1>. HIDE DEF row
  <1>2. r \in Request /\ r.p \in Payments
    BY <1>1, RequestFacts DEF AttachSessionOrder, Request, PC
  <1>3. RequestOK(r)
    BY <1>1, RequestFacts DEF AttachSessionOrder, Request, RequestOK, Phase, Stale, Writes
  <1>4. \A v \in Workers \ {w} : Apart(req[v], r)
    BY RequestFacts DEF AttachSessionOrder, PaymentHolders, Request, Apart
  <1>5. Go(w, r) /\ UNCHANGED <<mp, sess, pay, orders>>
    BY DEF AttachSessionOrder, provider, db, row
  <1>. HIDE DEF r
  <1>. QED  BY <1>2, <1>3, <1>4, <1>5, RequestStep DEF Inv

\* The claim succeeds on a row without order, and keeps it locked.
LEMMA ClaimStep ==
    ASSUME IInv, NEW w \in Workers, Claim(w)
    PROVE  Inv'
  <1>. DEFINE pc == IF req[w].seen.status = "processing_order" THEN "commit" ELSE "create"
              row == [status |-> "processing_order", order |-> NoOrder]
              r == [req[w] EXCEPT !.pc = pc, !.lock = TRUE, !.wSess = row]
  <1>1. row \in SessionRow /\ row # NoRow /\ row.order = NoOrder
    BY DEF SessionRow, SessionStatus, OrderId, NoRow
  <1>2. pc \in {"commit", "create"}
    OBVIOUS
  <1>3. Go(w, r) /\ UNCHANGED <<mp, sess, pay, orders>>
    BY DEF Claim, provider, db
  <1>. HIDE DEF row, pc
  <1>4. r \in Request /\ r.p \in Payments
    BY <1>1, <1>2, RequestFacts DEF Claim, Claiming, Request, PC
  <1>5. RequestOK(r)
    BY <1>1, <1>2, RequestFacts
       DEF Claim, Claiming, Claimable, Request, RequestOK, Phase, Stale, Writes
  <1>6. \A v \in Workers \ {w} : Apart(req[v], r)
    BY RequestFacts DEF Claim, Claiming, SessionHolders, SessionIn, Request, Apart
  <1>. HIDE DEF r
  <1>. QED  BY <1>3, <1>4, <1>5, <1>6, RequestStep DEF Inv

LEMMA ClaimRejectedStep ==
    ASSUME IInv, NEW w \in Workers, ClaimRejected(w)
    PROVE  Inv'
  <1>. DEFINE r == [req[w] EXCEPT !.pc = "commit", !.lock = TRUE]
  <1>1. r \in Request /\ r.p \in Payments
    BY RequestFacts DEF ClaimRejected, Claiming, Request, PC
  <1>2. RequestOK(r)
    BY RequestFacts DEF ClaimRejected, Claiming, Request, RequestOK, Phase, Stale, Writes
  <1>3. \A v \in Workers \ {w} : Apart(req[v], r)
    BY RequestFacts DEF ClaimRejected, Claiming, SessionHolders, SessionIn, Request, Apart
  <1>4. Go(w, r) /\ UNCHANGED <<mp, sess, pay, orders>>
    BY DEF ClaimRejected, provider, db
  <1>. HIDE DEF r
  <1>. QED  BY <1>1, <1>2, <1>3, <1>4, RequestStep DEF Inv

LEMMA ClaimFindsOrderStep ==
    ASSUME IInv, NEW w \in Workers, ClaimFindsOrder(w)
    PROVE  Inv'
  <1>. DEFINE row == Attached(w, req[w].snap.order)
              r == [req[w] EXCEPT !.pc = "commit", !.lock = TRUE, !.wPay = row]
  <1>1. /\ row \in PaymentRow
        /\ row.order = req[w].snap.order
    BY RequestFacts, AttachedOK DEF ClaimFindsOrder, Claiming, Request, SessionRow
  <1>. HIDE DEF row
  <1>2. r \in Request /\ r.p \in Payments
    BY <1>1, RequestFacts DEF ClaimFindsOrder, Claiming, Request, PC
  <1>3. RequestOK(r)
    BY <1>1, RequestFacts DEF ClaimFindsOrder, Claiming, Request, RequestOK, Phase, Stale, Writes
  <1>4. \A v \in Workers \ {w} : Apart(req[v], r)
    BY RequestFacts
       DEF ClaimFindsOrder, Claiming, SessionHolders, PaymentHolders, SessionIn, Request, Apart
  <1>5. Go(w, r) /\ UNCHANGED <<mp, sess, pay, orders>>
    BY DEF ClaimFindsOrder, provider, db, row
  <1>. HIDE DEF r
  <1>. QED  BY <1>2, <1>3, <1>4, <1>5, RequestStep DEF Inv

\* The claim has kept the session without order; the id is nobody else's.
LEMMA CreateOrderStep ==
    ASSUME IInv, NEW w \in Workers, CreateOrder(w)
    PROVE  Inv'
  <1>1. PICK o \in FreshOrders :
          Go(w, [req[w] EXCEPT !.pc = "commit", !.wOrder = o,
                               !.wPay = Attached(w, o),
                               !.wSess = PaidSession(o)])
    BY DEF CreateOrder
  <1>. DEFINE row == Attached(w, o)
              new == PaidSession(o)
              r == [req[w] EXCEPT !.pc = "commit", !.wOrder = o, !.wPay = row, !.wSess = new]
  <1>2. Go(w, r) /\ UNCHANGED <<mp, sess, pay, orders>>
    BY <1>1 DEF CreateOrder, provider, db
  <1>3. /\ o \in OrderId
        /\ o # NoOrder
        /\ orders[o] = NoPayment
        /\ \A v \in Workers : req[v].wOrder # o
    BY NullAssumption DEF FreshOrders, OrderId
  <1>4. row \in PaymentRow /\ row.order = o
    BY <1>3, AttachedOK DEF CreateOrder
  <1>5. new \in SessionRow /\ new.order = o /\ new # NoRow
    BY <1>3 DEF PaidSession, SessionRow, SessionStatus, NoRow
  <1>. HIDE DEF row, new
  <1>6. r \in Request /\ r.p \in Payments
    <2>1. req[w] \in Request /\ req[w].p \in Payments
      BY RequestFacts DEF CreateOrder
    <2>. QED  BY <1>3, <1>4, <1>5, <2>1 DEF Request, PC
  <1>7. RequestOK(r)
    <2>1. Phase(r)
      BY <1>3, <1>4, <1>5, RequestFacts DEF CreateOrder, Request, RequestOK, Phase
    <2>2. Stale(r)
      BY <1>3, <1>4, <1>5, RequestFacts DEF CreateOrder, Request, RequestOK, Stale
    <2>3. Writes(r)
      BY <1>3, <1>4, <1>5, RequestFacts DEF CreateOrder, Request, RequestOK, Phase, Stale, Writes
    <2>. QED  BY <2>1, <2>2, <2>3 DEF RequestOK
  <1>8. \A v \in Workers \ {w} : Apart(req[v], r)
    BY <1>3, RequestFacts DEF CreateOrder, PaymentHolders, RequestOK, Phase, Request, Apart
  <1>. HIDE DEF r
  <1>. QED  BY <1>2, <1>6, <1>7, <1>8, RequestStep DEF Inv

LEMMA CreateRefusedStep ==
    ASSUME IInv, NEW w \in Workers, CreateRefused(w)
    PROVE  Inv'
  <1>. DEFINE r == [req[w] EXCEPT !.pc = "commit"]
  <1>1. r \in Request /\ r.p \in Payments
    BY RequestFacts DEF CreateRefused, Request, PC
  <1>2. RequestOK(r)
    BY RequestFacts DEF CreateRefused, Request, RequestOK, Phase, Stale, Writes
  <1>3. \A v \in Workers \ {w} : Apart(req[v], r)
    BY RequestFacts DEF CreateRefused, Request, Apart
  <1>4. Go(w, r) /\ UNCHANGED <<mp, sess, pay, orders>>
    BY DEF CreateRefused, provider, db
  <1>. HIDE DEF r
  <1>. QED  BY <1>1, <1>2, <1>3, <1>4, RequestStep DEF Inv

-----------------------------------------------------------------------------
(***************************************************************************)
(* The commit.                                                             *)
(***************************************************************************)

\* What a commit does to the orders the tables name.
LEMMA CommitTables ==
    ASSUME IInv, NEW w \in Workers, req[w].pc = "commit", ApplyWrites(w)
    PROVE  /\ \A s \in Sessions :
                sess'[s].order = IF s = SessionIn(w) /\ req[w].wOrder # NoOrder
                                   THEN req[w].wOrder ELSE sess[s].order
           /\ \A p \in Payments :
                pay'[p] = IF p = req[w].p /\ req[w].wPay # NoRow
                            THEN req[w].wPay ELSE pay[p]
           /\ \A o \in Orders :
                orders'[o] = IF o = req[w].wOrder THEN req[w].p ELSE orders[o]
  <1>1. /\ req[w].p \in Payments
        /\ SessionIn(w) \in Sessions
        /\ SessionIn(w) = SessionOf[req[w].p]
        /\ Writes(req[w])
        /\ TypeOK
    BY RequestFacts DEF RequestOK, IInv, TypeInv
  <1>2. \A s \in Sessions :
          sess'[s].order = IF s = SessionIn(w) /\ req[w].wOrder # NoOrder
                             THEN req[w].wOrder ELSE sess[s].order
    BY <1>1 DEF ApplyWrites, Writes, TypeOK
  <1>3. \A p \in Payments :
          pay'[p] = IF p = req[w].p /\ req[w].wPay # NoRow THEN req[w].wPay ELSE pay[p]
    BY <1>1 DEF ApplyWrites, TypeOK
  <1>4. \A o \in Orders :
          orders'[o] = IF o = req[w].wOrder THEN req[w].p ELSE orders[o]
    BY <1>1, NullAssumption DEF ApplyWrites, TypeOK
  <1>. QED  BY <1>2, <1>3, <1>4

LEMMA CommitStep ==
    ASSUME IInv, NEW w \in Workers, req[w].pc = "commit",
           ApplyWrites(w), Go(w, Idle), mp' = mp
    PROVE  Inv'
  <1>. DEFINE r == req[w]
              s == SessionIn(w)
  <1>1. /\ r \in Request
        /\ r.p \in Payments
        /\ s \in Sessions
        /\ s = SessionOf[r.p]
        /\ RequestOK(r)
        /\ \A v \in Workers \ {w} : Apart(req[v], r)
        /\ \A v \in Workers : req[v] \in Request
    BY RequestFacts
  <1>2. /\ req'[w] = Idle
        /\ \A v \in Workers : v # w => req'[v] = req[v]
    BY RowTypes, IdleIsIdle, GoOK DEF IInv
  <1>3. /\ \A t \in Sessions :
             sess'[t].order = IF t = s /\ r.wOrder # NoOrder THEN r.wOrder ELSE sess[t].order
        /\ \A p \in Payments :
             pay'[p] = IF p = r.p /\ r.wPay # NoRow THEN r.wPay ELSE pay[p]
        /\ \A o \in Orders : orders'[o] = IF o = r.wOrder THEN r.p ELSE orders[o]
    BY CommitTables
  <1>4. \A p \in Payments : SessionOf[p] \in Sessions
    BY SessionOfAssumption
  <1>. HIDE DEF r, s
  <1>5. RequestsInv'
    <2>. SUFFICES ASSUME NEW v \in Workers PROVE RequestOK(req[v])'
      BY DEF RequestsInv
    <2>1. CASE v = w
      BY <1>2, <2>1 DEF RequestOK, Phase, Stale, Writes, Idle, NoRow
    <2>2. CASE v # w
      <3>. DEFINE q == req[v]
      <3>1. RequestOK(q) /\ Apart(q, r) /\ q \in Request /\ req'[v] = q
        BY <1>1, <1>2, <2>2 DEF IInv, RequestsInv
      <3>2. CASE q.pc = "idle"
        BY <3>1, <3>2 DEF RequestOK, Phase, Stale, Writes, NoRow
      <3>3. CASE q.pc # "idle"
        <4>1. q.p \in Payments /\ SessionOf[q.p] \in Sessions
          BY <1>4, <3>3 DEF IInv, TypeInv
        <4>2. q.lock => sess'[SessionOf[q.p]].order = sess[SessionOf[q.p]].order
          BY <1>1, <1>3, <3>1, <4>1 DEF RequestOK, Phase, Writes, Apart
        <4>3. sess[SessionOf[q.p]].order # NoOrder =>
                sess'[SessionOf[q.p]].order = sess[SessionOf[q.p]].order
          BY <1>1, <1>3, <4>1 DEF RequestOK, Writes
        <4>4. q.wPay # NoRow => pay'[q.p] = pay[q.p]
          BY <1>3, <3>1, <4>1 DEF Apart
        <4>5. q.wOrder # NoOrder => q.wOrder \in Orders /\ orders'[q.wOrder] = orders[q.wOrder]
          BY <1>3, <3>1 DEF Apart, Request, OrderId
        <4>. QED  BY <3>1, <3>3, <4>1, <4>2, <4>3, <4>4, <4>5
                  DEF RequestOK, Phase, Stale, Writes, NoRow
      <3>. QED  BY <3>2, <3>3
    <2>. QED  BY <2>1, <2>2
  <1>6. LocksInv'
    <2>. SUFFICES ASSUME NEW u \in Workers, NEW v \in Workers, u # v
                  PROVE  Apart(req[u], req[v])'
      BY DEF LocksInv
    <2>1. Apart(req[u], req[v]) /\ Apart(req[v], req[u])
      BY DEF IInv, LocksInv
    <2>. QED  BY <1>2, <2>1 DEF Apart, Idle, NoRow
  <1>7. SessionAndOrderAgree'
    <2>1. ASSUME NEW o \in Orders, orders'[o] # NoPayment
          PROVE  sess'[SessionOf[orders'[o]]].order = o
      <3>1. CASE o = r.wOrder
        BY <1>1, <1>3, <3>1, NullAssumption
      <3>2. CASE o # r.wOrder
        <4>1. /\ orders'[o] = orders[o]
              /\ orders[o] \in Payments
              /\ sess[SessionOf[orders[o]]].order = o
              /\ o # NoOrder
          BY <1>3, <2>1, <3>2, NullAssumption
             DEF IInv, TypeInv, TypeOK, TablesInv, SessionAndOrderAgree, Created, OrderSession
        <4>. QED  BY <1>1, <1>3, <1>4, <4>1 DEF RequestOK, Writes
      <3>. QED  BY <3>1, <3>2
    <2>2. ASSUME NEW t \in Sessions, sess'[t].order # NoOrder
          PROVE  /\ orders'[sess'[t].order] # NoPayment
                 /\ SessionOf[orders'[sess'[t].order]] = t
      <3>1. CASE t = s /\ r.wOrder # NoOrder
        BY <1>1, <1>3, <3>1, NullAssumption DEF Request, OrderId
      <3>2. CASE ~ (t = s /\ r.wOrder # NoOrder)
        <4>1. sess'[t].order = sess[t].order /\ sess[t].order \in Orders
          BY <1>3, <2>2, <3>2 DEF IInv, TypeInv, TypeOK, SessionRow, OrderId
        <4>2. sess[t].order # r.wOrder
          BY <1>1, <2>2, <4>1
             DEF IInv, TablesInv, SessionAndOrderAgree, Created, RequestOK, Writes
        <4>. QED  BY <1>3, <2>2, <4>1, <4>2
                  DEF IInv, TablesInv, SessionAndOrderAgree, Created, OrderSession
      <3>. QED  BY <3>1, <3>2
    <2>. QED  BY <2>1, <2>2 DEF SessionAndOrderAgree, Created, OrderSession
  <1>8. PaymentAndOrderAgree'
    <2>. SUFFICES ASSUME NEW p \in Payments, pay'[p].order # NoOrder
                  PROVE  pay'[p].order = sess'[SessionOf[p]].order
      BY DEF PaymentAndOrderAgree
    <2>1. pay[p].order # NoOrder => pay[p].order = sess[SessionOf[p]].order
      BY DEF IInv, TablesInv, PaymentAndOrderAgree
    <2>2. CASE p = r.p /\ r.wPay # NoRow
      BY <1>1, <1>3, <2>2 DEF RequestOK, Writes
    <2>3. CASE ~ (p = r.p /\ r.wPay # NoRow)
      BY <1>1, <1>3, <1>4, <2>1, <2>3 DEF RequestOK, Writes
    <2>. QED  BY <2>2, <2>3
  <1>9. OrderIsBacked'
    <2>. SUFFICES ASSUME NEW o \in Orders, orders'[o] # NoPayment
                  PROVE  /\ orders'[o] \in Matching
                         /\ mp'[orders'[o]] \in EverApproved
                         /\ pay'[orders'[o]].order = o
      BY DEF OrderIsBacked, Created
    <2>1. CASE o = r.wOrder
      <3>1. /\ o # NoOrder
            /\ r.wPay.order = o
            /\ r.got = "approved"
            /\ r.p \in Matching
        BY <1>1, <2>1, NullAssumption, InternalStatusOK DEF RequestOK, Writes, Request
      <3>2. r.pc # "idle"
        BY DEF r
      <3>. QED  BY <1>1, <1>3, <2>1, <3>1, <3>2 DEF RequestOK, Stale, NoRow
    <2>2. CASE o # r.wOrder
      <3>1. /\ orders'[o] = orders[o]
            /\ orders[o] \in Payments \cap Matching
            /\ mp[orders[o]] \in EverApproved
            /\ pay[orders[o]].order = o
            /\ o # NoOrder
        BY <1>3, <2>2, NullAssumption
           DEF IInv, TypeInv, TypeOK, TablesInv, OrderIsBacked, Created
      <3>. QED  BY <1>1, <1>3, <3>1 DEF RequestOK, Writes
    <2>. QED  BY <2>1, <2>2
  <1>. QED  BY <1>5, <1>6, <1>7, <1>8, <1>9 DEF Inv, TablesInv

LEMMA IInvStep == IInv /\ [Next]_vars => IInv'
  <1>. SUFFICES ASSUME IInv, [Next]_vars PROVE Inv'
    BY TypeStep DEF IInv, Inv
  <1>1. CASE Environment
    BY <1>1, EnvironmentStep
  <1>2. ASSUME NEW w \in Workers, NEW p \in Payments, Deliver(w, p) PROVE Inv'
    BY <1>2, DeliverStep
  <1>3. ASSUME NEW w \in Workers, FetchFails(w) \/ ReadDuplicate(w) \/ Abort(w) \/ Victim(w)
        PROVE  Inv'
    BY <1>3, IdleStep DEF FetchFails, ReadDuplicate, Abort, Victim, provider, db
  <1>4. ASSUME NEW w \in Workers, Commit(w) \/ CommitUnanswered(w) PROVE Inv'
    BY <1>4, CommitStep DEF Commit, CommitUnanswered, provider
  <1>5. ASSUME NEW w \in Workers, Handle(w) PROVE Inv'
    BY <1>3, <1>4, <1>5, FetchStep, ReadNewStep, InsertWaitsStep, InsertStep, InsertConflictStep,
       MarkSessionStep,
       ReturnPaymentOrderStep, AttachSessionOrderStep, ClaimStep, ClaimRejectedStep,
       ClaimFindsOrderStep, CreateOrderStep DEF Handle
  <1>6. ASSUME NEW w \in Workers, Fault(w) PROVE Inv'
    BY <1>3, <1>4, <1>6, CreateRefusedStep DEF Fault
  <1>7. CASE UNCHANGED vars
    BY <1>7 DEF vars, IInv, Inv, RequestsInv, LocksInv, TablesInv, RequestOK, Phase, Stale, Writes,
                Apart, SessionAndOrderAgree, PaymentAndOrderAgree, OrderIsBacked, Created, OrderSession
  <1>. QED  BY <1>1, <1>2, <1>3, <1>5, <1>6, <1>7 DEF Next

LEMMA Invariance == Spec => []IInv
  BY IInvInit, IInvStep, PTL DEF Spec

-----------------------------------------------------------------------------
(***************************************************************************)
(* The safety properties.                                                  *)
(***************************************************************************)

\* The order a session names was created for it: two orders of one session are
\* the order it names.
LEMMA AgreementGivesOneOrder == SessionAndOrderAgree => OneOrderPerSession
  BY DEF SessionAndOrderAgree, OneOrderPerSession

\* However many notifications overlap, repeat and fail, a cart becomes at most
\* one order.
THEOREM AtMostOneOrder == Spec => []OneOrderPerSession
  <1>1. IInv => OneOrderPerSession
    BY AgreementGivesOneOrder DEF IInv, TablesInv
  <1>. QED  BY <1>1, Invariance, PTL

\* The three tables tell the same story after every commit.
THEOREM TablesAgree == Spec => [](SessionAndOrderAgree /\ PaymentAndOrderAgree)
  <1>1. IInv => SessionAndOrderAgree /\ PaymentAndOrderAgree
    BY DEF IInv, TablesInv
  <1>. QED  BY <1>1, Invariance, PTL

\* A payment that names an order names that of its own session (the attachments of
\* attach_order and create_order_from_approved_payment, decided on stale rows).
THEOREM PaymentsAndOrdersAgree == Spec => []PaymentAndOrderAgree
  <1>1. IInv => PaymentAndOrderAgree
    BY DEF IInv, TablesInv
  <1>. QED  BY <1>1, Invariance, PTL

\* No order without an approved payment of the right amount.
THEOREM EveryOrderIsBacked == Spec => []OrderIsBacked
  <1>1. IInv => OrderIsBacked
    BY DEF IInv, TablesInv
  <1>. QED  BY <1>1, Invariance, PTL

\* Every step either is a commit, or opens a session, or leaves the tables.
LEMMA WhoWrites ==
    ASSUME [Next]_vars
    PROVE  \/ \E w \in Workers : /\ req[w].pc = "commit"
                                 /\ ApplyWrites(w)
                                 /\ mp' = mp
           \/ \E s \in Sessions : CreatePreference(s)
           \/ \E p \in Payments : ProviderStep(p)
           \/ UNCHANGED <<mp, sess, pay, orders>>
  <1>1. CASE Environment
    BY <1>1 DEF Environment, Redeliver, db
  <1>2. ASSUME NEW w \in Workers, NEW p \in Payments, Deliver(w, p)
        PROVE  UNCHANGED <<mp, sess, pay, orders>>
    BY <1>2 DEF Deliver, db
  <1>3. ASSUME NEW w \in Workers, Commit(w) \/ CommitUnanswered(w)
        PROVE  req[w].pc = "commit" /\ ApplyWrites(w) /\ mp' = mp
    BY <1>3 DEF Commit, CommitUnanswered, provider
  <1>4. ASSUME NEW w \in Workers, Handle(w), ~ Commit(w)
        PROVE  UNCHANGED <<mp, sess, pay, orders>>
    BY <1>4 DEF Handle, Fetch, ReadDuplicate, ReadNew, InsertWaits, Insert, InsertConflict, MarkSession,
                ReturnPaymentOrder, AttachSessionOrder, Claim, ClaimRejected, ClaimFindsOrder,
                CreateOrder, provider, db
  <1>5. ASSUME NEW w \in Workers, Fault(w), ~ CommitUnanswered(w)
        PROVE  UNCHANGED <<mp, sess, pay, orders>>
    BY <1>5 DEF Fault, FetchFails, CreateRefused, Abort, provider, db
  <1>6. ASSUME NEW w \in Workers, Victim(w) PROVE UNCHANGED <<mp, sess, pay, orders>>
    BY <1>6 DEF Victim, db
  <1>7. CASE UNCHANGED vars
    BY <1>7 DEF vars
  <1>. QED  BY <1>1, <1>2, <1>3, <1>4, <1>5, <1>6, <1>7 DEF Next, Environment

LEMMA OrdersKeptStep ==
    ASSUME IInv, [Next]_vars
    PROVE  /\ \A s \in Sessions : sess[s].order # NoOrder => sess'[s].order = sess[s].order
           /\ \A o \in Orders : Created(o) => orders'[o] = orders[o]
           /\ \A p \in Payments : pay[p].order # NoOrder => pay'[p].order = pay[p].order
  <1>1. ASSUME NEW w \in Workers, req[w].pc = "commit", ApplyWrites(w)
        PROVE  /\ \A s \in Sessions : sess[s].order # NoOrder => sess'[s].order = sess[s].order
               /\ \A o \in Orders : Created(o) => orders'[o] = orders[o]
               /\ \A p \in Payments : pay[p].order # NoOrder => pay'[p].order = pay[p].order
    <2>1. Writes(req[w]) /\ SessionIn(w) = SessionOf[req[w].p]
      BY <1>1, RequestFacts DEF RequestOK
    <2>. QED  BY <1>1, <2>1, CommitTables, NullAssumption DEF Writes, Created
  <1>2. ASSUME NEW s \in Sessions, CreatePreference(s)
        PROVE  UNCHANGED <<pay, orders>> /\ \A t \in Sessions : sess'[t].order = sess[t].order
    BY <1>2 DEF CreatePreference, IInv, TypeInv, TypeOK, NoRow
  <1>3. ASSUME NEW p \in Payments, ProviderStep(p) PROVE UNCHANGED <<sess, pay, orders>>
    BY <1>3 DEF ProviderStep, db
  <1>. QED  BY <1>1, <1>2, <1>3, WhoWrites

\* What a commit has shown is never taken back.
THEOREM OrdersStay == Spec => OrdersAreKept
  <1>1. IInv /\ [Next]_vars =>
          [/\ \A s \in Sessions : sess[s].order # NoOrder => sess'[s].order = sess[s].order
           /\ \A o \in Orders : Created(o) => orders'[o] = orders[o]
           /\ \A p \in Payments : pay[p].order # NoOrder => pay'[p].order = pay[p].order]_vars
    BY OrdersKeptStep
  <1>. QED  BY <1>1, Invariance, PTL DEF Spec, OrdersAreKept

-----------------------------------------------------------------------------
(***************************************************************************)
(* The claim.                                                              *)
(***************************************************************************)

\* No session is committed as being processed, no request has seen one, and
\* none is about to commit one: the claim's own request goes on to the order.
NoClaimSeen ==
    /\ ClaimNeverSurvives
    /\ \A w \in Workers :
         /\ req[w].seen.status # "processing_order"
         /\ req[w].pc = "commit" => req[w].wSess.status # "processing_order"

LEMMA NoClaimStep ==
    ASSUME "refuse" \notin Faults, IInv, NoClaimSeen, [Next]_vars
    PROVE  NoClaimSeen'
  <1>. USE DEF NoClaimSeen, ClaimNeverSurvives
  <1>1. CASE Environment \/ UNCHANGED vars
    BY <1>1 DEF Environment, CreatePreference, ProviderStep, Redeliver, db, vars, IInv, TypeInv, TypeOK
  <1>2. ASSUME NEW w \in Workers, Go(w, Idle), UNCHANGED sess PROVE NoClaimSeen'
    <2>1. Idle.seen.status # "processing_order" /\ Idle.pc # "commit"
      BY DEF Idle, NoRow
    <2>. QED  BY <1>2, <2>1, RowTypes, IdleIsIdle, GoOK DEF IInv
  <1>3. ASSUME NEW w \in Workers, NEW p \in Payments, Deliver(w, p) PROVE NoClaimSeen'
    BY <1>3 DEF Deliver, Go, db, Idle, NoRow, IInv, TypeInv, TypeOK
  <1>4. ASSUME NEW w \in Workers, req[w].pc = "commit", ApplyWrites(w), Go(w, Idle)
        PROVE  NoClaimSeen'
    <2>1. \A s \in Sessions : sess'[s].status # "processing_order"
      BY <1>4, RequestFacts DEF ApplyWrites, IInv, TypeInv, TypeOK
    <2>2. Idle.seen.status # "processing_order" /\ Idle.pc # "commit"
      BY DEF Idle, NoRow
    <2>. QED  BY <1>4, <2>1, <2>2, RowTypes, IdleIsIdle, GoOK DEF IInv
  <1>5. ASSUME NEW w \in Workers,
               Fetch(w) \/ ReadNew(w) \/ InsertWaits(w) \/ Insert(w) \/ InsertConflict(w)
        PROVE  NoClaimSeen'
    <2>1. /\ UNCHANGED sess
          /\ \A v \in Workers \ {w} : req'[v] = req[v]
          /\ req'[w].pc # "commit"
          /\ req'[w].seen \in {req[w].seen, sess[SessionIn(w)]}
      <3>1. CASE Fetch(w)
        BY <3>1, RequestFacts DEF Fetch, Go, db, Request, IInv, TypeInv, TypeOK
      <3>2. CASE ReadNew(w)
        BY <3>2, RequestFacts DEF ReadNew, Go, db, Request, IInv, TypeInv, TypeOK
      <3>3. CASE Insert(w)
        BY <3>3, RequestFacts DEF Insert, AfterUpsert, Go, db, Request, IInv, TypeInv, TypeOK
      <3>4. CASE InsertConflict(w)
        BY <3>4, RequestFacts DEF InsertConflict, AfterUpsert, Go, db, Request, IInv, TypeInv, TypeOK
      <3>5. CASE InsertWaits(w)
        BY <3>5, RequestFacts DEF InsertWaits, Go, db, Request, IInv, TypeInv, TypeOK
      <3>. QED  BY <1>5, <3>1, <3>2, <3>3, <3>4, <3>5
    <2>2. SessionIn(w) \in Sessions
      BY <1>5, RequestFacts DEF Fetch, ReadNew, InsertWaits, Insert, InsertConflict
    <2>. QED  BY <2>1, <2>2
  <1>6. ASSUME NEW w \in Workers, MarkSession(w) PROVE NoClaimSeen'
    <2>1. InternalStatus(req[w].p, req[w].got) # "processing_order"
      BY <1>6, RequestFacts, InternalStatusOK DEF MarkSession, Request, PaymentStatus
    <2>. QED  BY <1>6, <2>1, RequestFacts
              DEF MarkSession, Marked, Go, db, Request, SessionRow, IInv, TypeInv, TypeOK
  <1>7. ASSUME NEW w \in Workers,
               ReturnPaymentOrder(w) \/ AttachSessionOrder(w) \/ ClaimRejected(w) \/ ClaimFindsOrder(w)
        PROVE  NoClaimSeen'
    <2>1. /\ UNCHANGED sess
          /\ \A v \in Workers \ {w} : req'[v] = req[v]
          /\ req'[w].seen = req[w].seen
          /\ req'[w].wSess = req[w].wSess
          /\ req[w].wSess = NoRow
      <3>. USE RequestFacts DEF Go, db, Request, RequestOK, Phase, IInv, TypeInv, TypeOK
      <3>1. CASE ReturnPaymentOrder(w)
        BY <3>1 DEF ReturnPaymentOrder
      <3>2. CASE AttachSessionOrder(w)
        BY <3>2 DEF AttachSessionOrder
      <3>3. CASE ClaimRejected(w)
        BY <3>3 DEF ClaimRejected, Claiming
      <3>4. CASE ClaimFindsOrder(w)
        BY <3>4 DEF ClaimFindsOrder, Claiming
      <3>. QED  BY <1>7, <3>1, <3>2, <3>3, <3>4
    <2>. QED  BY <2>1 DEF NoRow
  <1>8. ASSUME NEW w \in Workers, Claim(w) PROVE NoClaimSeen'
    <2>1. /\ UNCHANGED sess
          /\ \A v \in Workers \ {w} : req'[v] = req[v]
          /\ req'[w].seen = req[w].seen
          /\ req'[w].pc = "create"
      BY <1>8, RequestFacts DEF Claim, Claiming, Go, db, Request, IInv, TypeInv, TypeOK
    <2>. QED  BY <2>1
  <1>9. ASSUME NEW w \in Workers, CreateOrder(w) PROVE NoClaimSeen'
    <2>1. PICK o \in FreshOrders :
            Go(w, [req[w] EXCEPT !.pc = "commit", !.wOrder = o,
                                 !.wPay = Attached(w, o),
                                 !.wSess = PaidSession(o)])
      BY <1>9 DEF CreateOrder
    <2>2. /\ UNCHANGED sess
          /\ \A v \in Workers \ {w} : req'[v] = req[v]
          /\ req'[w].seen = req[w].seen
          /\ req'[w].wSess.status = "pagado"
      BY <1>9, <2>1, RequestFacts DEF CreateOrder, PaidSession, Go, db, Request, IInv, TypeInv, TypeOK
    <2>. QED  BY <2>2
  <1>10. ASSUME NEW w \in Workers, Handle(w) PROVE NoClaimSeen'
    BY <1>2, <1>4, <1>5, <1>6, <1>7, <1>8, <1>9, <1>10 DEF Handle, ReadDuplicate, Commit, db
  <1>11. ASSUME NEW w \in Workers, Fault(w) PROVE NoClaimSeen'
    BY <1>2, <1>4, <1>11
       DEF Fault, FetchFails, CreateRefused, CommitUnanswered, Abort, MayFail, db
  <1>12. ASSUME NEW w \in Workers, Victim(w) PROVE NoClaimSeen'
    BY <1>2, <1>12 DEF Victim, db
  <1>. QED  BY <1>1, <1>3, <1>10, <1>11, <1>12 DEF Next

\* Unless the creation of an order can be refused, a claim is never committed
\* without its order, whatever crashes.
THEOREM ClaimEndsWithItsRequest ==
    ASSUME "refuse" \notin Faults
    PROVE  Spec => []ClaimNeverSurvives
  <1>1. Init => NoClaimSeen
    BY DEF Init, NoClaimSeen, ClaimNeverSurvives, Idle, NoRow
  <1>2. IInv /\ NoClaimSeen /\ [Next]_vars => NoClaimSeen'
    BY NoClaimStep
  <1>3. NoClaimSeen => ClaimNeverSurvives
    BY DEF NoClaimSeen
  <1>. QED  BY <1>1, <1>2, <1>3, Invariance, PTL DEF Spec

-----------------------------------------------------------------------------
(***************************************************************************)
(* The refinement.                                                         *)
(***************************************************************************)

LEMMA PromiseInit == Init => Promise!Init
  BY DEF Init, Promise!Init, EverApproved, NoRow

\* An approval is Approve, a commit that shows a new order is Create, and every
\* other step leaves the promise as it is.
LEMMA PromiseStep ==
    ASSUME IInv, [Next]_vars
    PROVE  [Promise!Next]_(Promise!pvars)
  <1>. DEFINE A == {p \in Payments : mp[p] \in EverApproved}
              O == [s \in Sessions |-> sess[s].order]
  <1>. USE DEF IInv, TypeInv
  <1>1. ASSUME NEW w \in Workers, req[w].pc = "commit", ApplyWrites(w), mp' = mp
        PROVE  [Promise!Next]_(Promise!pvars)
    <2>. DEFINE r == req[w]
    <2>1. /\ r.p \in Payments
          /\ SessionIn(w) = SessionOf[r.p]
          /\ SessionOf[r.p] \in Sessions
          /\ r \in Request
          /\ RequestOK(r)
      BY <1>1, RequestFacts
    <2>2. A' = A
      BY <1>1
    <2>3. CASE r.wOrder = NoOrder
      <3>1. O' = O
        BY <1>1, <2>3, CommitTables
      <3>2. orders' = orders
        BY <1>1, <2>3 DEF ApplyWrites
      <3>. QED  BY <2>2, <3>1, <3>2 DEF Promise!pvars
    <2>4. CASE r.wOrder # NoOrder
      <3>1. r.wOrder \in Orders
        BY <2>1, <2>4 DEF Request, OrderId
      <3>2. /\ r.got = "approved"
            /\ r.p \in A \cap Matching
        BY <1>1, <2>1, <2>4, InternalStatusOK DEF RequestOK, Writes, Stale, Request
      <3>3. /\ O[SessionOf[r.p]] = NoOrder
            /\ orders[r.wOrder] = NoPayment
        BY <2>1, <2>4 DEF RequestOK, Writes
      <3>4. O' = [O EXCEPT ![SessionOf[r.p]] = r.wOrder]
        <4>1. \A s \in Sessions :
                sess'[s].order = IF s = SessionOf[r.p] THEN r.wOrder ELSE sess[s].order
          BY <1>1, <2>1, <2>4, CommitTables
        <4>. QED  BY <2>1, <4>1
      <3>5. orders' = [orders EXCEPT ![r.wOrder] = r.p]
        BY <1>1, <2>4 DEF ApplyWrites
      <3>. HIDE DEF r
      <3>6. Promise!Next
        BY <2>1, <2>2, <3>1, <3>2, <3>3, <3>4, <3>5 DEF Promise!Create, Promise!Next
      <3>. QED  BY <3>6
    <2>. QED  BY <2>3, <2>4
  <1>2. ASSUME NEW s \in Sessions, CreatePreference(s)
        PROVE  [Promise!Next]_(Promise!pvars)
    <2>1. \A t \in Sessions : sess'[t].order = sess[t].order
      BY <1>2 DEF CreatePreference, TypeOK, NoRow
    <2>2. A' = A /\ O' = O /\ orders' = orders
      BY <1>2, <2>1 DEF CreatePreference, provider
    <2>. QED  BY <2>2 DEF Promise!pvars
  <1>3. ASSUME NEW p \in Payments, ProviderStep(p)
        PROVE  [Promise!Next]_(Promise!pvars)
    <2>1. UNCHANGED <<sess, pay, orders>>
      BY <1>3 DEF ProviderStep, db
    <2>2. A' = A \/ (p \notin A /\ A' = A \cup {p})
      BY <1>3, ProviderAssumption DEF ProviderStep, TypeOK
    <2>3. O' = O /\ orders' = orders
      BY <2>1
    <2>4. CASE A' = A
      BY <2>3, <2>4 DEF Promise!pvars
    <2>5. CASE p \notin A /\ A' = A \cup {p}
      BY <2>3, <2>5 DEF Promise!Next, Promise!Approve
    <2>. QED  BY <2>2, <2>4, <2>5
  <1>4. CASE UNCHANGED <<mp, sess, pay, orders>>
    BY <1>4 DEF Promise!pvars
  <1>. QED  BY <1>1, <1>2, <1>3, <1>4, WhoWrites

\* The handlers, with their transactions, crashes and repetitions, implement
\* OrderPromise.
THEOREM Refinement == Spec => ImplementsPromise
  <1>. QED  BY PromiseInit, PromiseStep, Invariance, PTL
            DEF Spec, ImplementsPromise, Promise!Spec

=============================================================================

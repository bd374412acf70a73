--------------------------- MODULE StatusView_proofs ---------------------------
(***************************************************************************)
(* Proofs about StatusView, for every set of sessions, payments, orders    *)
(* and workers: what a customer is told is so.  They rest on the invariant *)
(* of PaymentWebhook and on one of their own, Truthful: a status that is   *)
(* saved, or about to be, was MercadoPago's word about some payment.       *)
(***************************************************************************)
EXTENDS StatusView, PaymentWebhook_proofs

\* What a saved status says of payment p is so at MercadoPago.
Truth(p, status) ==
    /\ status = "pagado" => p \in Matching /\ mp[p] \in EverApproved
    /\ status = "rechazado" => mp[p] \in TurnedDown
    /\ status = "amount_mismatch" => p \notin Matching /\ mp[p] \in EverApproved

PaymentRowTrue(p) ==
    /\ Truth(p, pay[p].status)
    /\ pay[p].order # NoOrder => pay[p].status # "none"

\* A session is marked after a registered payment of its own, and paid with an order.
SessionRowTrue(s) ==
    /\ sess[s].status \in {"rechazado", "amount_mismatch"} =>
         \E q \in Registered(s) : Truth(q, sess[s].status)
    /\ sess[s].status = "pagado" => sess[s].order # NoOrder

\* The same for what a request has fetched and is going to write.
RequestTrue(r) ==
    r.pc # "idle" =>
      /\ r.got \in TurnedDown => mp[r.p] \in TurnedDown
      /\ r.pc = "mark" => ~ Payable(r.p, r.got)
      /\ r.pc \in {"mark", "approve", "create", "commit"} =>
           r.wPay # NoRow \/ pay[r.p].status # "none"
      /\ r.wPay # NoRow => r.wPay.status # "none" /\ Truth(r.p, r.wPay.status)
      /\ r.wSess.status \in {"rechazado", "amount_mismatch"} => Truth(r.p, r.wSess.status)
      /\ r.wSess.status = "pagado" => r.wSess.order # NoOrder

Truthful ==
    /\ \A p \in Payments : PaymentRowTrue(p)
    /\ \A s \in Sessions : SessionRowTrue(s)
    /\ \A w \in Workers : RequestTrue(req[w])

-----------------------------------------------------------------------------
(***************************************************************************)
(* Truthful is an invariant.                                               *)
(***************************************************************************)

LEMMA TruthfulInit == Init => Truthful
  BY SessionOfAssumption
     DEF Init, Truthful, PaymentRowTrue, SessionRowTrue, RequestTrue, Truth, NoRow, Idle

\* The status saved for an answer of get_payment is true.
LEMMA SavedStatusIsTrue ==
    ASSUME NEW p \in Payments, NEW st \in ProviderStatus,
           st = "approved" => mp[p] \in EverApproved,
           st \in TurnedDown => mp[p] \in TurnedDown
    PROVE  Truth(p, InternalStatus(p, st))
  <1>1. MapPaymentStatus(st) \in {"pagado", "rechazado", "pendiente"}
    BY DEF MapPaymentStatus
  <1>2. /\ MapPaymentStatus(st) = "pagado" => st = "approved"
        /\ MapPaymentStatus(st) = "rechazado" => st \in TurnedDown
    BY DEF MapPaymentStatus, TurnedDown
  <1>. QED  BY <1>1, <1>2 DEF Truth, InternalStatus

\* Statuses at MercadoPago only change in a way that keeps true what was true.
LEMMA TruthStays ==
    ASSUME \A q \in Payments : mp[q] \in EverApproved => mp'[q] \in EverApproved,
           \A q \in Payments : mp[q] \in TurnedDown => mp'[q] \in TurnedDown,
           NEW p \in Payments, NEW status, Truth(p, status)
    PROVE  Truth(p, status)'
  BY DEF Truth

\* A step of one request that leaves the tables and the provider alone.
LEMMA TrueRequestStep ==
    ASSUME IInv, Truthful, NEW w \in Workers, NEW r \in Request, Go(w, r),
           UNCHANGED <<mp, sess, pay>>, RequestTrue(r)
    PROVE  Truthful'
  <1>1. /\ req'[w] = r
        /\ \A v \in Workers : v # w => req'[v] = req[v]
    BY DEF IInv, TypeInv, TypeOK, Go
  <1>2. \A v \in Workers : RequestTrue(req[v])'
    BY <1>1 DEF Truthful, RequestTrue, Truth
  <1>3. \A p \in Payments : PaymentRowTrue(p)'
    BY DEF Truthful, PaymentRowTrue, Truth
  <1>4. \A s \in Sessions : SessionRowTrue(s)'
    BY DEF Truthful, SessionRowTrue, Registered, Truth
  <1>. QED  BY <1>2, <1>3, <1>4 DEF Truthful

\* The steps of a request before its commit.
LEMMA TrueHandleStep ==
    ASSUME IInv, IInv', Truthful, NEW w \in Workers,
           \/ Fetch(w) \/ ReadDuplicate(w) \/ ReadNew(w)
           \/ InsertWaits(w) \/ Insert(w) \/ InsertConflict(w)
           \/ MarkSession(w) \/ ReturnPaymentOrder(w) \/ AttachSessionOrder(w) \/ Claim(w)
           \/ ClaimRejected(w) \/ ClaimFindsOrder(w) \/ CreateOrder(w)
           \/ FetchFails(w) \/ CreateRefused(w) \/ Abort(w) \/ Victim(w)
    PROVE  Truthful'
  <1>. DEFINE q == req[w]
  <1>1. q.pc # "idle"
    BY DEF Fetch, ReadDuplicate, ReadNew, InsertWaits, Insert, InsertConflict, MarkSession,
           ReturnPaymentOrder, AttachSessionOrder, Claim, Claiming, ClaimRejected, ClaimFindsOrder, CreateOrder,
           FetchFails, CreateRefused, Abort, Victim, Deadlocked
  <1>2. /\ q \in Request /\ q.p \in Payments
        /\ SessionIn(w) = SessionOf[q.p] /\ sess[SessionIn(w)] \in SessionRow
        /\ pay[q.p] \in PaymentRow /\ mp[q.p] \in ProviderStatus
        /\ RequestOK(q)
    BY <1>1, RequestFacts
  <1>3. UNCHANGED <<mp, sess, pay>>
    BY DEF Fetch, ReadDuplicate, ReadNew, InsertWaits, Insert, InsertConflict, MarkSession,
           ReturnPaymentOrder, AttachSessionOrder, Claim, ClaimRejected, ClaimFindsOrder, CreateOrder,
           FetchFails, CreateRefused, Abort, Victim, provider, db
  <1>4. RequestTrue(q) /\ PaymentRowTrue(q.p) /\ SessionRowTrue(SessionIn(w))
    BY <1>2, SessionOfAssumption DEF Truthful
  <1>5. req'[w] \in Request /\ req = [v \in Workers |-> req[v]]
    BY DEF IInv, TypeInv, TypeOK
  <1>6. SUFFICES RequestTrue(req'[w]) /\ Go(w, req'[w])
    BY <1>3, <1>5, TrueRequestStep
  <1>7. RequestTrue(Idle)
    BY DEF RequestTrue, Idle
  <1>8. CASE Fetch(w)
    <2>1. Go(w, [q EXCEPT !.pc = "read", !.got = mp[q.p]])
      BY <1>8 DEF Fetch
    <2>2. RequestTrue([q EXCEPT !.pc = "read", !.got = mp[q.p]])
      BY <1>1, <1>2, <1>4 DEF RequestTrue, Request, RequestOK, Phase
    <2>. QED  BY <1>5, <2>1, <2>2 DEF Go
  <1>9. CASE ReadDuplicate(w) \/ FetchFails(w) \/ Abort(w) \/ Victim(w)
    <2>1. Go(w, Idle)
      BY <1>9 DEF ReadDuplicate, FetchFails, Abort, Victim
    <2>. QED  BY <1>5, <1>7, <2>1 DEF Go
  <1>10. CASE ReadNew(w)
    <2>1. Go(w, [q EXCEPT !.pc = "insert", !.seen = sess[SessionIn(w)],
                          !.snap = sess[SessionIn(w)]])
      BY <1>10 DEF ReadNew
    <2>2. q.pc = "read"
      BY <1>10 DEF ReadNew
    <2>3. RequestTrue([q EXCEPT !.pc = "insert", !.seen = sess[SessionIn(w)],
                                !.snap = sess[SessionIn(w)]])
      BY <1>2, <1>4, <2>2 DEF RequestTrue, Request
    <2>. QED  BY <1>5, <2>1, <2>3 DEF Go
  <1>11. q.pc \notin {"idle", "fetch", "read"} => Truth(q.p, InternalStatus(q.p, q.got))
    BY <1>1, <1>2, <1>4, SavedStatusIsTrue DEF RequestTrue, RequestOK, Stale, Request
  <1>12. InternalStatus(q.p, q.got) \in PaymentStatus \ {"none"}
    BY <1>2, InternalStatusOK DEF Request
  <1>13. CASE Insert(w)
    <2>1. /\ q.pc \in {"insert", "queued"}
          /\ Go(w, [q EXCEPT !.pc = AfterUpsert(w),
                             !.wPay = [status |-> InternalStatus(q.p, q.got), order |-> q.seen.order],
                             !.found = q.seen.order])
      BY <1>13 DEF Insert
    <2>. QED  BY <1>2, <1>4, <1>5, <1>11, <1>12, <2>1
              DEF Go, RequestTrue, Request, AfterUpsert, NoRow, RequestOK, Phase
  <1>14. CASE InsertConflict(w)
    <2>1. /\ q.pc \in {"insert", "queued"} /\ pay[q.p] # NoRow
          /\ Go(w, [q EXCEPT !.pc = AfterUpsert(w), !.found = pay[q.p].order,
                             !.snap = sess[SessionIn(w)]])
      BY <1>14 DEF InsertConflict
    <2>2. pay[q.p].status # "none"
      BY <1>2, <1>4, <2>1 DEF PaymentRowTrue, NoRow, PaymentRow
    <2>. QED  BY <1>2, <1>4, <1>5, <2>1, <2>2 DEF Go, RequestTrue, Request, AfterUpsert
  <1>15. CASE MarkSession(w)
    <2>1. /\ q.pc = "mark"
          /\ Go(w, [q EXCEPT !.pc = "commit", !.lock = TRUE, !.wSess = Marked(w)])
      BY <1>15 DEF MarkSession
    <2>2. Marked(w).status = InternalStatus(q.p, q.got)
      BY <1>2 DEF Marked, SessionRow
    <2>3. InternalStatus(q.p, q.got) # "pagado"
      BY <1>4, <2>1 DEF RequestTrue, Payable
    <2>. QED  BY <1>2, <1>4, <1>5, <1>11, <2>1, <2>2, <2>3 DEF Go, RequestTrue, Request
  <1>16. CASE ReturnPaymentOrder(w)
    <2>1. q.pc = "approve" /\ Go(w, [q EXCEPT !.pc = "commit"])
      BY <1>16 DEF ReturnPaymentOrder
    <2>. QED  BY <1>2, <1>4, <1>5, <2>1 DEF Go, RequestTrue, Request
  <1>17. ASSUME q.pc \in {"approve", "create"}, NEW o \in OrderId
         PROVE  /\ Attached(w, o) # NoRow
                /\ Attached(w, o).status # "none"
                /\ Truth(q.p, Attached(w, o).status)
    BY <1>2, <1>4, <1>17 DEF Attached, RequestTrue, PaymentRowTrue, Request, PaymentRow, NoRow
  <1>18. CASE AttachSessionOrder(w)
    <2>1. /\ q.pc = "approve"
          /\ Go(w, [q EXCEPT !.pc = "commit", !.wPay = Attached(w, q.seen.order)])
      BY <1>18 DEF AttachSessionOrder
    <2>2. q.seen.order \in OrderId
      BY <1>2 DEF Request, SessionRow
    <2>. QED  BY <1>2, <1>4, <1>5, <1>17, <2>1, <2>2 DEF Go, RequestTrue, Request
  <1>19. CASE Claim(w)
    <2>1. /\ q.pc = "approve"
          /\ Go(w, [q EXCEPT !.pc = IF q.seen.status = "processing_order" THEN "commit"
                                    ELSE "create",
                             !.lock = TRUE,
                             !.wSess = [status |-> "processing_order", order |-> NoOrder]])
      BY <1>19 DEF Claim, Claiming
    <2>. QED  BY <1>2, <1>4, <1>5, <2>1 DEF Go, RequestTrue, Request
  <1>20. CASE ClaimRejected(w)
    <2>1. q.pc = "approve" /\ Go(w, [q EXCEPT !.pc = "commit", !.lock = TRUE])
      BY <1>20 DEF ClaimRejected, Claiming
    <2>. QED  BY <1>2, <1>4, <1>5, <2>1 DEF Go, RequestTrue, Request
  <1>21. CASE ClaimFindsOrder(w)
    <2>1. /\ q.pc = "approve"
          /\ Go(w, [q EXCEPT !.pc = "commit", !.lock = TRUE, !.wPay = Attached(w, q.snap.order)])
      BY <1>21 DEF ClaimFindsOrder, Claiming
    <2>2. q.snap.order \in OrderId
      BY <1>2 DEF Request, SessionRow
    <2>. QED  BY <1>2, <1>4, <1>5, <1>17, <2>1, <2>2 DEF Go, RequestTrue, Request
  <1>22. CASE CreateOrder(w)
    <2>1. PICK o \in Orders :
            Go(w, [q EXCEPT !.pc = "commit", !.wOrder = o, !.wPay = Attached(w, o),
                            !.wSess = PaidSession(o)])
      BY <1>22 DEF CreateOrder, FreshOrders
    <2>2. o \in OrderId /\ o # NoOrder /\ q.pc = "create"
      BY <1>22, NullsAreApart DEF OrderId, CreateOrder
    <2>. QED  BY <1>2, <1>4, <1>5, <1>17, <2>1, <2>2 DEF Go, RequestTrue, Request, PaidSession
  <1>23. CASE CreateRefused(w)
    <2>1. q.pc = "create" /\ Go(w, [q EXCEPT !.pc = "commit"])
      BY <1>23 DEF CreateRefused
    <2>. QED  BY <1>2, <1>4, <1>5, <2>1 DEF Go, RequestTrue, Request
  <1>24. CASE InsertWaits(w)
    <2>1. q.pc = "insert" /\ Go(w, [q EXCEPT !.pc = "queued"])
      BY <1>24 DEF InsertWaits
    <2>. QED  BY <1>2, <1>4, <1>5, <2>1 DEF Go, RequestTrue, Request
  <1>. QED  BY <1>8, <1>9, <1>10, <1>13, <1>14, <1>15, <1>16, <1>18, <1>19, <1>20, <1>21,
               <1>22, <1>23, <1>24

\* A notification reaches a worker.
LEMMA TrueDeliverStep ==
    ASSUME IInv, IInv', Truthful, NEW w \in Workers, NEW p \in Payments, Deliver(w, p)
    PROVE  Truthful'
  <1>1. Go(w, [Idle EXCEPT !.pc = "fetch", !.p = p]) /\ UNCHANGED <<mp, sess, pay>>
    BY DEF Deliver, db
  <1>2. [Idle EXCEPT !.pc = "fetch", !.p = p] \in Request
    BY RowTypes DEF Idle, Request, PC
  <1>3. RequestTrue([Idle EXCEPT !.pc = "fetch", !.p = p])
    BY DEF RequestTrue, Idle, TurnedDown, NoRow
  <1>. QED  BY <1>1, <1>2, <1>3, TrueRequestStep

\* The customer and MercadoPago.
LEMMA TrueEnvironmentStep == IInv /\ Truthful /\ Environment => Truthful'
  <1>. SUFFICES ASSUME IInv, Truthful, Environment PROVE Truthful'
    OBVIOUS
  <1>1. ASSUME NEW s \in Sessions, CreatePreference(s) PROVE Truthful'
    <2>1. UNCHANGED <<mp, pay, req>>
      BY <1>1 DEF CreatePreference, provider
    <2>2. \A t \in Sessions : SessionRowTrue(t)'
      BY <1>1, <2>1 DEF CreatePreference, IInv, TypeInv, TypeOK, Truthful, SessionRowTrue,
                        Registered, Truth
    <2>. QED  BY <2>1, <2>2 DEF Truthful, PaymentRowTrue, RequestTrue, Truth
  <1>2. ASSUME NEW p \in Payments, ProviderStep(p) PROVE Truthful'
    <2>1. /\ \A q \in Payments : mp[q] \in EverApproved => mp'[q] \in EverApproved
          /\ \A q \in Payments : mp[q] \in TurnedDown => mp'[q] \in TurnedDown
      BY <1>2, ProviderAssumption, TurnedDownAssumption
         DEF ProviderStep, IInv, TypeInv, TypeOK
    <2>2. UNCHANGED <<sess, pay, req>>
      BY <1>2 DEF ProviderStep, db
    <2>3. \A q \in Payments : PaymentRowTrue(q)'
      BY <2>1, <2>2, TruthStays DEF Truthful, PaymentRowTrue
    <2>4. \A s \in Sessions : SessionRowTrue(s)'
      <3>. SUFFICES ASSUME NEW s \in Sessions PROVE SessionRowTrue(s)'
        OBVIOUS
      <3>1. SessionRowTrue(s)
        BY DEF Truthful
      <3>2. \A q \in Registered(s) : q \in Payments
        BY DEF Registered
      <3>3. Registered(s)' = Registered(s)
        BY <2>2 DEF Registered
      <3>4. \A q \in Registered(s) : Truth(q, sess[s].status) => Truth(q, sess[s].status)'
        BY <2>1, <2>2, <3>2, TruthStays
      <3>. QED  BY <2>2, <3>1, <3>3, <3>4 DEF SessionRowTrue
    <2>5. \A w \in Workers : RequestTrue(req[w])'
      <3>. SUFFICES ASSUME NEW w \in Workers, req[w].pc # "idle" PROVE RequestTrue(req[w])'
        BY <2>2 DEF RequestTrue
      <3>1. RequestTrue(req[w]) /\ req[w].p \in Payments
        BY RequestFacts DEF Truthful
      <3>. QED  BY <2>1, <2>2, <3>1 DEF RequestTrue, Truth
    <2>. QED  BY <2>3, <2>4, <2>5 DEF Truthful
  <1>3. ASSUME NEW p \in Payments, Redeliver(p) PROVE Truthful'
    BY <1>3 DEF Redeliver, db, Truthful, PaymentRowTrue, SessionRowTrue, RequestTrue, Truth,
                Registered
  <1>. QED  BY <1>1, <1>2, <1>3 DEF Environment

\* A commit.
LEMMA TrueCommitStep ==
    ASSUME IInv, IInv', Truthful, NEW w \in Workers, Commit(w) \/ CommitUnanswered(w)
    PROVE  Truthful'
  <1>. DEFINE r == req[w]
  <1>1. r.pc = "commit" /\ ApplyWrites(w) /\ Go(w, Idle) /\ UNCHANGED mp
    BY DEF Commit, CommitUnanswered, provider
  <1>2. r \in Request /\ r.p \in Payments /\ SessionIn(w) = SessionOf[r.p] /\ RequestOK(r)
    BY <1>1, RequestFacts
  <1>3. RequestTrue(r)
    BY DEF Truthful
  <1>4. /\ req'[w] = Idle
        /\ \A v \in Workers : v # w => req'[v] = req[v]
    BY <1>1 DEF Go, IInv, TypeInv, TypeOK
  <1>5. \A p \in Payments : pay'[p] = IF r.wPay # NoRow /\ p = r.p THEN r.wPay ELSE pay[p]
    BY <1>1, <1>2 DEF ApplyWrites, IInv, TypeInv, TypeOK
  <1>6. \A s \in Sessions :
          sess'[s] = IF r.wSess # NoRow /\ s = SessionOf[r.p] THEN r.wSess ELSE sess[s]
    BY <1>1, <1>2 DEF ApplyWrites, IInv, TypeInv, TypeOK
  <1>7. \A p \in Payments : PaymentRowTrue(p)'
    BY <1>1, <1>3, <1>5 DEF Truthful, RequestTrue, PaymentRowTrue, Truth
  <1>8. /\ pay'[r.p].status # "none"
        /\ \A p \in Payments : pay[p].status # "none" => pay'[p].status # "none"
    BY <1>1, <1>2, <1>3, <1>5 DEF RequestTrue
  <1>9. \A s \in Sessions : SessionRowTrue(s)'
    <2>. SUFFICES ASSUME NEW s \in Sessions PROVE SessionRowTrue(s)'
      OBVIOUS
    <2>1. \A q \in Registered(s) : q \in Registered(s)'
      BY <1>8 DEF Registered
    <2>2. CASE r.wSess # NoRow /\ s = SessionOf[r.p]
      <3>1. r.p \in Registered(s)'
        BY <1>2, <1>8, <2>2 DEF Registered
      <3>. QED  BY <1>1, <1>3, <1>6, <2>2, <3>1 DEF SessionRowTrue, RequestTrue, Truth
    <2>3. CASE ~ (r.wSess # NoRow /\ s = SessionOf[r.p])
      BY <1>1, <1>6, <2>1, <2>3 DEF Truthful, SessionRowTrue, Truth
    <2>. QED  BY <2>2, <2>3
  <1>10. \A v \in Workers : RequestTrue(req[v])'
    <2>. SUFFICES ASSUME NEW v \in Workers, v # w, req[v].pc # "idle" PROVE RequestTrue(req[v])'
      BY <1>4 DEF RequestTrue, Idle
    <2>1. RequestTrue(req[v]) /\ req[v].p \in Payments
      BY RequestFacts DEF Truthful
    <2>. QED  BY <1>1, <1>4, <1>8, <2>1 DEF RequestTrue, Truth
  <1>. QED  BY <1>7, <1>9, <1>10 DEF Truthful

LEMMA TruthfulStep == IInv /\ IInv' /\ Truthful /\ [Next]_vars => Truthful'
  <1>. SUFFICES ASSUME IInv, IInv', Truthful, [Next]_vars PROVE Truthful'
    OBVIOUS
  <1>1. CASE UNCHANGED vars
    BY <1>1 DEF vars, Truthful, PaymentRowTrue, SessionRowTrue, RequestTrue, Truth, Registered
  <1>2. CASE Environment
    BY <1>2, TrueEnvironmentStep
  <1>3. CASE \E w \in Workers, p \in Payments : Deliver(w, p)
    BY <1>3, TrueDeliverStep
  <1>4. CASE \E w \in Workers : Handle(w) \/ Fault(w) \/ Victim(w)
    <2>1. PICK w \in Workers : Handle(w) \/ Fault(w) \/ Victim(w)
      BY <1>4
    <2>2. CASE Commit(w) \/ CommitUnanswered(w)
      BY <2>2, TrueCommitStep
    <2>3. CASE ~ (Commit(w) \/ CommitUnanswered(w))
      BY <2>1, <2>3, TrueHandleStep DEF Handle, Fault
    <2>. QED  BY <2>2, <2>3
  <1>. QED  BY <1>1, <1>2, <1>3, <1>4 DEF Next

LEMMA TruthInvariance == Spec => [](IInv /\ Truthful)
  <1>1. Spec => []IInv
    BY Invariance
  <1>. QED  BY <1>1, TruthfulInit, TruthfulStep, PTL DEF Spec

-----------------------------------------------------------------------------
(***************************************************************************)
(* What a customer is told.                                                *)
(***************************************************************************)

\* An order that is shown exists, and belongs to a registered payment of the
\* session that was approved over the right amount.
LEMMA ShownOrder ==
    ASSUME IInv, Truthful, NEW s \in Sessions, NEW p \in Latest(s), HasOrder(s, p)
    PROVE  /\ sess[s].order # NoOrder
           /\ orders[OrderShown(s, p)] \in Registered(s)
           /\ orders[OrderShown(s, p)] \in Matching
           /\ mp[orders[OrderShown(s, p)]] \in EverApproved
  <1>. DEFINE o == OrderShown(s, p)
  <1>1. p # NoPayment => p \in Payments /\ SessionOf[p] = s
    BY DEF Latest, Registered
  <1>2. sess[s].order # NoOrder /\ o = sess[s].order
    BY <1>1 DEF HasOrder, OrderShown, IInv, TablesInv, PaymentAndOrderAgree
  <1>3. o \in Orders /\ Created(o) /\ OrderSession(o) = s
    BY <1>2 DEF IInv, TypeInv, TypeOK, SessionRow, OrderId, TablesInv, SessionAndOrderAgree
  <1>4. /\ orders[o] \in Payments /\ SessionOf[orders[o]] = s
        /\ orders[o] \in Matching /\ mp[orders[o]] \in EverApproved /\ pay[orders[o]].order = o
    BY <1>3 DEF IInv, TypeInv, TypeOK, TablesInv, OrderIsBacked, Created, OrderSession
  <1>5. pay[orders[o]].status # "none"
    BY <1>2, <1>4 DEF Truthful, PaymentRowTrue
  <1>. QED  BY <1>2, <1>4, <1>5 DEF Registered

\* A checkout is shown as paid exactly when it has its order, which a payment of
\* this checkout has paid for (get_payment_status).
THEOREM PaidIsShownWithItsOrder == Spec => []PaidShowsOrder
  <1>1. IInv /\ Truthful => PaidShowsOrder
    <2>. SUFFICES ASSUME IInv, Truthful, NEW s \in Sessions, NEW p \in Latest(s)
                  PROVE  /\ CheckoutShown(s, p) = "paid" <=> HasOrder(s, p)
                         /\ HasOrder(s, p) => orders[OrderShown(s, p)] \in Registered(s)
      BY DEF PaidShowsOrder
    <2>1. sess[s].status = "pagado" => HasOrder(s, p)
      BY DEF Truthful, SessionRowTrue, HasOrder, OrderShown
    <2>. QED  BY <2>1, ShownOrder DEF CheckoutShown, PublicCheckout
  <1>. QED  BY <1>1, TruthInvariance, PTL

\* A rejection is told of a payment that was turned down: the latest one, or one
\* that made the checkout fail.
LEMMA ToldRejected ==
    ASSUME IInv, Truthful, NEW s \in Sessions, NEW p \in Latest(s), Told(s, p) = "rejected"
    PROVE  /\ PaymentShown(p) = "rejected" => p \in Registered(s) /\ mp[p] \in TurnedDown
           /\ \E q \in Registered(s) : mp[q] \in TurnedDown
  <1>1. Registered(s) \subseteq Payments
    BY DEF Registered
  <1>2. PaymentShown(p) = "rejected" => p \in Registered(s) /\ mp[p] \in TurnedDown
    <2>. SUFFICES ASSUME PaymentShown(p) = "rejected"
                  PROVE  p \in Registered(s) /\ mp[p] \in TurnedDown
      OBVIOUS
    <2>1. p \in Registered(s)
      BY DEF PaymentShown, Latest
    <2>2. pay[p].status \in PaymentStatus
      BY <1>1, <2>1 DEF IInv, TypeInv, TypeOK, PaymentRow
    <2>3. pay[p].status = "rechazado"
      BY <2>2 DEF PaymentShown, PublicPayment, PaymentStatus
    <2>. QED  BY <1>1, <2>1, <2>3 DEF Truthful, PaymentRowTrue, Truth
  <1>3. CASE PaymentShown(p) = "rejected"
    BY <1>2, <1>3
  <1>4. CASE PaymentShown(p) # "rejected"
    <2>1. CheckoutShown(s, p) = "failed"
      BY <1>4 DEF Told, Message
    <2>2. sess[s].status = "rechazado"
      BY <2>1 DEF CheckoutShown, PublicCheckout
    <2>3. \E q \in Registered(s) : Truth(q, sess[s].status)
      BY <2>2 DEF Truthful, SessionRowTrue
    <2>. QED  BY <1>2, <2>2, <2>3 DEF Truth
  <1>. QED  BY <1>2, <1>3, <1>4

\* What the message of get_payment_status says of the money is so, at MercadoPago,
\* of the payment that the message is about.
THEOREM TheMessageFitsItsPayment == Spec => []MessageFitsItsPayment
  <1>1. IInv /\ Truthful => MessageFitsItsPayment
    <2>. SUFFICES ASSUME IInv, Truthful, NEW s \in Sessions, NEW p \in Latest(s)
         PROVE  /\ Told(s, p) = "created" =>
                     /\ orders[OrderShown(s, p)] \in Registered(s) \cap Matching
                     /\ mp[orders[OrderShown(s, p)]] \in EverApproved
                /\ Told(s, p) = "creating" => p \in Matching /\ mp[p] \in EverApproved
                /\ Told(s, p) = "rejected" =>
                     IF PaymentShown(p) = "rejected"
                       THEN mp[p] \in TurnedDown
                       ELSE \E q \in Registered(s) : mp[q] \in TurnedDown
                /\ Told(s, p) = "difference" =>
                     \E q \in Registered(s) : q \notin Matching /\ mp[q] \in EverApproved
      BY DEF MessageFitsItsPayment
    <2>1. CASE Told(s, p) = "created"
      <3>1. HasOrder(s, p)
        BY <2>1 DEF Told, Message
      <3>. QED  BY <2>1, <3>1, ShownOrder
    <2>2. CASE Told(s, p) = "creating"
      <3>1. PaymentShown(p) = "approved"
        BY <2>2 DEF Told, Message
      <3>2. p \in Payments /\ p \in Registered(s)
        BY <3>1 DEF PaymentShown, Latest, Registered
      <3>3. pay[p].status = "pagado"
        BY <3>1, <3>2
           DEF PaymentShown, PublicPayment, PaymentStatus, IInv, TypeInv, TypeOK, PaymentRow
      <3>. QED  BY <2>2, <3>2, <3>3 DEF Truthful, PaymentRowTrue, Truth
    <2>3. CASE Told(s, p) = "rejected"
      BY <2>3, ToldRejected
    <2>4. CASE Told(s, p) = "difference"
      <3>1. sess[s].status = "amount_mismatch"
        BY <2>4 DEF Told, Message, CheckoutShown, PublicCheckout
      <3>. QED  BY <2>4, <3>1 DEF Truthful, SessionRowTrue, Truth
    <2>. QED  BY <2>1, <2>2, <2>3, <2>4
  <1>. QED  BY <1>1, TruthInvariance, PTL

\* Where no checkout is paid twice at MercadoPago, who is told of a rejection has not
\* paid: RejectedIsUnpaid fails only by the payments of a second try.
THEOREM OneTryIsToldTheTruth ==
    ASSUME \A p, q \in Payments : SessionOf[p] = SessionOf[q] => p = q
    PROVE  Spec => []RejectedIsUnpaid
  <1>1. IInv /\ Truthful => RejectedIsUnpaid
    <2>. SUFFICES ASSUME IInv, Truthful, NEW s \in Sessions, NEW p \in Latest(s),
                         Told(s, p) = "rejected", NEW r \in Registered(s)
                  PROVE  mp[r] # "approved"
      BY DEF RejectedIsUnpaid
    <2>1. PICK q \in Registered(s) : mp[q] \in TurnedDown
      BY ToldRejected
    <2>2. q = r
      BY DEF Registered
    <2>. QED  BY <2>1, <2>2 DEF TurnedDown
  <1>. QED  BY <1>1, TruthInvariance, PTL

\* The page goes on showing the order it has shown.
LEMMA ShownStep ==
    ASSUME IInv, Truthful, IInv', Truthful', [Next]_vars,
           NEW s \in Sessions, NEW p \in Latest(s), HasOrder(s, p), NEW q \in Latest(s)'
    PROVE  /\ OrderShown(s, q)' = OrderShown(s, p)
           /\ CheckoutShown(s, q)' = "paid"
  <1>1. sess[s].order # NoOrder
    BY ShownOrder
  <1>2. sess'[s].order = sess[s].order
    BY <1>1, OrdersKeptStep
  <1>3. OrderShown(s, q)' = OrderShown(s, p) /\ HasOrder(s, q)'
    BY <1>1, <1>2 DEF OrderShown, HasOrder
  <1>. QED  BY <1>3 DEF CheckoutShown, PublicCheckout

\* What get_payment_status has shown of an order it never takes back, whichever
\* payment of the checkout is the latest one then and later.
THEOREM WhatIsShownStays == Spec => ShownOrderStays
  <1>1. IInv /\ Truthful /\ (IInv /\ Truthful)' /\ [Next]_vars =>
          [\A s \in Sessions : \A p \in Latest(s) :
             HasOrder(s, p) =>
               \A q \in Latest(s)' :
                 /\ OrderShown(s, q)' = OrderShown(s, p)
                 /\ CheckoutShown(s, q)' = "paid"]_vars
    BY ShownStep
  <1>. QED  BY <1>1, TruthInvariance, PTL DEF Spec, ShownOrderStays

=============================================================================

------------------------------ MODULE Settlement ------------------------------
(***************************************************************************)
(* The creation of an order with everything it settles: CreateOrderUseCase *)
(* in the transaction of a webhook or of POST /orders.  The cart is priced *)
(* from a snapshot, the order is inserted, points are debited, the coupon  *)
(* is counted, points are credited, and all of it is committed.            *)
(*                                                                         *)
(* The database is MySQL/InnoDB at REPEATABLE READ.  The INSERT of an      *)
(* order takes a shared lock on the row of its user (the foreign key), an  *)
(* UPDATE takes an exclusive lock and computes the new value from the row  *)
(* last committed or written by its own transaction.  Locks are kept until *)
(* the transaction ends.  A request for a shared lock also waits for the    *)
(* requests for an exclusive one that came first; when transactions wait   *)
(* for each other in a circle InnoDB rolls one of them back.               *)
(***************************************************************************)
EXTENDS Integers

CONSTANTS
    Users,     \* users.id
    Coupons,   \* coupons.id
    Requests,  \* creations of one order each
    Cart,      \* request -> who orders, points spent, coupon, points earned
    Balance,   \* points_balance of the users at the beginning
    Used,      \* uses_count of the coupons at the beginning
    MaxUses,   \* max_uses of the coupons, 0 for NULL
    Guest,     \* no user
    NoCoupon   \* no coupon

CartType == [user : Users \cup {Guest}, spends : Nat,
             coupon : Coupons \cup {NoCoupon}, earns : Nat]

ASSUME CartAssumption == Cart \in [Requests -> CartType]
ASSUME TablesAssumption ==
    /\ Balance \in [Users -> Int]
    /\ Used \in [Coupons -> Nat]
    /\ MaxUses \in [Coupons -> Nat]
ASSUME NullAssumption == Guest \notin Users /\ NoCoupon \notin Coupons
\* Points are earned by users only: create_order.py credits nothing to a guest.
ASSUME GuestAssumption == \A r \in Requests : Cart[r].user = Guest => Cart[r].earns = 0

VARIABLES
    points,  \* column users.points_balance, committed
    uses,    \* column coupons.uses_count, committed
    req      \* the requests

vars == <<points, uses, req>>

(***************************************************************************)
(* A request: its next statement and whether that waits for a lock, its    *)
(* lock on the user row and the balance it wrote there, its lock on the    *)
(* coupon row and the count it wrote there.  What it wrote counts while it *)
(* has the exclusive lock.                                                 *)
(***************************************************************************)
PC == {"start", "insert", "debit", "coupon", "credit", "commit", "done"}
Request == [pc : PC, waits : BOOLEAN, lock : {"none", "shared", "exclusive"}, 
            balance : Int, redeems : BOOLEAN, count : Nat]
Fresh == [pc |-> "start", waits |-> FALSE, lock |-> "none",
          balance |-> 0, redeems |-> FALSE, count |-> 0]

User(r) == Cart[r].user
Coupon(r) == Cart[r].coupon
Rivals(r) == {v \in Requests \ {r} : User(v) = User(r) /\ User(r) # Guest}

\* Mutants: an UPDATE of a user, or of a coupon, that does not wait.
UserBlockersNone(r) == {}
CouponBlockersNone(r) == {}

\* r waits for an exclusive lock on its user.
Upgrades(r) == req[r].waits /\ req[r].pc \in {"debit", "credit"}

\* The requests that keep a lock the next statement of r has to wait for.
UserBlockers(r) ==
    CASE req[r].pc = "insert" ->
           {v \in Rivals(r) : req[v].lock = "exclusive" \/ Upgrades(v)}
      [] req[r].pc \in {"debit", "credit"} -> {v \in Rivals(r) : req[v].lock # "none"}
      [] OTHER -> {}

CouponBlockers(r) ==
    IF req[r].pc = "coupon"
      THEN {v \in Requests \ {r} : req[v].redeems /\ Coupon(v) = Coupon(r)}
      ELSE {}

Blockers(r) == UserBlockers(r) \cup CouponBlockers(r)

\* Mutant: nobody looks for transactions that wait for each other.
NeverDeadlocked(r) == FALSE

\* r is in a set of requests each of which waits for another one of them.
Deadlocked(r) ==
    \E D \in SUBSET Requests :
      /\ r \in D
      /\ \A x \in D : req[x].waits /\ Blockers(x) \cap D # {}

Go(r, q) == req' = [req EXCEPT ![r] = q]

Init ==
    /\ points = Balance
    /\ uses = Used
    /\ req = [r \in Requests |-> Fresh]

-----------------------------------------------------------------------------
(***************************************************************************)
(* The statements CreateOrderUseCase still has to execute: a debit if      *)
(* points are spent, the coupon if there is one, a credit if points are    *)
(* earned.                                                                 *)
(***************************************************************************)
AfterCoupon(r) == IF Cart[r].earns > 0 THEN "credit" ELSE "commit"
AfterDebit(r) == IF Coupon(r) # NoCoupon THEN "coupon" ELSE AfterCoupon(r)
AfterInsert(r) == IF Cart[r].spends > 0 THEN "debit" ELSE AfterDebit(r)

\* OrderPricingService._apply_points: a user who has the points, or none spent.
Affordable(r) ==
    Cart[r].spends > 0 => User(r) # Guest /\ Cart[r].spends <= points[User(r)]

\* CouponValidationService.get_valid_coupon: a use is left (max_uses NULL or 0
\* is no limit).
Redeemable(r) ==
    Coupon(r) # NoCoupon /\ MaxUses[Coupon(r)] > 0 => uses[Coupon(r)] < MaxUses[Coupon(r)]

\* pricing.preview, from the snapshot of the transaction.  A cart that is not
\* accepted is refused, and nothing of this is written.
Price(r) ==
    /\ req[r].pc = "start"
    /\ Affordable(r)
    /\ Redeemable(r)
    /\ Go(r, [req[r] EXCEPT !.pc = "insert"])
    /\ UNCHANGED <<points, uses>>

\* orders.create
Insert(r) ==
    /\ req[r].pc = "insert"
    /\ Blockers(r) = {}
    /\ Go(r, [req[r] EXCEPT !.pc = AfterInsert(r),
                            !.waits = FALSE,
                            !.lock = IF User(r) = Guest THEN "none" ELSE "shared"])
    /\ UNCHANGED <<points, uses>>

\* A statement that needs a lock another request keeps waits for it.
Wait(r) ==
    /\ ~req[r].waits
    /\ Blockers(r) # {}
    /\ Go(r, [req[r] EXCEPT !.waits = TRUE])
    /\ UNCHANGED <<points, uses>>

\* The balance an UPDATE of r sees.
Seen(r) == IF req[r].lock = "exclusive" THEN req[r].balance ELSE points[User(r)]

\* add_points(user_id, -points_to_use)
Debit(r) ==
    /\ req[r].pc = "debit"
    /\ Blockers(r) = {}
    /\ Go(r, [req[r] EXCEPT !.pc = AfterDebit(r), !.waits = FALSE,
                            !.lock = "exclusive",
                            !.balance = Seen(r) - Cart[r].spends])
    /\ UNCHANGED <<points, uses>>

\* Mutant: the use is subtracted, like the points.
CountedDown(r) == uses[Coupon(r)] - 1

\* The count an UPDATE of the coupon by r writes.
Counted(r) == uses[Coupon(r)] + 1

\* increment_uses
Redeem(r) ==
    /\ req[r].pc = "coupon"
    /\ Blockers(r) = {}
    /\ Go(r, [req[r] EXCEPT !.pc = AfterCoupon(r), !.waits = FALSE,
                            !.redeems = TRUE, !.count = Counted(r)])
    /\ UNCHANGED <<points, uses>>

\* Mutant: the points earned are added to the balance of the last commit.
SeenCommitted(r) == points[User(r)]

\* The balance the second UPDATE of r sees.
SeenAgain(r) == Seen(r)

\* award_on_payment: add_points(user_id, earned)
Credit(r) ==
    /\ req[r].pc = "credit"
    /\ Blockers(r) = {}
    /\ Go(r, [req[r] EXCEPT !.pc = "commit", !.waits = FALSE,
                            !.lock = "exclusive",
                            !.balance = SeenAgain(r) + Cart[r].earns])
    /\ UNCHANGED <<points, uses>>

Commit(r) ==
    /\ req[r].pc = "commit"
    /\ points' = IF req[r].lock = "exclusive"
                   THEN [points EXCEPT ![User(r)] = req[r].balance] ELSE points
    /\ uses' = IF req[r].redeems
                 THEN [uses EXCEPT ![Coupon(r)] = req[r].count] ELSE uses
    /\ Go(r, [Fresh EXCEPT !.pc = "done"])

\* The transaction is rolled back, and the notification (or the operator) tries
\* again: InnoDB breaks a deadlock,
Victim(r) ==
    /\ Deadlocked(r)
    /\ Go(r, Fresh)
    /\ UNCHANGED <<points, uses>>

\* or anything else fails.
Abort(r) ==
    /\ req[r].pc \notin {"start", "done"}
    /\ Go(r, Fresh)
    /\ UNCHANGED <<points, uses>>

-----------------------------------------------------------------------------
Step(r) ==
    \/ Price(r)
    \/ Wait(r)
    \/ Insert(r)
    \/ Debit(r)
    \/ Redeem(r)
    \/ Credit(r)
    \/ Commit(r)

Next == \E r \in Requests : Step(r) \/ Victim(r) \/ Abort(r)

Spec == Init /\ [][Next]_vars

\* A request that is not blocked goes on, InnoDB grants a lock to the request
\* that waits longest, and it breaks every deadlock.
Fairness ==
    \A r \in Requests :
      /\ SF_vars(Step(r))
      /\ WF_vars(Victim(r))

FairSpec == Spec /\ Fairness

-----------------------------------------------------------------------------
(***************************************************************************)
(* Properties.                                                             *)
(***************************************************************************)

\* Every variable stays in its domain.
TypeOK ==
    /\ points \in [Users -> Int]
    /\ uses \in [Coupons -> Nat]
    /\ req \in [Requests -> Request]

\* The order, the points and the coupon change together and exactly: no debit,
\* credit or use of a concurrent order is lost or counted twice, whatever is
\* rolled back and tried again.
SettledOnce ==
    INSTANCE Ledger WITH settled <- {r \in Requests : req[r].pc = "done"}
ImplementsLedger == SettledOnce!Spec

\* Every creation ends, although orders of the same user and coupon lock the
\* same rows: no deadlock, and no request that waits for ever.
CreationsEnd ==
    \A r \in Requests :
      req[r].pc \notin {"start", "done"} ~> req[r].pc \in {"start", "done"}

\* A coupon is never used more often than it allows, and a user never spends
\* more points than there are: what the pricing of every order checks.
WithinLimits ==
    /\ \A c \in Coupons : MaxUses[c] > 0 => uses[c] <= MaxUses[c]
    /\ \A u \in Users : points[u] >= 0

=============================================================================

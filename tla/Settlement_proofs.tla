-------------------------- MODULE Settlement_proofs --------------------------
(***************************************************************************)
(* Proofs about Settlement, for every set of users, coupons and requests   *)
(* and every cart: whatever transactions overlap and are rolled back, the  *)
(* committed tables are those of a ledger that settles one order at once.  *)
(***************************************************************************)
EXTENDS Settlement, TLAPS

-----------------------------------------------------------------------------
(***************************************************************************)
(* Carts and requests.                                                     *)
(***************************************************************************)
LEMMA CartFields ==
    ASSUME NEW r \in Requests
    PROVE  /\ User(r) \in Users \cup {Guest}
           /\ Cart[r].spends \in Nat /\ Cart[r].earns \in Nat
           /\ Coupon(r) \in Coupons \cup {NoCoupon}
           /\ User(r) = Guest => Cart[r].earns = 0
  BY CartAssumption, GuestAssumption DEF CartType, User, Coupon

LEMMA FreshType == Fresh \in Request
  BY DEF Fresh, Request, PC

\* The statement after another one, and what its cart has to have for it.
LEMMA NextStatement ==
    ASSUME NEW r \in Requests
    PROVE  /\ AfterInsert(r) \in PC /\ AfterDebit(r) \in PC /\ AfterCoupon(r) \in PC
           /\ AfterCoupon(r) = IF Cart[r].earns > 0 THEN "credit" ELSE "commit"
           /\ AfterDebit(r) \in {"coupon", "credit", "commit"}
           /\ AfterDebit(r) = "coupon" <=> Coupon(r) # NoCoupon
           /\ AfterDebit(r) # "coupon" => AfterDebit(r) = AfterCoupon(r)
           /\ AfterInsert(r) = IF Cart[r].spends > 0 THEN "debit" ELSE AfterDebit(r)
  BY DEF AfterInsert, AfterDebit, AfterCoupon, PC

-----------------------------------------------------------------------------
(***************************************************************************)
(* The inductive invariant.                                                *)
(***************************************************************************)

\* The locks of a request r with the state q, by its next statement.
LocksOK(r, q) ==
    /\ q.pc \in {"start", "insert", "done"} => q.lock = "none" /\ ~q.redeems
    /\ q.pc \notin {"start", "insert", "done"} => (q.lock = "none" <=> User(r) = Guest)
    /\ q.pc \in {"debit", "coupon"} => ~q.redeems
    /\ q.pc \in {"credit", "commit"} => (q.redeems <=> Coupon(r) # NoCoupon)
    /\ q.pc = "coupon" => Coupon(r) # NoCoupon
    /\ q.pc = "credit" => Cart[r].earns > 0
    /\ q.pc = "debit" => q.lock # "exclusive" /\ Cart[r].spends > 0
    /\ q.pc # "start" /\ Cart[r].spends > 0 => User(r) # Guest

\* What r wrote: the points spent and, before the commit, those earned, on top
\* of the balance bal; one use more than the count cnt of its coupon.
WritesOK(r, q, bal, cnt) ==
    /\ q.pc \in {"coupon", "credit"} =>
         IF q.lock = "exclusive" THEN q.balance = bal - Cart[r].spends
                                 ELSE Cart[r].spends = 0
    /\ q.pc = "commit" =>
         IF q.lock = "exclusive" THEN q.balance = bal - Cart[r].spends + Cart[r].earns
                                 ELSE Cart[r].spends = 0 /\ Cart[r].earns = 0
    /\ q.redeems => q.count = cnt + 1

RequestInv ==
    \A r \in Requests :
      LocksOK(r, req[r]) /\ WritesOK(r, req[r], points[User(r)], uses[Coupon(r)])

\* An exclusive lock on a user is the only lock on that user.
UserLocks ==
    \A r \in Requests : req[r].lock = "exclusive" =>
      \A v \in Rivals(r) : req[v].lock = "none"

\* Only one request at a time has counted a use of a coupon.
CouponLocks ==
    \A r, v \in Requests :
      r # v /\ req[r].redeems /\ req[v].redeems => Coupon(r) # Coupon(v)

IInv == TypeOK /\ RequestInv /\ UserLocks /\ CouponLocks

LEMMA IInvInit == Init => IInv
  <1>. SUFFICES ASSUME Init PROVE IInv
    OBVIOUS
  <1>1. TypeOK
    BY FreshType, TablesAssumption DEF Init, TypeOK
  <1>2. RequestInv
    BY DEF Init, RequestInv, LocksOK, WritesOK, Fresh
  <1>3. UserLocks /\ CouponLocks
    BY DEF Init, UserLocks, CouponLocks, Fresh, Rivals
  <1>. QED
    BY <1>1, <1>2, <1>3 DEF IInv

\* A step that only changes the request r.
LEMMA LocalStep ==
    ASSUME IInv, NEW r \in Requests, NEW q \in Request,
           Go(r, q), UNCHANGED <<points, uses>>,
           LocksOK(r, q), WritesOK(r, q, points[User(r)], uses[Coupon(r)]),
           q.lock = "exclusive" => \A v \in Rivals(r) : req[v].lock = "none",
           q.lock # "none" => \A v \in Rivals(r) : req[v].lock # "exclusive",
           q.redeems => \A v \in Requests \ {r} :
                          req[v].redeems => Coupon(v) # Coupon(r)
    PROVE  IInv'
  <1>1. req' = [req EXCEPT ![r] = q] /\ points' = points /\ uses' = uses
    BY DEF Go
  <1>2. req'[r] = q /\ \A v \in Requests \ {r} : req'[v] = req[v]
    BY <1>1 DEF IInv, TypeOK
  <1>3. TypeOK'
    BY <1>1 DEF IInv, TypeOK
  <1>4. RequestInv'
    <2>. SUFFICES ASSUME NEW v \in Requests
                  PROVE  /\ LocksOK(v, req'[v])
                         /\ WritesOK(v, req'[v], points'[User(v)], uses'[Coupon(v)])
      BY DEF RequestInv, LocksOK, WritesOK, User, Coupon
    <2>. QED
      BY <1>1, <1>2 DEF IInv, RequestInv
  <1>5. UserLocks'
    <2>. SUFFICES ASSUME NEW v \in Requests, req'[v].lock = "exclusive",
                         NEW w \in Rivals(v)
                  PROVE  req'[w].lock = "none"
      BY DEF UserLocks, Rivals, User
    <2>1. w \in Requests /\ w # v /\ v \in Rivals(w)
      BY DEF Rivals
    <2>. QED
      BY <1>2, <2>1 DEF IInv, UserLocks
  <1>6. CouponLocks'
    BY <1>2 DEF IInv, CouponLocks, Coupon
  <1>. QED
    BY <1>3, <1>4, <1>5, <1>6 DEF IInv

-----------------------------------------------------------------------------
(***************************************************************************)
(* The steps.                                                              *)
(***************************************************************************)

\* What r finds when its statement does not have to wait.
LEMMA NotBlocked ==
    ASSUME NEW r \in Requests, Blockers(r) = {}
    PROVE  /\ req[r].pc = "insert" =>
                \A v \in Rivals(r) : req[v].lock # "exclusive"
           /\ req[r].pc \in {"debit", "credit"} =>
                \A v \in Rivals(r) : req[v].lock = "none"
           /\ req[r].pc = "coupon" =>
                \A v \in Requests \ {r} : req[v].redeems => Coupon(v) # Coupon(r)
  BY DEF Blockers, UserBlockers, CouponBlockers

\* What the invariant says of the request r before a step.
LEMMA Before ==
    ASSUME IInv, NEW r \in Requests
    PROVE  /\ req[r] \in Request
           /\ LocksOK(r, req[r])
           /\ WritesOK(r, req[r], points[User(r)], uses[Coupon(r)])
           /\ req[r].lock = "exclusive" => \A v \in Rivals(r) : req[v].lock = "none"
           /\ req[r].lock # "none" => \A v \in Rivals(r) : req[v].lock # "exclusive"
           /\ req[r].redeems => \A v \in Requests \ {r} :
                                  req[v].redeems => Coupon(v) # Coupon(r)
           /\ User(r) # Guest => points[User(r)] \in Int
           /\ Coupon(r) # NoCoupon => uses[Coupon(r)] \in Nat
  <1>1. req[r].lock # "none" => \A v \in Rivals(r) : req[v].lock # "exclusive"
    <2>. SUFFICES ASSUME req[r].lock # "none", NEW v \in Rivals(r),
                         req[v].lock = "exclusive"
                  PROVE  FALSE
      OBVIOUS
    <2>1. v \in Requests /\ r \in Rivals(v)
      BY DEF Rivals
    <2>. QED
      BY <2>1 DEF IInv, UserLocks
  <1>. QED
    BY <1>1, CartFields DEF IInv, TypeOK, RequestInv, UserLocks, CouponLocks

LEMMA PriceStep ==
    ASSUME IInv, NEW r \in Requests, Price(r)
    PROVE  IInv'
  <1>. DEFINE q == [req[r] EXCEPT !.pc = "insert"]
  <1>1. /\ q \in Request /\ q.pc = "insert"
        /\ q.lock = "none" /\ ~q.redeems
    BY Before DEF Price, Request, PC, LocksOK
  <1>2. Cart[r].spends > 0 => User(r) # Guest
    BY DEF Price, Affordable
  <1>3. Go(r, q) /\ UNCHANGED <<points, uses>>
    BY DEF Price
  <1>. HIDE DEF q
  <1>4. LocksOK(r, q) /\ WritesOK(r, q, points[User(r)], uses[Coupon(r)])
    BY <1>1, <1>2 DEF LocksOK, WritesOK
  <1>. QED
    BY <1>1, <1>3, <1>4, LocalStep

LEMMA WaitStep ==
    ASSUME IInv, NEW r \in Requests, Wait(r)
    PROVE  IInv'
  <1>. DEFINE q == [req[r] EXCEPT !.waits = TRUE]
  <1>1. /\ q \in Request
        /\ q.pc = req[r].pc /\ q.lock = req[r].lock /\ q.balance = req[r].balance
        /\ q.redeems = req[r].redeems /\ q.count = req[r].count
    BY Before DEF Request
  <1>2. Go(r, q) /\ UNCHANGED <<points, uses>>
    BY DEF Wait
  <1>. HIDE DEF q
  <1>3. LocksOK(r, q) /\ WritesOK(r, q, points[User(r)], uses[Coupon(r)])
    BY <1>1, Before DEF LocksOK, WritesOK
  <1>. QED
    BY <1>1, <1>2, <1>3, Before, LocalStep

LEMMA InsertStep ==
    ASSUME IInv, NEW r \in Requests, Insert(r)
    PROVE  IInv'
  <1>. DEFINE q == [req[r] EXCEPT !.pc = AfterInsert(r), !.waits = FALSE,
                                  !.lock = IF User(r) = Guest THEN "none" ELSE "shared"]
  <1>1. /\ q \in Request /\ q.pc = AfterInsert(r)
        /\ q.lock = IF User(r) = Guest THEN "none" ELSE "shared"
        /\ ~q.redeems
        /\ Cart[r].spends > 0 => User(r) # Guest
    BY Before, NextStatement DEF Insert, Request, LocksOK
  <1>2. Go(r, q) /\ UNCHANGED <<points, uses>>
    BY DEF Insert
  <1>. HIDE DEF q
  <1>3. LocksOK(r, q)
    BY <1>1, NextStatement DEF LocksOK
  <1>4. WritesOK(r, q, points[User(r)], uses[Coupon(r)])
    BY <1>1, NextStatement, CartFields DEF WritesOK
  <1>5. q.lock # "none" => \A v \in Rivals(r) : req[v].lock # "exclusive"
    BY NotBlocked DEF Insert
  <1>. QED
    BY <1>1, <1>2, <1>3, <1>4, <1>5, LocalStep

LEMMA DebitStep ==
    ASSUME IInv, NEW r \in Requests, Debit(r)
    PROVE  IInv'
  <1>. DEFINE q == [req[r] EXCEPT !.pc = AfterDebit(r), !.waits = FALSE,
                                  !.lock = "exclusive",
                                  !.balance = Seen(r) - Cart[r].spends]
  <1>1. User(r) # Guest /\ Seen(r) = points[User(r)] /\ points[User(r)] \in Int
    <2>1. req[r].lock # "exclusive" /\ User(r) # Guest
      BY Before DEF Debit, LocksOK
    <2>. QED
      BY <2>1, Before DEF Seen
  <1>2. /\ q \in Request /\ q.pc = AfterDebit(r) /\ q.lock = "exclusive"
        /\ q.balance = points[User(r)] - Cart[r].spends
        /\ ~q.redeems
    <2>1. req[r] \in Request /\ ~req[r].redeems
      BY Before DEF Debit, LocksOK
    <2>2. AfterDebit(r) \in PC /\ Seen(r) - Cart[r].spends \in Int
      BY <1>1, NextStatement, CartFields
    <2>. QED
      BY <1>1, <2>1, <2>2 DEF Request
  <1>3. Go(r, q) /\ UNCHANGED <<points, uses>>
    BY DEF Debit
  <1>. HIDE DEF q
  <1>4. LocksOK(r, q)
    BY <1>1, <1>2, NextStatement DEF LocksOK
  <1>5. WritesOK(r, q, points[User(r)], uses[Coupon(r)])
    BY <1>1, <1>2, NextStatement, CartFields DEF WritesOK
  <1>6. \A v \in Rivals(r) : req[v].lock = "none"
    BY NotBlocked DEF Debit
  <1>. QED
    BY <1>2, <1>3, <1>4, <1>5, <1>6, LocalStep

LEMMA RedeemStep ==
    ASSUME IInv, NEW r \in Requests, Redeem(r)
    PROVE  IInv'
  <1>. DEFINE q == [req[r] EXCEPT !.pc = AfterCoupon(r), !.waits = FALSE,
                                  !.redeems = TRUE, !.count = Counted(r)]
  <1>1. /\ Coupon(r) # NoCoupon /\ uses[Coupon(r)] \in Nat
        /\ Counted(r) = uses[Coupon(r)] + 1
    BY Before DEF Redeem, LocksOK, Counted
  <1>2. /\ q \in Request /\ q.pc = AfterCoupon(r) /\ q.lock = req[r].lock
        /\ q.balance = req[r].balance
        /\ q.redeems /\ q.count = uses[Coupon(r)] + 1
    <2>1. req[r] \in Request
      BY Before
    <2>2. AfterCoupon(r) \in PC /\ Counted(r) \in Nat
      BY <1>1, NextStatement
    <2>. QED
      BY <1>1, <2>1, <2>2 DEF Request
  <1>3. Go(r, q) /\ UNCHANGED <<points, uses>>
    BY DEF Redeem
  <1>4. /\ q.lock = "none" <=> User(r) = Guest
        /\ Cart[r].spends > 0 => User(r) # Guest
        /\ User(r) # Guest => points[User(r)] \in Int
        /\ IF q.lock = "exclusive" THEN q.balance = points[User(r)] - Cart[r].spends
                                   ELSE Cart[r].spends = 0
    BY <1>2, Before DEF Redeem, LocksOK, WritesOK
  <1>. HIDE DEF q
  <1>5. LocksOK(r, q)
    BY <1>1, <1>2, <1>4, NextStatement, CartFields DEF LocksOK
  <1>6. WritesOK(r, q, points[User(r)], uses[Coupon(r)])
    <2>1. CASE AfterCoupon(r) = "credit"
      BY <1>2, <1>4, <2>1 DEF WritesOK
    <2>2. CASE AfterCoupon(r) = "commit" /\ Cart[r].earns = 0
      <3>1. q.lock = "exclusive" =>
              q.balance = points[User(r)] - Cart[r].spends + Cart[r].earns
        BY <1>4, <2>2, CartFields, NullAssumption, Before DEF LocksOK, Redeem
      <3>. QED
        BY <1>2, <1>4, <2>2, <3>1 DEF WritesOK
    <2>. QED
      BY <2>1, <2>2, NextStatement, CartFields
  <1>7. \A v \in Requests \ {r} : req[v].redeems => Coupon(v) # Coupon(r)
    BY NotBlocked DEF Redeem
  <1>8. /\ q.lock = "exclusive" => \A v \in Rivals(r) : req[v].lock = "none"
        /\ q.lock # "none" => \A v \in Rivals(r) : req[v].lock # "exclusive"
    BY <1>2, Before
  <1>. QED
    BY <1>2, <1>3, <1>5, <1>6, <1>7, <1>8, LocalStep

LEMMA CreditStep ==
    ASSUME IInv, NEW r \in Requests, Credit(r)
    PROVE  IInv'
  <1>. DEFINE q == [req[r] EXCEPT !.pc = "commit", !.waits = FALSE,
                                  !.lock = "exclusive",
                                  !.balance = SeenAgain(r) + Cart[r].earns]
  <1>1. User(r) # Guest /\ points[User(r)] \in Int
    BY Before, CartFields DEF Credit, LocksOK
  <1>2. SeenAgain(r) = points[User(r)] - Cart[r].spends
    BY <1>1, Before, CartFields DEF Credit, WritesOK, SeenAgain, Seen
  <1>3. /\ q \in Request /\ q.pc = "commit" /\ q.lock = "exclusive"
        /\ q.balance = points[User(r)] - Cart[r].spends + Cart[r].earns
        /\ q.redeems = req[r].redeems /\ q.count = req[r].count
    <2>1. req[r] \in Request
      BY Before
    <2>2. SeenAgain(r) + Cart[r].earns \in Int
      BY <1>1, <1>2, CartFields
    <2>. QED
      BY <1>2, <2>1, <2>2 DEF Request, PC
  <1>4. Go(r, q) /\ UNCHANGED <<points, uses>>
    BY DEF Credit
  <1>. HIDE DEF q
  <1>5. LocksOK(r, q)
    BY <1>1, <1>3, Before DEF Credit, LocksOK
  <1>6. WritesOK(r, q, points[User(r)], uses[Coupon(r)])
    BY <1>3, Before DEF WritesOK
  <1>7. \A v \in Rivals(r) : req[v].lock = "none"
    BY NotBlocked DEF Credit
  <1>8. q.redeems => \A v \in Requests \ {r} : req[v].redeems => Coupon(v) # Coupon(r)
    BY <1>3, Before
  <1>. QED
    BY <1>3, <1>4, <1>5, <1>6, <1>7, <1>8, LocalStep

\* A rollback.
LEMMA BackStep ==
    ASSUME IInv, NEW r \in Requests, Go(r, Fresh), UNCHANGED <<points, uses>>
    PROVE  IInv'
  <1>1. Fresh.pc = "start" /\ Fresh.lock = "none" /\ ~Fresh.redeems
    BY DEF Fresh
  <1>2. LocksOK(r, Fresh) /\ WritesOK(r, Fresh, points[User(r)], uses[Coupon(r)])
    BY <1>1 DEF LocksOK, WritesOK
  <1>. QED
    BY <1>1, <1>2, FreshType, LocalStep

\* What a commit writes: the net of the order for its user, one use of its
\* coupon.
LEMMA CommitWrites ==
    ASSUME IInv, NEW r \in Requests, Commit(r)
    PROVE  /\ \A u \in Users : points'[u] =
                IF u = User(r) THEN points[u] - Cart[r].spends + Cart[r].earns
                               ELSE points[u]
           /\ \A c \in Coupons : uses'[c] =
                IF c = Coupon(r) THEN uses[c] + 1 ELSE uses[c]
           /\ points' \in [Users -> Int] /\ uses' \in [Coupons -> Nat]
  <1>1. points \in [Users -> Int] /\ uses \in [Coupons -> Nat] /\ req[r] \in Request
    BY DEF IInv, TypeOK
  <1>2. /\ points' \in [Users -> Int]
        /\ \A u \in Users : points'[u] =
             IF u = User(r) THEN points[u] - Cart[r].spends + Cart[r].earns
                            ELSE points[u]
    <2>1. CASE req[r].lock = "exclusive"
      <3>1. /\ User(r) \in Users /\ req[r].balance \in Int
            /\ req[r].balance = points[User(r)] - Cart[r].spends + Cart[r].earns
        <4>1. User(r) # Guest
          BY <2>1, Before DEF Commit, LocksOK
        <4>. QED
          BY <1>1, <2>1, <4>1, Before, CartFields DEF Commit, WritesOK, Request
      <3>2. points' = [points EXCEPT ![User(r)] = req[r].balance]
        BY <2>1 DEF Commit
      <3>. QED
        BY <1>1, <3>1, <3>2
    <2>2. CASE req[r].lock # "exclusive"
      <3>1. points' = points /\ Cart[r].spends = 0 /\ Cart[r].earns = 0
        BY <2>2, Before DEF Commit, WritesOK
      <3>2. \A u \in Users : points[u] = points[u] - 0 + 0
        BY <1>1
      <3>. QED
        BY <1>1, <3>1, <3>2
    <2>. QED
      BY <2>1, <2>2
  <1>3. /\ uses' \in [Coupons -> Nat]
        /\ \A c \in Coupons : uses'[c] =
             IF c = Coupon(r) THEN uses[c] + 1 ELSE uses[c]
    <2>1. CASE req[r].redeems
      <3>1. /\ Coupon(r) \in Coupons /\ req[r].count \in Nat
            /\ req[r].count = uses[Coupon(r)] + 1
        <4>1. Coupon(r) # NoCoupon
          BY <2>1, Before DEF Commit, LocksOK
        <4>. QED
          BY <1>1, <2>1, <4>1, Before, CartFields DEF WritesOK, Request
      <3>2. uses' = [uses EXCEPT ![Coupon(r)] = req[r].count]
        BY <2>1 DEF Commit
      <3>. QED
        BY <1>1, <3>1, <3>2
    <2>2. CASE ~req[r].redeems
      <3>1. uses' = uses /\ Coupon(r) = NoCoupon
        BY <2>2, Before DEF Commit, LocksOK
      <3>. QED
        BY <1>1, <3>1, NullAssumption
    <2>. QED
      BY <2>1, <2>2
  <1>. QED
    BY <1>2, <1>3

LEMMA CommitStep ==
    ASSUME IInv, NEW r \in Requests, Commit(r)
    PROVE  IInv'
  <1>. DEFINE q == [Fresh EXCEPT !.pc = "done"]
  <1>1. q \in Request /\ q.pc = "done" /\ q.lock = "none" /\ ~q.redeems
    BY FreshType DEF Fresh, Request, PC
  <1>2. req' = [req EXCEPT ![r] = q]
    BY DEF Commit, Go
  <1>. HIDE DEF q
  <1>3. req'[r] = q /\ \A v \in Requests \ {r} : req'[v] = req[v]
    BY <1>2 DEF IInv, TypeOK
  <1>4. TypeOK'
    BY <1>1, <1>2, CommitWrites DEF IInv, TypeOK
  <1>5. RequestInv'
    <2>. SUFFICES ASSUME NEW v \in Requests
                  PROVE  /\ LocksOK(v, req'[v])
                         /\ WritesOK(v, req'[v], points'[User(v)], uses'[Coupon(v)])
      BY DEF RequestInv, LocksOK, WritesOK, User, Coupon
    <2>1. CASE v = r
      <3>1. Cart[r].spends > 0 => User(r) # Guest
        BY Before DEF Commit, LocksOK
      <3>. QED
        BY <1>1, <1>3, <2>1, <3>1 DEF LocksOK, WritesOK
    <2>2. CASE v # r
      <3>1. req'[v] = req[v] /\ LocksOK(v, req[v])
        BY <1>3, <2>2, Before
      <3>2. ASSUME req[v].lock = "exclusive" PROVE points'[User(v)] = points[User(v)]
        <4>1. User(v) \in Users
          BY <3>1, <3>2, CartFields DEF LocksOK
        <4>2. User(v) # User(r)
          <5>. SUFFICES ASSUME User(v) = User(r) PROVE FALSE
            OBVIOUS
          <5>1. r \in Rivals(v)
            BY <2>2, <4>1, NullAssumption DEF Rivals
          <5>2. req[r].lock = "none"
            BY <3>2, <5>1, Before
          <5>. QED
            BY <4>1, <5>2, Before, NullAssumption DEF Commit, LocksOK
        <4>. QED
          BY <4>1, <4>2, CommitWrites
      <3>3. ASSUME req[v].redeems PROVE uses'[Coupon(v)] = uses[Coupon(v)]
        <4>1. Coupon(v) \in Coupons
          <5>1. req[v].pc \in PC
            BY Before DEF Request
          <5>. QED
            BY <3>1, <3>3, <5>1, CartFields DEF LocksOK, PC
        <4>2. Coupon(v) # Coupon(r)
          <5>. SUFFICES ASSUME Coupon(v) = Coupon(r) PROVE FALSE
            OBVIOUS
          <5>1. ~req[r].redeems
            BY <2>2, <3>3, Before
          <5>. QED
            BY <4>1, <5>1, Before, NullAssumption DEF Commit, LocksOK
        <4>. QED
          BY <4>1, <4>2, CommitWrites
      <3>. QED
        BY <3>1, <3>2, <3>3, Before DEF WritesOK
    <2>. QED
      BY <2>1, <2>2
  <1>6. UserLocks'
    <2>. SUFFICES ASSUME NEW v \in Requests, req'[v].lock = "exclusive",
                         NEW w \in Rivals(v)
                  PROVE  req'[w].lock = "none"
      BY DEF UserLocks, Rivals, User
    <2>. QED
      BY <1>1, <1>3 DEF IInv, UserLocks, Rivals
  <1>7. CouponLocks'
    BY <1>1, <1>3 DEF IInv, CouponLocks, Coupon
  <1>. QED
    BY <1>4, <1>5, <1>6, <1>7 DEF IInv

LEMMA IInvNext == IInv /\ [Next]_vars => IInv'
  <1>. SUFFICES ASSUME IInv, [Next]_vars PROVE IInv'
    OBVIOUS
  <1>1. CASE UNCHANGED vars
    BY <1>1 DEF vars, IInv, TypeOK, RequestInv, UserLocks, CouponLocks, LocksOK, WritesOK,
       User, Coupon, Rivals
  <1>2. ASSUME NEW r \in Requests, Step(r) \/ Victim(r) \/ Abort(r) PROVE IInv'
    <2>1. CASE Price(r)
      BY <2>1, PriceStep
    <2>2. CASE Wait(r)
      BY <2>2, WaitStep
    <2>3. CASE Insert(r)
      BY <2>3, InsertStep
    <2>4. CASE Debit(r)
      BY <2>4, DebitStep
    <2>5. CASE Redeem(r)
      BY <2>5, RedeemStep
    <2>6. CASE Credit(r)
      BY <2>6, CreditStep
    <2>7. CASE Commit(r)
      BY <2>7, CommitStep
    <2>8. CASE Victim(r) \/ Abort(r)
      BY <2>8, BackStep DEF Victim, Abort
    <2>. QED
      BY <1>2, <2>1, <2>2, <2>3, <2>4, <2>5, <2>6, <2>7, <2>8 DEF Step
  <1>. QED
    BY <1>1, <1>2 DEF Next

LEMMA Invariance == Spec => []IInv
  BY IInvInit, IInvNext, PTL DEF Spec

-----------------------------------------------------------------------------
(***************************************************************************)
(* The theorems.                                                           *)
(***************************************************************************)

\* The variables stay in their domains, whatever overlaps and is rolled back
\* (CreateOrderUseCase.execute in the transactions of get_db).
THEOREM TypeCorrect == Spec => []TypeOK
  BY Invariance, PTL DEF IInv

Done == {r \in Requests : req[r].pc = "done"}

\* A request that waits for another one has a statement to execute.
LEMMA Waiting ==
    ASSUME NEW r \in Requests, Blockers(r) # {}
    PROVE  req[r].pc # "done"
  BY DEF Blockers, UserBlockers, CouponBlockers

\* The steps other than a commit settle nothing.
LEMMA SettlesNothing ==
    ASSUME IInv, NEW r \in Requests, Step(r) \/ Victim(r) \/ Abort(r), ~Commit(r)
    PROVE  Done' = Done
  <1>1. req \in [Requests -> Request] /\ req[r] \in Request
    BY DEF IInv, TypeOK
  <1>2. SUFFICES ASSUME req[r].pc = "done" \/ req'[r].pc = "done" PROVE FALSE
    <2>1. \A v \in Requests \ {r} : req'[v] = req[v]
      BY <1>1 DEF Step, Price, Wait, Insert, Debit, Redeem, Credit, Victim, Abort, Go
    <2>. QED
      BY <2>1 DEF Done
  <1>3. req[r].pc # "done"
    <2>1. Wait(r) \/ Victim(r) => req[r].pc # "done"
      BY Waiting DEF Wait, Victim, Deadlocked
    <2>. QED
      BY <2>1 DEF Step, Price, Insert, Debit, Redeem, Credit, Commit, Abort
  <1>4. req'[r].pc # "done"
    <2>1. CASE Wait(r)
      BY <1>1, <1>3, <2>1 DEF Wait, Go, Request
    <2>2. CASE Price(r)
      BY <1>1, <2>2 DEF Price, Go, Request
    <2>3. CASE Insert(r)
      <3>1. AfterInsert(r) # "done"
        BY NextStatement
      <3>. QED
        BY <1>1, <2>3, <3>1 DEF Insert, Go, Request
    <2>4. CASE Debit(r)
      <3>1. AfterDebit(r) # "done"
        BY NextStatement
      <3>. QED
        BY <1>1, <2>4, <3>1 DEF Debit, Go, Request
    <2>5. CASE Redeem(r)
      <3>1. AfterCoupon(r) # "done"
        BY NextStatement
      <3>. QED
        BY <1>1, <2>5, <3>1 DEF Redeem, Go, Request
    <2>6. CASE Credit(r)
      BY <1>1, <2>6 DEF Credit, Go, Request
    <2>7. CASE Victim(r) \/ Abort(r)
      BY <1>1, <2>7 DEF Victim, Abort, Go, Fresh
    <2>. QED
      BY <2>1, <2>2, <2>3, <2>4, <2>5, <2>6, <2>7 DEF Step
  <1>. QED
    BY <1>2, <1>3, <1>4

\* A commit settles one order.
LEMMA CommitSettles ==
    ASSUME IInv, NEW r \in Requests, Commit(r)
    PROVE  SettledOnce!Settle(r)
  <1>1. r \notin Done
    BY DEF Commit, Done
  <1>2. Done' = Done \cup {r}
    <2>1. req' = [req EXCEPT ![r] = [Fresh EXCEPT !.pc = "done"]]
      BY DEF Commit, Go
    <2>2. req'[r].pc = "done" /\ \A v \in Requests \ {r} : req'[v] = req[v]
      BY <2>1 DEF Fresh, IInv, TypeOK
    <2>. QED
      BY <2>2 DEF Done
  <1>3. points' = [u \in Users |-> points[u] + SettledOnce!Net(r, u)]
    <2>1. \A u \in Users : points'[u] = points[u] + SettledOnce!Net(r, u)
      <3>. SUFFICES ASSUME NEW u \in Users
                    PROVE  points'[u] = points[u] + SettledOnce!Net(r, u)
        OBVIOUS
      <3>1. points[u] \in Int /\ Cart[r].spends \in Nat /\ Cart[r].earns \in Nat
        BY CartFields DEF IInv, TypeOK
      <3>. QED
        BY <3>1, CommitWrites DEF SettledOnce!Net, User
    <2>. QED
      BY <2>1, CommitWrites
  <1>4. uses' = [c \in Coupons |-> uses[c] + SettledOnce!Redeemed(r, c)]
    <2>1. \A c \in Coupons : uses'[c] = uses[c] + SettledOnce!Redeemed(r, c)
      <3>. SUFFICES ASSUME NEW c \in Coupons
                    PROVE  uses'[c] = uses[c] + SettledOnce!Redeemed(r, c)
        OBVIOUS
      <3>1. uses[c] \in Nat
        BY DEF IInv, TypeOK
      <3>. QED
        BY <3>1, CommitWrites DEF SettledOnce!Redeemed, Coupon
    <2>. QED
      BY <2>1, CommitWrites
  <1>. QED
    BY <1>1, <1>2, <1>3, <1>4 DEF SettledOnce!Settle, Done

LEMMA StepRefines == IInv /\ [Next]_vars => [SettledOnce!Next]_(SettledOnce!lvars)
  <1>. SUFFICES ASSUME IInv, [Next]_vars
                PROVE  SettledOnce!Next \/ UNCHANGED SettledOnce!lvars
    BY DEF SettledOnce!lvars
  <1>1. CASE UNCHANGED vars
    BY <1>1 DEF vars, SettledOnce!lvars
  <1>2. ASSUME NEW r \in Requests, Step(r) \/ Victim(r) \/ Abort(r)
        PROVE  SettledOnce!Next \/ UNCHANGED SettledOnce!lvars
    <2>1. CASE Commit(r)
      BY <2>1, CommitSettles DEF SettledOnce!Next
    <2>2. CASE ~Commit(r)
      <3>1. UNCHANGED <<points, uses>>
        BY <1>2, <2>2 DEF Step, Price, Wait, Insert, Debit, Redeem, Credit, Victim, Abort
      <3>2. Done' = Done
        BY <1>2, <2>2, SettlesNothing
      <3>. QED
        BY <3>1, <3>2 DEF SettledOnce!lvars, Done
    <2>. QED
      BY <2>1, <2>2
  <1>. QED
    BY <1>1, <1>2 DEF Next

\* The creation of orders implements the ledger: its points, coupons and orders
\* change together, once and exactly (create_order.py, the UPDATEs of add_points
\* and increment_uses under their row locks, and the rollback of get_db).
THEOREM Refinement == Spec => ImplementsLedger
  <1>1. Init => SettledOnce!Init
    BY DEF Init, SettledOnce!Init, Fresh
  <1>. QED
    BY <1>1, StepRefines, Invariance, PTL DEF Spec, ImplementsLedger, SettledOnce!Spec

-----------------------------------------------------------------------------
(***************************************************************************)
(* The limits.  They are checked when a cart is priced and never again, so *)
(* they need more than the database gives: creations of the same user or   *)
(* of the same coupon one after the other.                                 *)
(***************************************************************************)
InProgress(r) == req[r].pc \notin {"start", "done"}

\* No two creations in progress share a user or a coupon.
CreationsApart ==
    \A r, v \in Requests : r # v /\ InProgress(r) /\ InProgress(v) =>
      /\ User(r) = User(v) => User(r) = Guest
      /\ Coupon(r) = Coupon(v) => Coupon(r) = NoCoupon

\* What the pricing of r found is still true when r commits.
PricesHold == \A r \in Requests : InProgress(r) => Affordable(r) /\ Redeemable(r)

\* A step other than a commit writes nothing to the tables, and only Price
\* begins a creation.
LEMMA PricesHoldLocally ==
    ASSUME IInv, PricesHold, NEW r \in Requests,
           Step(r) \/ Victim(r) \/ Abort(r), ~Commit(r)
    PROVE  UNCHANGED <<points, uses>> /\ PricesHold'
  <1>1. UNCHANGED <<points, uses>>
    BY DEF Step, Price, Wait, Insert, Debit, Redeem, Credit, Victim, Abort
  <1>2. \A v \in Requests \ {r} : req'[v] = req[v]
    BY DEF Step, Price, Wait, Insert, Debit, Redeem, Credit, Victim, Abort, Go, IInv, TypeOK
  <1>3. CASE Price(r)
    BY <1>1, <1>2, <1>3 DEF Price, PricesHold, InProgress, Affordable, Redeemable, User,
       Coupon
  <1>4. CASE Victim(r) \/ Abort(r)
    <2>1. req'[r].pc = "start"
      BY <1>4 DEF Victim, Abort, Go, Fresh, IInv, TypeOK
    <2>. QED
      BY <1>1, <1>2, <2>1 DEF PricesHold, InProgress, Affordable, Redeemable, User, Coupon
  <1>5. CASE Wait(r)
    <2>1. req'[r].pc = req[r].pc
      BY <1>5 DEF Wait, Go, IInv, TypeOK, Request
    <2>. QED
      BY <1>1, <1>2, <2>1 DEF PricesHold, InProgress, Affordable, Redeemable, User, Coupon
  <1>6. CASE Insert(r) \/ Debit(r) \/ Redeem(r) \/ Credit(r)
    <2>1. InProgress(r)
      BY <1>6 DEF Insert, Debit, Redeem, Credit, InProgress
    <2>. QED
      BY <1>1, <1>2, <2>1 DEF PricesHold, InProgress, Affordable, Redeemable, User, Coupon
  <1>. QED
    BY <1>3, <1>4, <1>5, <1>6 DEF Step

\* A commit keeps the limits, and takes nothing from the creations in progress.
LEMMA CommitKeepsLimits ==
    ASSUME IInv, WithinLimits, PricesHold, CreationsApart, NEW r \in Requests, Commit(r)
    PROVE  WithinLimits' /\ PricesHold'
  <1>1. /\ InProgress(r) /\ Affordable(r) /\ Redeemable(r)
        /\ Cart[r].spends \in Nat /\ Cart[r].earns \in Nat
    BY CartFields DEF Commit, InProgress, PricesHold
  <1>2. points \in [Users -> Int] /\ uses \in [Coupons -> Nat]
    BY DEF IInv, TypeOK
  <1>3. ASSUME NEW u \in Users PROVE points'[u] >= 0
    <2>1. points[u] \in Int /\ points[u] >= 0
      BY <1>2 DEF WithinLimits
    <2>2. CASE u # User(r)
      BY <2>1, <2>2, CommitWrites
    <2>3. CASE u = User(r)
      <3>1. points'[u] = points[u] - Cart[r].spends + Cart[r].earns
        BY <2>3, CommitWrites
      <3>2. Cart[r].spends <= points[u]
        BY <1>1, <2>1, <2>3 DEF Affordable
      <3>. QED
        BY <1>1, <2>1, <3>1, <3>2
    <2>. QED
      BY <2>2, <2>3
  <1>4. ASSUME NEW c \in Coupons, MaxUses[c] > 0 PROVE uses'[c] <= MaxUses[c]
    <2>1. uses[c] \in Nat /\ MaxUses[c] \in Nat /\ uses[c] <= MaxUses[c]
      BY <1>2, <1>4, TablesAssumption DEF WithinLimits
    <2>2. CASE c # Coupon(r)
      BY <2>1, <2>2, CommitWrites
    <2>3. CASE c = Coupon(r)
      <3>1. uses'[c] = uses[c] + 1
        BY <2>3, CommitWrites
      <3>2. uses[c] < MaxUses[c]
        BY <1>1, <1>4, <2>3, NullAssumption DEF Redeemable
      <3>. QED
        BY <2>1, <3>1, <3>2
    <2>. QED
      BY <2>2, <2>3
  <1>5. PricesHold'
    <2>1. req' = [req EXCEPT ![r] = [Fresh EXCEPT !.pc = "done"]]
      BY DEF Commit, Go
    <2>2. req'[r].pc = "done" /\ \A v \in Requests \ {r} : req'[v] = req[v]
      BY <2>1 DEF Fresh, IInv, TypeOK
    <2>. SUFFICES ASSUME NEW v \in Requests, req'[v].pc \notin {"start", "done"}
                  PROVE  Affordable(v)' /\ Redeemable(v)'
      BY DEF PricesHold, InProgress
    <2>3. v # r /\ InProgress(v) /\ Affordable(v) /\ Redeemable(v)
      BY <2>2 DEF PricesHold, InProgress
    <2>4. /\ User(r) = User(v) => User(r) = Guest
          /\ Coupon(r) = Coupon(v) => Coupon(r) = NoCoupon
      BY <1>1, <2>3 DEF CreationsApart
    <2>5. User(v) # Guest => points'[User(v)] = points[User(v)]
      <3>. SUFFICES ASSUME User(v) # Guest PROVE points'[User(v)] = points[User(v)]
        OBVIOUS
      <3>1. User(v) \in Users /\ User(v) # User(r)
        BY <2>4, CartFields
      <3>. QED
        BY <3>1, CommitWrites
    <2>6. Coupon(v) # NoCoupon => uses'[Coupon(v)] = uses[Coupon(v)]
      <3>. SUFFICES ASSUME Coupon(v) # NoCoupon PROVE uses'[Coupon(v)] = uses[Coupon(v)]
        OBVIOUS
      <3>1. Coupon(v) \in Coupons /\ Coupon(v) # Coupon(r)
        BY <2>4, CartFields
      <3>. QED
        BY <3>1, CommitWrites
    <2>7. Affordable(v)'
      BY <2>3, <2>5 DEF Affordable, User
    <2>8. Redeemable(v)'
      BY <2>3, <2>6 DEF Redeemable, Coupon
    <2>. QED
      BY <2>7, <2>8
  <1>. QED
    BY <1>3, <1>4, <1>5 DEF WithinLimits

LEMMA LimitsStep ==
    IInv /\ WithinLimits /\ PricesHold /\ CreationsApart /\ [Next]_vars
      => WithinLimits' /\ PricesHold'
  <1>. SUFFICES ASSUME IInv, WithinLimits, PricesHold, CreationsApart, [Next]_vars
                PROVE  WithinLimits' /\ PricesHold'
    OBVIOUS
  <1>1. CASE UNCHANGED vars
    BY <1>1 DEF vars, WithinLimits, PricesHold, InProgress, Affordable, Redeemable, User,
       Coupon
  <1>2. ASSUME NEW r \in Requests, Step(r) \/ Victim(r) \/ Abort(r)
        PROVE  WithinLimits' /\ PricesHold'
    <2>1. CASE Commit(r)
      BY <2>1, CommitKeepsLimits
    <2>2. CASE ~Commit(r)
      BY <1>2, <2>2, PricesHoldLocally DEF WithinLimits
    <2>. QED
      BY <2>1, <2>2
  <1>. QED
    BY <1>1, <1>2 DEF Next

\* When tables that respect the limits are given and creations of the same user
\* or coupon do not overlap, no coupon is used more often than it allows and no
\* balance falls below zero, however carts of other users and coupons overlap
\* and are rolled back: the checks of OrderPricingService and
\* CouponValidationService are enough for serial creations, and the overlap that
\* settlement_limits shows is the only way past them.
THEOREM SerialWithinLimits ==
    WithinLimits /\ Spec /\ []CreationsApart => []WithinLimits
  <1>1. Init => PricesHold
    BY DEF Init, PricesHold, InProgress, Fresh
  <1>. QED
    BY <1>1, LimitsStep, Invariance, PTL DEF Spec

=============================================================================

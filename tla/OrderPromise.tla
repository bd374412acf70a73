----------------------------- MODULE OrderPromise -----------------------------
(***************************************************************************)
(* What the checkout promises, without requests, transactions or           *)
(* notifications: MercadoPago approves payments, and for a payment of the  *)
(* right amount that it has approved the shop may create one order, once   *)
(* for the session the payment belongs to.  What is created stays.         *)
(***************************************************************************)
CONSTANTS Sessions, Payments, Orders, SessionOf, Matching, NoOrder, NoPayment

VARIABLES
    approved,  \* payments MercadoPago has approved at some time
    orderOf,   \* session -> its order
    paidWith   \* order -> the payment it was created for

pvars == <<approved, orderOf, paidWith>>

Init ==
    /\ approved = {}
    /\ orderOf = [s \in Sessions |-> NoOrder]
    /\ paidWith = [o \in Orders |-> NoPayment]

Approve(p) ==
    /\ p \notin approved
    /\ approved' = approved \cup {p}
    /\ UNCHANGED <<orderOf, paidWith>>

Create(p, o) ==
    /\ p \in approved \cap Matching
    /\ orderOf[SessionOf[p]] = NoOrder
    /\ paidWith[o] = NoPayment
    /\ orderOf' = [orderOf EXCEPT ![SessionOf[p]] = o]
    /\ paidWith' = [paidWith EXCEPT ![o] = p]
    /\ UNCHANGED approved

Next ==
    \E p \in Payments :
      \/ Approve(p)
      \/ \E o \in Orders : Create(p, o)

Spec == Init /\ [][Next]_pvars

=============================================================================

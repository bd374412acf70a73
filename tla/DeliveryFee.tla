----------------------------- MODULE DeliveryFee -----------------------------
(***************************************************************************)
(* DeliveryFeeService: the fee of a delivery by the distance between the   *)
(* store and the address.  Distances are in metres, fees in pesos.  How    *)
(* haversine_km gets a distance from coordinates is left out.              *)
(***************************************************************************)
EXTENDS Integers

\* DELIVERY_TIERS, in the order in which they are tried.
Tiers == << [upTo |-> 2000, fee |-> 990],
            [upTo |-> 4000, fee |-> 1490],
            [upTo |-> 6000, fee |-> 1990],
            [upTo |-> 8000, fee |-> 2490],
            [upTo |-> 10000, fee |-> 2990] >>

MaxDelivery == 10000
OutOfRangeFee == 0

\* Mutant: a limit belongs to the next tier.
ReachingStrictly(distance) == {i \in 1..5 : distance < Tiers[i].upTo}

\* The tiers that reach an address.
Reaching(distance) == {i \in 1..5 : distance <= Tiers[i].upTo}

\* calculate: the fee of the first tier that reaches the address.
Calculate(distance) ==
    IF Reaching(distance) = {}
      THEN OutOfRangeFee
      ELSE Tiers[CHOOSE i \in Reaching(distance) :
                   \A j \in Reaching(distance) : i <= j].fee

\* is_available
IsAvailable(distance) == distance <= MaxDelivery

=============================================================================

----------------------------- MODULE MCBootstrap -----------------------------
(***************************************************************************)
(* A small instance of Bootstrap for TLC.  Its two worlds, what can happen *)
(* to the schema and what people do on the schema of the head, are not     *)
(* multiplied with each other.                                             *)
(***************************************************************************)
EXTENDS Bootstrap

CONSTANTS r1, r2, c1, c2, demo, other

\* Bound: accounts and transactions appear only in behaviours whose upgrades went
\* undisturbed, and not while a run is at work.
Disturbed ==
    \/ interrupts > 0 \/ downgrades > 0 \/ cut # {} \/ tagType = "text"
    \/ \E r \in Runs : run[r].pc \in {"working", "failed"}

OneWorld == Disturbed' => users' = Nobody /\ \A w \in Parties : tx'[w] = Idle

MCSpec == Init /\ [][Next /\ OneWorld]_vars /\ Fairness

=============================================================================

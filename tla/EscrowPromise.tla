---------------------------- MODULE EscrowPromise ----------------------------
(***************************************************************************)
(* What buyer protection promises about one order's money, whatever the    *)
(* requests that bring it about (DEPLOY.md, "Buyer protection", and the    *)
(* comment of backend/marketplace/payouts.py).                             *)
(*                                                                         *)
(* The money is in one place at a time.  It goes to the seller or back to  *)
(* the buyer, and never to the seller while a problem is open.             *)
(***************************************************************************)
VARIABLES
    money,    \* "buyer", "held", "seller" or "returned"
    frozen    \* a problem was reported and staff have not decided

promise == <<money, frozen>>

TypeOK ==
    /\ money \in {"buyer", "held", "seller", "returned"}
    /\ frozen \in BOOLEAN

Init == money = "buyer" /\ frozen = FALSE

Pay == money = "buyer" /\ money' = "held" /\ UNCHANGED frozen

PayOut == money = "held" /\ ~frozen /\ money' = "seller" /\ UNCHANGED frozen

\* A transfer that fails or is reversed leaves the money where it was.
ComeBack == money = "seller" /\ money' = "held" /\ UNCHANGED frozen

Return == money = "held" /\ money' = "returned" /\ UNCHANGED frozen

Report == money # "buyer" /\ frozen' = TRUE /\ UNCHANGED money

Decide == money # "buyer" /\ frozen' = FALSE /\ UNCHANGED money

Next == Pay \/ PayOut \/ ComeBack \/ Return \/ Report \/ Decide

Spec == Init /\ [][Next]_promise
=============================================================================

--------------------------- MODULE SellerPayments ---------------------------
(***************************************************************************)
(* What sellers pay Fliiptech for: boosts, months of the Shop plan, a      *)
(* buyer's contact and a verification visit.  SellerPayment of             *)
(* backend/marketplace/models.py, confirm_seller_payment of payments.py,   *)
(* unlock of quotes.py and the seller's payment views in selling_views.py. *)
(*                                                                         *)
(* Each seller has one product and there is one open quote request: rows   *)
(* of other products and requests are never read together.  A confirmation *)
(* holds the lock of its own payment row only, so what start() reads of    *)
(* the other rows may change before it commits.                            *)
(***************************************************************************)
EXTENDS Naturals, FiniteSets

CONSTANTS
    Slots,          \* requests that can be under way at once
    Sellers,
    MaxPayments,    \* bound: payments the sellers start
    MaxCredits,     \* bound: free boosts they ask for
    LastDay,        \* bound: the last day new requests come
    BoostDays,      \* SellerPayment.DAYS of a boost
    PlanDays,       \* SellerPayment.DAYS of a month of the plan
    LeadLimit,      \* MARKETPLACE_LEAD_LIMIT
    Kinds,          \* what the sellers buy, a subset of AllKinds
    CanCrash        \* whether a request's process can die

Bought == 1..MaxPayments
Credits == MaxPayments + 1 .. MaxPayments + MaxCredits
Payments == Bought \cup Credits
NoPayment == 0
AllKinds == {"boost", "plan", "lead", "verification"}

ASSUME PaymentsAssumption ==
    /\ Slots # {} /\ Sellers # {}
    /\ MaxPayments \in Nat /\ MaxCredits \in Nat /\ LastDay \in Nat /\ LeadLimit \in Nat
    /\ BoostDays \in Nat \ {0} /\ PlanDays \in Nat \ {0}
    /\ Kinds \subseteq AllKinds
    /\ CanCrash \in BOOLEAN

VARIABLES
    payment,    \* the rows; one that is not made yet has status "none"
    leads,      \* sellers with a QuoteLead: they have the buyer's contact
    day,
    req,        \* requests under way
    charge      \* external: what became of each payment at Paystack

vars == <<payment, leads, day, req, charge>>

Statuses == {"none", "pending", "paid", "failed"}
ChargeStates == {"none", "open", "success", "failed", "mismatch"}
Steps == {"idle", "verify", "confirm", "save", "unlock"}
Row == [seller : Sellers, kind : AllKinds, status : Statuses, starts : Nat,
        ends : Nat, creditOf : Payments \cup {NoPayment}]

TypeOK ==
    /\ payment \in [Payments -> Row]
    /\ leads \subseteq Sellers
    /\ day \in 0..LastDay
    /\ req \in [Slots -> [at : Steps, of : Payments \cup {NoPayment},
                          seller : Sellers, said : ChargeStates, starts : Nat]]
    /\ charge \in [Payments -> ChargeStates]

-----------------------------------------------------------------------------
(* Rows and periods.                                                       *)

Made(p) == payment[p].status # "none"
Paid(p) == payment[p].status = "paid"

Running(p) == Paid(p) /\ payment[p].starts <= day /\ day < payment[p].ends

Lasts(kind) == IF kind = "plan" THEN PlanDays ELSE BoostDays

HasPeriod(kind) == kind \in {"boost", "plan"}

\* plan_running: the newest running month, as the rows are ordered.
RunningPlans(seller) ==
    {p \in Payments : /\ Running(p) /\ payment[p].kind = "plan"
                      /\ payment[p].seller = seller}

PlanRunning(seller) == RunningPlans(seller) # {}

IsNewestPlan(p, seller) ==
    p \in RunningPlans(seller) /\ \A q \in RunningPlans(seller) : q <= p

\* SellerPayment.start: from now, or from the end of the one running that ends last
\* (one day, whichever row it is read from).
SameRunning(p, kind, seller) ==
    {q \in Payments : /\ q # p /\ Running(q) /\ payment[q].kind = kind
                      /\ payment[q].seller = seller}

Starts(p, kind, seller) ==
    LET same == SameRunning(p, kind, seller)
    IN  IF same = {} THEN {day}
        ELSE {payment[q].ends : q \in {last \in same :
                  \A other \in same : payment[other].ends <= payment[last].ends}}

Ends(starts, kind) == IF HasPeriod(kind) THEN starts + Lasts(kind) ELSE 0

-----------------------------------------------------------------------------
(* Requests.                                                               *)

At(s, step) == req[s].at = step

Goto(s, step, p, said, starts) ==
    req' = [req EXCEPT ![s] = [at |-> step, of |-> p, seller |-> req[s].seller,
                               said |-> said, starts |-> starts]]
Done(s) == Goto(s, "idle", NoPayment, "none", 0)

\* A transaction that had not committed is rolled back.
Crash(s) ==
    /\ CanCrash
    /\ ~At(s, "idle")
    /\ Done(s)
    /\ UNCHANGED <<payment, leads, day, charge>>

Tick == day < LastDay /\ day' = day + 1 /\ UNCHANGED <<payment, leads, req, charge>>

-----------------------------------------------------------------------------
(* Starting a payment.                                                     *)

\* The rows of each sort are made in order.
IsNext(p, rows) == p \in rows /\ ~Made(p) /\ \A q \in rows : q < p => Made(q)

NewRow(seller, kind) ==
    [seller |-> seller, kind |-> kind, status |-> "pending",
     starts |-> 0, ends |-> 0, creditOf |-> NoPayment]

\* _start_seller_payment commits the row, then asks Paystack.  What the asking
\* comes to is known only to this request until then, so it is one step: the
\* seller has a link to pay, or the row has failed, or the process died and
\* the row stays pending.
StartPayment(seller, kind) ==
    \E p \in Payments :
        /\ IsNext(p, Bought)
        /\ \/ /\ payment' = [payment EXCEPT ![p] = NewRow(seller, kind)]
              /\ charge' = [charge EXCEPT ![p] = "open"]
           \/ /\ payment' = [payment EXCEPT
                     ![p] = [NewRow(seller, kind) EXCEPT !.status = "failed"]]
              /\ UNCHANGED charge
           \/ /\ CanCrash
              /\ payment' = [payment EXCEPT ![p] = NewRow(seller, kind)]
              /\ UNCHANGED charge
        /\ UNCHANGED <<leads, day, req>>

\* SellerBoostView and SellerPlanView ask nothing first.
BuyPeriod(seller, kind) == HasPeriod(kind) /\ StartPayment(seller, kind)

\* SellerVerificationView.
BuyVerification(seller) ==
    /\ ~\E p \in Payments : /\ Paid(p) /\ payment[p].kind = "verification"
                            /\ payment[p].seller = seller
    /\ StartPayment(seller, "verification")

SpotsLeft == Cardinality(leads) < LeadLimit

\* SellerQuoteUnlockView: pay for the contact, or have it with the Shop plan.
\* The free unlock comes after the checks, in a step of its own.
BuyLead(seller) ==
    /\ seller \notin leads /\ SpotsLeft
    /\ ~PlanRunning(seller)
    /\ StartPayment(seller, "lead")

UnlockRead(s, seller) ==
    /\ At(s, "idle")
    /\ seller \notin leads /\ SpotsLeft
    /\ PlanRunning(seller)
    /\ req' = [req EXCEPT ![s].at = "unlock", ![s].seller = seller]
    /\ UNCHANGED <<payment, leads, day, charge>>

\* quotes.unlock: get or create.
Unlock(seller) == leads' = leads \cup {seller}

UnlockSave(s) ==
    /\ At(s, "unlock")
    /\ Unlock(req[s].seller)
    /\ Done(s)
    /\ UNCHANGED <<payment, day, charge>>

\* Mutant of MayUseCredit: any running month will do, used or not.
MayUseCreditAgain(seller, plan) == IsNewestPlan(plan, seller)

MayUseCredit(seller, plan) ==
    /\ IsNewestPlan(plan, seller)
    /\ ~\E q \in Payments : payment[q].creditOf = plan

\* The plan's free boost, made paid in one transaction that locks the plan's
\* row.  (The unique constraint on plan_credit_of never has to refuse.)
UseCredit(seller) ==
    \E p, plan \in Payments :
        /\ IsNext(p, Credits) /\ MayUseCredit(seller, plan)
        /\ \E start \in Starts(p, "boost", seller) :
               payment' = [payment EXCEPT
                   ![p] = [NewRow(seller, "boost") EXCEPT
                               !.status = "paid", !.starts = start,
                               !.ends = Ends(start, "boost"),
                               !.creditOf = plan]]
        /\ UNCHANGED <<leads, day, req, charge>>

\* External: the seller at Paystack's page; a failed attempt can be retried.
SellerPays(p) ==
    /\ charge[p] \in {"open", "failed"}
    /\ \E outcome \in {"success", "failed", "mismatch"} :
           charge' = [charge EXCEPT ![p] = outcome]
    /\ UNCHANGED <<payment, leads, day, req>>

-----------------------------------------------------------------------------
(* Confirmation.                                                           *)

\* SellerPaymentVerifyView: read the row, ask Paystack.
VerifyRead(s, p) ==
    /\ At(s, "idle")
    /\ payment[p].status = "pending"
    /\ Goto(s, "verify", p, "none", 0)
    /\ UNCHANGED <<payment, leads, day, charge>>

VerifyAsk(s) ==
    /\ At(s, "verify")
    /\ \/ /\ charge[req[s].of] # "none"
          /\ Goto(s, "confirm", req[s].of, charge[req[s].of], 0)
       \/ Done(s)
    /\ UNCHANGED <<payment, leads, day, charge>>

\* Paystack's charge.success webhook, until it is answered and as often after.
Webhook(s, p) ==
    /\ At(s, "idle")
    /\ charge[p] \in {"success", "mismatch"}
    /\ Goto(s, "confirm", p, charge[p], 0)
    /\ UNCHANGED <<payment, leads, day, charge>>

MayConfirm(p) == ~Paid(p)

\* Mutant of Exact: any success will do.
AnySuccess(said) == said \in {"success", "mismatch"}

\* _apply: a success of exactly the amount asked.
Exact(said) == said = "success"

StatusIfNotPaid(said) == IF said \in {"failed", "mismatch"} THEN "failed" ELSE "pending"

Locked(p) == \E s \in Slots : At(s, "save") /\ req[s].of = p

\* confirm_seller_payment takes the row's lock, decides and reads the other
\* periods ...
ConfirmLock(s) ==
    LET p == req[s].of
        said == req[s].said
    IN  /\ At(s, "confirm") /\ ~Locked(p)
        /\ \/ /\ MayConfirm(p) /\ Exact(said)
              /\ \E start \in IF HasPeriod(payment[p].kind)
                              THEN Starts(p, payment[p].kind, payment[p].seller) ELSE {0} :
                     Goto(s, "save", p, said, start)
              /\ UNCHANGED payment
           \/ /\ MayConfirm(p) /\ ~Exact(said) /\ said \in {"failed", "mismatch"}
              /\ payment' = [payment EXCEPT ![p].status = StatusIfNotPaid(said)]
              /\ Done(s)
           \/ /\ ~MayConfirm(p) \/ said \in {"none", "open"}
              /\ Done(s)
              /\ UNCHANGED payment
        /\ UNCHANGED <<leads, day, charge>>

GiveLead(p) ==
    IF payment[p].kind = "lead" THEN Unlock(payment[p].seller) ELSE UNCHANGED leads

\* ... and commits the payment with what it bought.
ConfirmSave(s) ==
    LET p == req[s].of
        kind == payment[p].kind
    IN  /\ At(s, "save")
        /\ payment' = [payment EXCEPT
               ![p].status = "paid",
               ![p].starts = req[s].starts,
               ![p].ends = Ends(req[s].starts, kind)]
        /\ GiveLead(p)
        /\ Done(s)
        /\ UNCHANGED <<day, charge>>

-----------------------------------------------------------------------------
(* The specification.                                                      *)

Init ==
    /\ payment = [p \in Payments |->
                     [NewRow(CHOOSE seller \in Sellers : TRUE, "boost")
                         EXCEPT !.status = "none"]]
    /\ leads = {} /\ day = 0
    /\ req = [s \in Slots |-> [at |-> "idle", of |-> NoPayment,
                               seller |-> CHOOSE seller \in Sellers : TRUE,
                               said |-> "none", starts |-> 0]]
    /\ charge = [p \in Payments |-> "none"]

Buy(seller) ==
    \/ \E kind \in Kinds : BuyPeriod(seller, kind)
    \/ "verification" \in Kinds /\ BuyVerification(seller)
    \/ "lead" \in Kinds /\ BuyLead(seller)
    \/ "boost" \in Kinds /\ UseCredit(seller)

Continue(s) == VerifyAsk(s) \/ ConfirmLock(s) \/ ConfirmSave(s) \/ UnlockSave(s)

Next ==
    \/ \E seller \in Sellers : Buy(seller)
    \/ \E p \in Payments : SellerPays(p)
    \/ \E s \in Slots :
           \/ \E p \in Payments : VerifyRead(s, p) \/ Webhook(s, p)
           \/ \E seller \in Sellers : "lead" \in Kinds /\ UnlockRead(s, seller)
           \/ Continue(s) \/ Crash(s)
    \/ Tick

Spec == Init /\ [][Next]_vars

-----------------------------------------------------------------------------
(* Properties.                                                             *)

\* What was bought is fixed when its payment is confirmed: no repeat of the
\* webhook and no browser that comes back later moves the period or undoes it.
PaidStays ==
    [][\A p \in Payments : Paid(p) => payment'[p] = payment[p]]_vars

\* confirm_seller_payment commits a payment together with what it bought,
\* whole: its days, or the contact, however many sellers got there first; and
\* commits one for a charge of exactly the amount only, whichever of the webhook
\* and the browser brings the answer, except a plan's free boost.
PaidMeansGiven ==
    \A p \in Payments :
        Paid(p) =>
            /\ charge[p] = "success" \/ payment[p].creditOf # NoPayment
            /\ payment[p].kind = "lead" => payment[p].seller \in leads
            /\ HasPeriod(payment[p].kind)
                   => payment[p].ends = payment[p].starts + Lasts(payment[p].kind)

\* One free boost a month of the plan, used by the seller who paid for the
\* month, though other months and boosts are being confirmed meanwhile.
OneFreeBoost ==
    \A p, q \in Payments :
        payment[p].creditOf # NoPayment =>
            /\ payment[q].creditOf = payment[p].creditOf => q = p
            /\ LET plan == payment[payment[p].creditOf]
               IN  plan.status = "paid" /\ plan.kind = "plan"
                   /\ plan.seller = payment[p].seller
=============================================================================

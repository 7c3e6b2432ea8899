----------------------------- MODULE OrderEscrow -----------------------------
(***************************************************************************)
(* One marketplace order from payment to payout: backend/marketplace's     *)
(* payments.py, payouts.py, the order views of selling_views.py, the       *)
(* order actions of admin.py and the daily release job.                    *)
(*                                                                         *)
(* The database commits every query by itself except inside                *)
(* transaction.atomic, and several gunicorn threads, the back office and   *)
(* the daily job run at once.  A handler is therefore a program of one     *)
(* step per database access or Paystack call, run by a request slot; what  *)
(* it read earlier is not read again unless the code does.                 *)
(*                                                                         *)
(* Orders are independent rows, so one order is the whole state.  Paystack *)
(* is external and modelled from how the code uses it.                     *)
(***************************************************************************)
EXTENDS Naturals, FiniteSets

CONSTANTS
    Slots,            \* requests (and job runs) that can be under way at once
    Plans,            \* the payment plans the order may be made with
    FirstPayment,     \* Order.amount_pesewas
    BalancePayment,   \* Order.balance_pesewas, when the plan has a balance
    Commission,       \* Order.commission_pesewas
    MaxBalanceTries,  \* bound: balance payments the buyer may start
    Faults            \* what may go wrong outside the code, see AllFaults

\* "lost"    Paystack acted, but its answer never came back (a timeout)
\* "crash"   the process running a request dies (a deploy, an OOM kill)
\* "refuse"  Paystack refuses a transfer or a refund (no funds, say)
\* "fail"    an accepted transfer ends failed
\* "reverse" a completed transfer is reversed by the bank
\* "account" the seller removes the payout account
AllFaults == {"lost", "crash", "refuse", "fail", "reverse", "account"}

BalanceRefs == 1..MaxBalanceTries
NoRef == 0

\* Paystack's transfers are kept by reference.  The code uses one reference
\* an order; a second one is here so that using it would be seen.
TransferRefs == {0, 1}

ASSUME EscrowAssumption ==
    /\ Slots # {}
    /\ Plans \subseteq {"full", "deposit", "collect"}
    /\ FirstPayment \in Nat /\ BalancePayment \in Nat /\ Commission \in Nat
    /\ Commission <= FirstPayment
    /\ MaxBalanceTries \in Nat
    /\ Faults \subseteq AllFaults

VARIABLES
    \* the order's row
    plan, status, balance, balanceRef, stage, payout,
    overdue,          \* delivered_at is MARKETPLACE_RELEASE_DAYS old
    recipient,        \* the seller has a Paystack transfer recipient
    \* requests under way
    req,
    \* Paystack: external
    charge,           \* the first payment
    balanceCharge,    \* each balance payment the buyer was given a link to
    transfers,        \* each transfer, by reference
    events,           \* transfer webhooks Paystack has had cause to send
    refunded,         \* who gave the buyer the money back, if anyone
    \* history, for the properties
    grants,           \* times the order was acted on as newly paid
    cause,            \* something has entitled the seller to the money
    problemOpen       \* a problem was recorded and staff have not decided

row == <<plan, status, balance, balanceRef, stage, payout, overdue, recipient>>
paystack == <<charge, balanceCharge, transfers, events, refunded>>
history == <<grants, cause, problemOpen>>
vars == <<row, req, paystack, history>>

Statuses == {"pending", "paid", "failed"}
Balances == {"none", "waiting", "due", "paid"}
Stages == {"new", "delivered", "received", "problem", "refunded"}
Payouts == {"split", "held", "sending", "released", "failed", "refunded"}
ChargeStates == {"none", "open", "success", "failed", "mismatch"}
TransferStates == {"none", "pending", "otp", "success", "failed", "reversed"}
Steps == {"idle", "verify", "confirm", "verifyBalance", "confirmBalance",
          "ready", "deliver", "startBalance", "receive", "problem", "clear", "release",
          "transfer", "settle", "refund", "recordRefund"}
Answers == ChargeStates \cup {"released"}

TypeOK ==
    /\ plan \in Plans
    /\ status \in Statuses
    /\ balance \in Balances
    /\ balanceRef \in BalanceRefs \cup {NoRef}
    /\ stage \in Stages
    /\ payout \in Payouts
    /\ overdue \in BOOLEAN
    /\ recipient \in BOOLEAN
    /\ req \in [Slots -> [at : Steps, said : Answers,
                          ref : BalanceRefs \cup {NoRef}]]
    /\ charge \in ChargeStates
    /\ balanceCharge \in [BalanceRefs -> ChargeStates]
    /\ transfers \in [TransferRefs -> TransferStates]
    /\ events \in SUBSET {"success", "failed", "reversed"}
    /\ refunded \in {"no", "api", "dashboard"}
    /\ grants \in Nat
    /\ cause \in BOOLEAN
    /\ problemOpen \in BOOLEAN

-----------------------------------------------------------------------------
(* Requests.                                                               *)

At(s, step) == req[s].at = step

GotoWith(s, step, said, ref) ==
    req' = [req EXCEPT ![s] = [at |-> step, said |-> said, ref |-> ref]]
Goto(s, step) == GotoWith(s, step, "none", NoRef)
Done(s) == Goto(s, "idle")

\* The process dies between two of a handler's steps: what was committed
\* stays, the rest never happens, and nothing remembers that it was due.
Crash(s) ==
    /\ "crash" \in Faults
    /\ ~At(s, "idle")
    /\ Done(s)
    /\ UNCHANGED <<row, paystack, history>>

-----------------------------------------------------------------------------
(* Checkout and confirmation of the first payment.                         *)

FullyPaid == status = "paid" /\ balance \in {"none", "paid"}

\* The row is committed before Paystack is asked to start the payment.
InitializeOk ==
    /\ charge = "none" /\ status = "pending"
    /\ charge' = "open"
    /\ UNCHANGED <<row, req, balanceCharge, transfers, events, refunded, history>>

InitializeFails ==
    /\ charge = "none" /\ status = "pending"
    /\ status' = "failed"
    /\ UNCHANGED <<plan, balance, balanceRef, stage, payout, overdue, recipient,
                   req, paystack, history>>

\* External: the buyer at Paystack's page.  A failed attempt can be retried
\* there; a charge can come out for another amount or currency.
BuyerPays ==
    /\ charge \in {"open", "failed"}
    /\ charge' \in {"success", "failed", "mismatch"}
    /\ UNCHANGED <<row, req, balanceCharge, transfers, events, refunded, history>>

\* Mutant of ConfirmOrder: without the check that the row is not paid yet.
ConfirmOrderAgain(said) ==
    \/ /\ said = "success"
       /\ status' = "paid"
       /\ balance' = IF plan = "deposit" THEN "waiting" ELSE balance
       /\ grants' = grants + 1
       /\ UNCHANGED <<plan, balanceRef, stage, payout, overdue, recipient,
                      paystack, cause, problemOpen>>
    \/ said # "success" /\ UNCHANGED <<row, paystack, history>>

\* Mutant of ConfirmOrder: an order whose payment failed is not looked at again.
ConfirmOrderOnce(said) ==
    \/ /\ status = "pending" /\ said = "success"
       /\ status' = "paid"
       /\ balance' = IF plan = "deposit" THEN "waiting" ELSE balance
       /\ grants' = grants + 1
       /\ UNCHANGED <<plan, balanceRef, stage, payout, overdue, recipient,
                      paystack, cause, problemOpen>>
    \/ /\ status = "pending" /\ said \in {"failed", "mismatch"}
       /\ status' = "failed"
       /\ UNCHANGED <<plan, balance, balanceRef, stage, payout, overdue,
                      recipient, paystack, history>>
    \/ /\ status # "pending" \/ said \in {"none", "open"}
       /\ UNCHANGED <<row, paystack, history>>

\* confirm_order, under the row lock, with Paystack's answer.
ConfirmOrder(said) ==
    \/ /\ status # "paid" /\ said = "success"
       /\ status' = "paid"
       /\ balance' = IF plan = "deposit" THEN "waiting" ELSE balance
       /\ grants' = grants + 1
       /\ UNCHANGED <<plan, balanceRef, stage, payout, overdue, recipient,
                      paystack, cause, problemOpen>>
    \/ /\ status # "paid" /\ said \in {"failed", "mismatch"}
       /\ status' = "failed"
       /\ UNCHANGED <<plan, balance, balanceRef, stage, payout, overdue,
                      recipient, paystack, history>>
    \/ /\ status = "paid" \/ said \in {"none", "open"}
       /\ UNCHANGED <<row, paystack, history>>

\* OrderView.post: read the row, ask Paystack, then confirm with the answer.
\* A question that fails (PaystackError) ends the request.
VerifyRead(s) ==
    /\ At(s, "idle")
    /\ status = "pending"
    /\ Goto(s, "verify")
    /\ UNCHANGED <<row, paystack, history>>

VerifyAsk(s) ==
    /\ At(s, "verify")
    /\ \/ charge # "none" /\ GotoWith(s, "confirm", charge, NoRef)
       \/ Done(s)
    /\ UNCHANGED <<row, paystack, history>>

VerifyConfirm(s) ==
    /\ At(s, "confirm")
    /\ ConfirmOrder(req[s].said)
    /\ Done(s)

\* Paystack's charge.success webhook: late, and as often as it likes.
ChargeWebhook ==
    /\ charge \in {"success", "mismatch"}
    /\ ConfirmOrder(charge)
    /\ UNCHANGED req

-----------------------------------------------------------------------------
(* The balance of a deposit order.                                         *)

\* Mutant of MayMarkReady: refuses only an order already marked.
MayMarkReadyAgain == status = "paid" /\ plan = "deposit" /\ balance # "due"

MayMarkReady == status = "paid" /\ plan = "deposit" /\ balance = "waiting"

\* OwnOrderView.patch "ready": checked on the row as read, saved later.
ReadyRead(s) ==
    /\ At(s, "idle")
    /\ MayMarkReady
    /\ Goto(s, "ready")
    /\ UNCHANGED <<row, paystack, history>>

ReadySave(s) ==
    /\ At(s, "ready")
    /\ balance' = "due"
    /\ Done(s)
    /\ UNCHANGED <<plan, status, balanceRef, stage, payout, overdue, recipient,
                   paystack, history>>

\* OrderBalanceView.post: a new reference each time, which replaces the one
\* on the row.  The buyer has no link to pay until the row is saved.
StartBalanceRead(s) ==
    /\ At(s, "idle")
    /\ balance = "due"
    /\ Goto(s, "startBalance")
    /\ UNCHANGED <<row, paystack, history>>

StartBalanceSave(s) ==
    /\ At(s, "startBalance")
    /\ \/ \E ref \in BalanceRefs :
            /\ balanceCharge[ref] = "none"
            /\ balanceCharge' = [balanceCharge EXCEPT ![ref] = "open"]
            /\ balanceRef' = ref
       \/ UNCHANGED <<balanceCharge, balanceRef>>   \* PaystackError: 502
    /\ Done(s)
    /\ UNCHANGED <<plan, status, balance, stage, payout, overdue, recipient,
                   charge, transfers, events, refunded, history>>

\* External: the buyer pays one of the links, the newest or an older one.
BuyerPaysBalance(ref) ==
    /\ balanceCharge[ref] \in {"open", "failed"}
    /\ \E outcome \in {"success", "failed", "mismatch"} :
           balanceCharge' = [balanceCharge EXCEPT ![ref] = outcome]
    /\ UNCHANGED <<row, req, charge, transfers, events, refunded, history>>

\* confirm_balance, under the row lock: the order is found by the reference
\* that is on it now.
ConfirmBalance(ref, said) ==
    \/ /\ balanceRef = ref /\ balance # "paid" /\ said = "success"
       /\ balance' = "paid"
       /\ UNCHANGED <<plan, status, balanceRef, stage, payout, overdue,
                      recipient, paystack, history>>
    \/ /\ balanceRef # ref \/ balance = "paid" \/ said # "success"
       /\ UNCHANGED <<row, paystack, history>>

\* OrderView.post again, for a balance: the reference is the one read.
VerifyBalanceRead(s) ==
    /\ At(s, "idle")
    /\ balance = "due" /\ balanceRef # NoRef
    /\ GotoWith(s, "verifyBalance", "none", balanceRef)
    /\ UNCHANGED <<row, paystack, history>>

VerifyBalanceAsk(s) ==
    /\ At(s, "verifyBalance")
    /\ \/ GotoWith(s, "confirmBalance", balanceCharge[req[s].ref], req[s].ref)
       \/ Done(s)
    /\ UNCHANGED <<row, paystack, history>>

VerifyBalanceConfirm(s) ==
    /\ At(s, "confirmBalance")
    /\ ConfirmBalance(req[s].ref, req[s].said)
    /\ Done(s)

BalanceWebhook(ref) ==
    /\ balanceCharge[ref] \in {"success", "mismatch"}
    /\ ConfirmBalance(ref, balanceCharge[ref])
    /\ UNCHANGED req

-----------------------------------------------------------------------------
(* Handover, receipt and problems: read the row, decide, save the fields.  *)

\* OwnOrderView.patch "delivered".
DeliverRead(s) ==
    /\ At(s, "idle")
    /\ FullyPaid /\ stage = "new"
    /\ Goto(s, "deliver")
    /\ UNCHANGED <<row, paystack, history>>

DeliverSave(s) ==
    /\ At(s, "deliver")
    /\ stage' = "delivered" /\ overdue' = FALSE
    /\ Done(s)
    /\ UNCHANGED <<plan, status, balance, balanceRef, payout, recipient,
                   paystack, history>>

\* MARKETPLACE_RELEASE_DAYS go by.
HandoverAges ==
    /\ stage = "delivered" /\ ~overdue
    /\ overdue' = TRUE
    /\ cause' = TRUE
    /\ UNCHANGED <<plan, status, balance, balanceRef, stage, payout, recipient,
                   req, paystack, grants, problemOpen>>

\* Mutant of MayReceive: a reported problem does not stand in the way.
MayReceiveDisputed == status = "paid" /\ stage \notin {"refunded", "received"}

MayReceive == status = "paid" /\ stage \notin {"problem", "refunded", "received"}

\* OrderReceivedView.post: "I've got it", then release.
ReceiveRead(s) ==
    /\ At(s, "idle")
    /\ MayReceive
    /\ Goto(s, "receive")
    /\ UNCHANGED <<row, paystack, history>>

ReceiveSave(s) ==
    /\ At(s, "receive")
    /\ stage' = "received"
    /\ cause' = TRUE
    /\ Goto(s, "release")
    /\ UNCHANGED <<plan, status, balance, balanceRef, payout, overdue, recipient,
                   paystack, grants, problemOpen>>

\* OrderProblemView.post.
ProblemRead(s) ==
    /\ At(s, "idle")
    /\ status = "paid" /\ stage # "refunded"
    /\ Goto(s, "problem")
    /\ UNCHANGED <<row, paystack, history>>

ProblemSave(s) ==
    /\ At(s, "problem")
    /\ stage' = "problem"
    /\ problemOpen' = TRUE
    /\ Done(s)
    /\ UNCHANGED <<plan, status, balance, balanceRef, payout, overdue, recipient,
                   paystack, grants, cause>>

-----------------------------------------------------------------------------
(* Paying the seller: payouts.release and what calls it.                   *)

\* Mutants of DueForRelease: the age of the handover is not asked; a payout
\* that failed is not tried again.
DueAtHandover ==
    /\ stage \in {"received", "delivered"}
    /\ status = "paid" /\ payout \in {"held", "failed"}
    /\ balance \in {"none", "paid"}
DueOnce ==
    /\ stage = "received" \/ (stage = "delivered" /\ overdue)
    /\ status = "paid" /\ payout = "held"
    /\ balance \in {"none", "paid"}

\* payouts.due_for_release, the daily job's query.
DueForRelease ==
    /\ stage = "received" \/ (stage = "delivered" /\ overdue)
    /\ status = "paid"
    /\ payout \in {"held", "failed"}
    /\ balance \in {"none", "paid"}

DailyPick(s) ==
    /\ At(s, "idle")
    /\ DueForRelease
    /\ Goto(s, "release")
    /\ UNCHANGED <<row, paystack, history>>

\* OrderAdmin.release_to_seller: staff have looked, which clears a problem.
StaffReleaseRead(s) ==
    /\ At(s, "idle")
    /\ status = "paid"
    /\ Goto(s, IF stage = "problem" THEN "clear" ELSE "release")
    /\ cause' = TRUE /\ problemOpen' = FALSE
    /\ UNCHANGED <<row, paystack, grants>>

StaffClearSave(s) ==
    /\ At(s, "clear")
    /\ stage' = "received"
    /\ Goto(s, "release")
    /\ UNCHANGED <<plan, status, balance, balanceRef, payout, overdue, recipient,
                   paystack, history>>

\* Mutant of MayRelease: the balance is not asked for.
MayReleaseUnpaid ==
    /\ status = "paid" /\ payout \in {"held", "failed"}
    /\ stage \notin {"problem", "refunded"}

\* What release re-checks once it holds the row.
MayRelease ==
    /\ status = "paid" /\ payout \in {"held", "failed"}
    /\ stage \notin {"problem", "refunded"} /\ FullyPaid

\* The first transaction of release; the lock is let go before the transfer.
ReleaseLock(s) ==
    /\ At(s, "release")
    /\ \/ /\ MayRelease /\ recipient
          /\ payout' = "sending"
          /\ Goto(s, "transfer")
       \/ /\ MayRelease /\ ~recipient
          /\ payout' = "failed"
          /\ Done(s)
       \/ /\ ~MayRelease
          /\ UNCHANGED payout
          /\ Done(s)
    /\ UNCHANGED <<plan, status, balance, balanceRef, stage, overdue, recipient,
                   paystack, history>>

\* Mutant of TransferReference: a new one for a new attempt.
FreshReference == IF transfers[0] = "none" THEN 0 ELSE 1

\* Derived from the order's reference, so every attempt asks with the same.
TransferReference == 0

\* Mutant of TransferAnswered: a pending transfer counted as made.
PendingIsDone(s, answer) ==
    GotoWith(s, "settle",
             IF answer \in {"success", "pending"} THEN "released" ELSE "failed",
             NoRef)

\* Paystack's answer to the request, turned into what release does next.
TransferAnswered(s, answer) ==
    CASE answer = "success" -> GotoWith(s, "settle", "released", NoRef)
      [] answer = "pending" -> Done(s)
      [] OTHER              -> GotoWith(s, "settle", "failed", NoRef)

\* paystack.transfer, with no lock held.  Paystack refuses a reference it has
\* seen.  An answer that is lost reads as a failure.
TransferCall(s) ==
    /\ At(s, "transfer")
    /\ \/ /\ transfers[TransferReference] # "none" \/ "refuse" \in Faults
          /\ TransferAnswered(s, "refused")
          /\ UNCHANGED <<transfers, events>>
       \/ /\ transfers[TransferReference] = "none"
          /\ \E state \in {"pending", "otp", "success"} :
                /\ state = "otp" => "fail" \in Faults
                /\ transfers' = [transfers EXCEPT ![TransferReference] = state]
                /\ events' = IF state = "success"
                             THEN events \cup {"success"} ELSE events
                /\ \/ TransferAnswered(s, state)
                   \/ "lost" \in Faults /\ TransferAnswered(s, "refused")
    /\ UNCHANGED <<row, charge, balanceCharge, refunded, history>>

\* Mutant of Settle: nothing is final.
SettleAlways(result) ==
    /\ payout' = result
    /\ UNCHANGED <<plan, status, balance, balanceRef, stage, overdue, recipient,
                   paystack, history>>

\* payouts._settle, under the row lock: released and refunded are final.
Settle(result) ==
    /\ payout' = IF payout \in {"released", "refunded"} THEN payout ELSE result
    /\ UNCHANGED <<plan, status, balance, balanceRef, stage, overdue, recipient,
                   paystack, history>>

SettleSave(s) ==
    /\ At(s, "settle")
    /\ Settle(req[s].said)
    /\ Done(s)

\* External: what becomes of a transfer Paystack accepted.
TransferEnds(ref) ==
    /\ \/ /\ transfers[ref] = "pending"
          /\ transfers' = [transfers EXCEPT ![ref] = "success"]
          /\ events' = events \cup {"success"}
       \/ /\ transfers[ref] \in {"pending", "otp"} /\ "fail" \in Faults
          /\ transfers' = [transfers EXCEPT ![ref] = "failed"]
          /\ events' = events \cup {"failed"}
       \/ /\ transfers[ref] = "success" /\ "reverse" \in Faults
          /\ transfers' = [transfers EXCEPT ![ref] = "reversed"]
          /\ events' = events \cup {"reversed"}
    /\ UNCHANGED <<row, req, charge, balanceCharge, refunded, history>>

\* payouts.transfer_event: the transfer webhooks, in any order, repeatedly.
TransferWebhook(event) ==
    /\ event \in events
    /\ Settle(IF event = "success" THEN "released" ELSE "failed")
    /\ UNCHANGED req

\* SellerPayoutView: the seller removes or saves the payout account.
ChangeAccount ==
    /\ "account" \in Faults
    /\ recipient' = ~recipient
    /\ UNCHANGED <<plan, status, balance, balanceRef, stage, payout, overdue,
                   req, paystack, history>>

-----------------------------------------------------------------------------
(* Giving the money back.                                                  *)

\* Mutant of MayRefund: does not ask where the money is.
MayRefundAnything == status = "paid" /\ stage # "refunded"

\* OrderAdmin.refund_buyer's query and the check payouts.refund makes.
MayRefund ==
    /\ status = "paid" /\ stage # "refunded"
    /\ payout \notin {"released", "sending"}

\* Checked on the order as the back office read it, which is not read again.
RefundRead(s) ==
    /\ At(s, "idle")
    /\ MayRefund
    /\ Goto(s, "refund")
    /\ UNCHANGED <<row, paystack, history>>

\* paystack.refund, of the whole first payment.
RefundCall(s) ==
    /\ At(s, "refund")
    /\ \/ /\ refunded # "no" \/ "refuse" \in Faults
          /\ Done(s)
          /\ UNCHANGED refunded
       \/ /\ refunded = "no"
          /\ refunded' = "api"
          /\ \/ Goto(s, "recordRefund")
             \/ "lost" \in Faults /\ Done(s)
    /\ UNCHANGED <<row, charge, balanceCharge, transfers, events, history>>

RefundedPayout == IF payout = "split" THEN payout ELSE "refunded"

RefundSave(s) ==
    /\ At(s, "recordRefund")
    /\ stage' = "refunded"
    /\ payout' = RefundedPayout
    /\ problemOpen' = FALSE
    /\ Done(s)
    /\ UNCHANGED <<plan, status, balance, balanceRef, overdue, recipient,
                   paystack, grants, cause>>

\* External: staff refund in the Paystack dashboard ...
DashboardRefund ==
    /\ status = "paid" /\ refunded = "no"
    /\ refunded' = "dashboard"
    /\ UNCHANGED <<row, req, charge, balanceCharge, transfers, events, history>>

\* ... and OrderAdmin.mark_refunded records it, in one UPDATE of the stage.
MarkRefunded(s) ==
    /\ At(s, "idle")
    /\ status = "paid" /\ refunded # "no"
    /\ stage' = "refunded"
    /\ problemOpen' = FALSE
    /\ UNCHANGED <<plan, status, balance, balanceRef, payout, overdue, recipient,
                   req, paystack, grants, cause>>

-----------------------------------------------------------------------------
(* The specification.                                                      *)

\* _create_order's row: pending, held or split by trust.holds_payment.
Init ==
    /\ plan \in Plans
    /\ status = "pending" /\ balance = "none" /\ balanceRef = NoRef
    /\ stage = "new" /\ payout \in {"held", "split"} /\ overdue = FALSE
    /\ recipient = TRUE
    /\ req = [s \in Slots |-> [at |-> "idle", said |-> "none", ref |-> NoRef]]
    /\ charge = "none"
    /\ balanceCharge = [ref \in BalanceRefs |-> "none"]
    /\ transfers = [ref \in TransferRefs |-> "none"]
    /\ events = {} /\ refunded = "no"
    /\ grants = 0 /\ cause = FALSE /\ problemOpen = FALSE

\* The steps of a request that is under way.
Continue(s) ==
    \/ VerifyAsk(s) \/ VerifyConfirm(s)
    \/ VerifyBalanceAsk(s) \/ VerifyBalanceConfirm(s)
    \/ ReadySave(s) \/ StartBalanceSave(s)
    \/ DeliverSave(s) \/ ReceiveSave(s) \/ ProblemSave(s)
    \/ StaffClearSave(s) \/ ReleaseLock(s) \/ TransferCall(s) \/ SettleSave(s)
    \/ RefundCall(s) \/ RefundSave(s)

Begin(s) ==
    \/ VerifyRead(s) \/ VerifyBalanceRead(s)
    \/ ReadyRead(s) \/ StartBalanceRead(s)
    \/ DeliverRead(s) \/ ReceiveRead(s) \/ ProblemRead(s)
    \/ DailyPick(s) \/ StaffReleaseRead(s) \/ RefundRead(s)
    \/ MarkRefunded(s)

Outside ==
    \/ InitializeOk \/ InitializeFails \/ BuyerPays \/ ChargeWebhook
    \/ \E ref \in BalanceRefs : BuyerPaysBalance(ref) \/ BalanceWebhook(ref)
    \/ HandoverAges
    \/ \E ref \in TransferRefs : TransferEnds(ref)
    \/ \E event \in {"success", "failed", "reversed"} : TransferWebhook(event)
    \/ ChangeAccount \/ DashboardRefund

Next ==
    \/ \E s \in Slots : Begin(s) \/ Continue(s) \/ Crash(s)
    \/ Outside

Spec == Init /\ [][Next]_vars

-----------------------------------------------------------------------------
(* Properties that hold however requests interleave, answers get lost and  *)
(* processes die.                                                          *)

\* An order is acted on as paid (balance set up, code counted, stock taken,
\* texts queued) exactly once, and only for a charge of the exact amount,
\* however the webhook, its repeats and returning browsers race in
\* confirm_order.
GrantedOnce ==
    /\ grants = IF status = "paid" THEN 1 ELSE 0
    /\ status = "paid" => charge = "success"

BalanceReceived == \E ref \in BalanceRefs : balanceCharge[ref] = "success"

\* What Fliiptech's Paystack balance has taken for the order.
Received ==
    (IF charge = "success" THEN FirstPayment ELSE 0)
        + (IF BalanceReceived THEN BalancePayment ELSE 0)

\* Order.seller_share_pesewas: the total, whatever way it is paid, less the
\* commission.
SellerShare ==
    FirstPayment + (IF plan = "full" THEN 0 ELSE BalancePayment) - Commission

Accepted(ref) == transfers[ref] # "none"

\* release never has Paystack send more than the buyer has paid in for the
\* order: a deposit order's transfer waits for its balance, whatever requests
\* are saving the balance's state meanwhile.
NeverSendsMoreThanReceived ==
    (\E ref \in TransferRefs : Accepted(ref)) => SellerShare <= Received

\* However often release is retried, and whatever it was last told, Paystack
\* accepts one transfer for an order.
TransferredOnce ==
    \A r1, r2 \in TransferRefs : Accepted(r1) /\ Accepted(r2) => r1 = r2

\* A held order's money is asked for only after the buyer said they have it,
\* the handover is MARKETPLACE_RELEASE_DAYS old, or staff decided, even
\* though release itself does not ask why it was called.
PayoutHasCause ==
    (payout \in {"sending", "released"} \/ \E ref \in TransferRefs : Accepted(ref))
        => cause

\* A payout is recorded as released only for a transfer that did succeed,
\* whatever order the answer, the webhooks and other requests' saves come in.
ReleasedMeansSent ==
    payout = "released" => "success" \in events

\* An order paid by split is never also paid by transfer: no path, refunds
\* included, turns its payout into one release would act on.
SplitStaysSplit ==
    [][payout = "split" => payout' = "split" /\ UNCHANGED transfers]_vars

\* Once a payout is recorded as released, no late or repeated transfer
\* webhook and no slow request puts it back in line to be sent again; only a
\* refund may replace it.
ReleasedIsFinal ==
    [][payout = "released" => payout' \in {"released", "refunded"}]_vars

-----------------------------------------------------------------------------
(* Properties of buyer protection.  They hold when one request works on    *)
(* the order at a time and Paystack's answers arrive; the README says      *)
(* which of them fail otherwise.                                           *)

\* Where the order's money is, for EscrowPromise.
Money ==
    IF \E ref \in TransferRefs : transfers[ref] \in {"pending", "success"}
    THEN "seller"
    ELSE IF refunded = "api" THEN "returned"
    ELSE IF status = "paid" THEN "held" ELSE "buyer"

Promise == INSTANCE EscrowPromise WITH money <- Money, frozen <- problemOpen

\* Buyer protection as promised: every step of the handlers, jobs and
\* webhooks is a step of the promise or invisible to it.
KeepsPromise == Promise!Spec

\* "A problem freezes the money until staff release it or refund the buyer":
\* release does not decide to send the seller's share while a recorded
\* problem waits for staff.
ProblemFreezesMoney ==
    [][payout # "sending" /\ payout' = "sending" => ~problemOpen]_vars

\* What was settled with the buyer stays settled: an order recorded as
\* refunded is not brought back to life, and a balance that was paid is not
\* asked for again, by any of the handlers that save one field of the row.
SettledWithBuyer ==
    [][/\ stage = "refunded" => stage' = "refunded"
       /\ balance = "paid" => balance' = "paid"]_vars

-----------------------------------------------------------------------------
(* Liveness.                                                               *)

\* A request that has begun runs on; the daily job runs every day; Paystack
\* finishes accepted transfers and delivers its webhooks.  Nothing makes a
\* buyer, a seller or staff do anything.
Fairness ==
    /\ \A s \in Slots : WF_vars(Continue(s)) /\ SF_vars(DailyPick(s))
    /\ \A ref \in TransferRefs : WF_vars(TransferEnds(ref))
    /\ \A event \in {"success", "failed", "reversed"} :
           WF_vars(TransferWebhook(event))
    /\ WF_vars(ChargeWebhook)
    /\ \A ref \in BalanceRefs : WF_vars(BalanceWebhook(ref))

FairSpec == Spec /\ Fairness

\* The buyer has a fully paid, held order and has not complained, and the
\* bank has not sent the money back.
Owed ==
    /\ stage = "received" /\ FullyPaid
    /\ payout \in {"held", "sending", "failed"}
    /\ recipient
    /\ \A ref \in TransferRefs : transfers[ref] \notin {"failed", "reversed", "otp"}

\* Such an order does not stay so: the seller is paid in the end, unless a
\* problem, a refund or the bank comes first.
SellerIsPaid == Owed ~> ~Owed

\* Money Paystack took for the order is acted on in the end, even if an
\* earlier attempt had already failed the row and whoever confirmed that.
PaymentIsConfirmed == charge = "success" ~> status = "paid"
=============================================================================

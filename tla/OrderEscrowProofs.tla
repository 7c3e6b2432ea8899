------------------------- MODULE OrderEscrowProofs -------------------------
(***************************************************************************)
(* Theorems about OrderEscrow, for any number of requests at once, any     *)
(* amounts and any of the faults.                                          *)
(***************************************************************************)
EXTENDS OrderEscrow, TLAPS

-----------------------------------------------------------------------------
(* The inductive invariant, in named parts.                                *)

\* What a request was told by Paystack about a payment is still so when it
\* takes the row's lock: a successful charge stays successful.
AnswersStayTrue ==
    \A s \in Slots :
        /\ At(s, "verifyBalance") => req[s].ref \in BalanceRefs
        /\ At(s, "confirm") /\ req[s].said = "success" => charge = "success"
        /\ At(s, "confirmBalance") /\ req[s].said = "success"
               => req[s].ref \in BalanceRefs /\ balanceCharge[req[s].ref] = "success"
        /\ At(s, "settle") => req[s].said \in {"released", "failed"}
        /\ At(s, "settle") /\ req[s].said = "released" => "success" \in events

\* The row's balance is set up with the first payment and says "paid" only
\* for money Paystack has.
BalanceIsHonest ==
    /\ status = "paid" /\ plan = "deposit" => balance # "none"
    /\ balance = "paid" => BalanceReceived

\* Everything on the way to a transfer was entitled to start.
CauseComesFirst ==
    /\ stage = "received" => cause
    /\ overdue => cause
    /\ payout \in {"sending", "released"} => cause
    /\ events # {} => cause
    /\ \A ref \in TransferRefs : Accepted(ref) => cause
    /\ \A s \in Slots :
           req[s].at \in {"clear", "release", "transfer", "settle"} => cause

\* A transfer is under way, or was made, only for an order paid in full, and
\* never for one paid by split.
PaidFor == charge = "success" /\ (plan = "deposit" => BalanceReceived)

TransferIsPaidFor ==
    /\ \A s \in Slots : At(s, "transfer") => PaidFor
    /\ \A ref \in TransferRefs : Accepted(ref) => PaidFor

SplitIsUntouched ==
    payout = "split" =>
        /\ \A ref \in TransferRefs : ~Accepted(ref)
        /\ events = {}
        /\ \A s \in Slots : req[s].at \notin {"transfer", "settle"}

OneReference == \A ref \in TransferRefs : Accepted(ref) => ref = TransferReference

EventsAreOfTransfers ==
    events # {} => \E ref \in TransferRefs : Accepted(ref)

IInv ==
    /\ TypeOK
    /\ GrantedOnce
    /\ ReleasedMeansSent
    /\ AnswersStayTrue
    /\ BalanceIsHonest
    /\ CauseComesFirst
    /\ TransferIsPaidFor
    /\ SplitIsUntouched
    /\ OneReference
    /\ EventsAreOfTransfers

-----------------------------------------------------------------------------
(* Types.                                                                  *)

LEMMA TypeBegin ==
    ASSUME TypeOK, NEW s \in Slots, Begin(s)
    PROVE  TypeOK'
<1> USE DEF TypeOK, Goto, GotoWith, row, paystack, history, Steps, Answers, ChargeStates, NoRef
<1>1. CASE VerifyRead(s)
  BY <1>1 DEF VerifyRead
<1>2. CASE VerifyBalanceRead(s)
  BY <1>2 DEF VerifyBalanceRead
<1>3. CASE ReadyRead(s)
  BY <1>3 DEF ReadyRead
<1>4. CASE StartBalanceRead(s)
  BY <1>4 DEF StartBalanceRead
<1>5. CASE DeliverRead(s)
  BY <1>5 DEF DeliverRead
<1>6. CASE ReceiveRead(s)
  BY <1>6 DEF ReceiveRead
<1>7. CASE ProblemRead(s)
  BY <1>7 DEF ProblemRead
<1>8. CASE DailyPick(s)
  BY <1>8 DEF DailyPick
<1>9. CASE StaffReleaseRead(s)
  BY <1>9 DEF StaffReleaseRead
<1>10. CASE RefundRead(s)
  BY <1>10 DEF RefundRead
<1>11. CASE MarkRefunded(s)
  BY <1>11 DEF MarkRefunded, Stages
<1> QED
  BY <1>1, <1>2, <1>3, <1>4, <1>5, <1>6, <1>7, <1>8, <1>9, <1>10, <1>11 DEF Begin

LEMMA TypeConfirm ==
    ASSUME TypeOK, NEW said, ConfirmOrder(said),
           req' \in [Slots -> [at : Steps, said : Answers, ref : BalanceRefs \cup {NoRef}]]
    PROVE  TypeOK'
<1>1. CASE said = "success" /\ status # "paid"
  <2>1. /\ status' = "paid" /\ grants' = grants + 1
        /\ balance' = IF plan = "deposit" THEN "waiting" ELSE balance
        /\ UNCHANGED <<plan, balanceRef, stage, payout, overdue, recipient,
                       paystack, cause, problemOpen>>
    BY <1>1 DEF ConfirmOrder
  <2> QED
    BY <2>1 DEF TypeOK, paystack, Statuses, Balances
<1>2. CASE ~(said = "success" /\ status # "paid")
  <2>1. /\ status' \in {status, "failed"}
        /\ UNCHANGED <<plan, balance, balanceRef, stage, payout, overdue, recipient,
                       paystack, history>>
    BY <1>2 DEF ConfirmOrder, row
  <2> QED
    BY <2>1 DEF TypeOK, paystack, history, Statuses
<1> QED
  BY <1>1, <1>2

\* SettleSave records what the request was answered, so its type needs what a
\* settling request can have been told.
LEMMA TypeContinue ==
    ASSUME TypeOK, AnswersStayTrue, NEW s \in Slots, Continue(s)
    PROVE  TypeOK'
<1> USE DEF TypeOK, Done, Goto, GotoWith, row, paystack, history, Steps, Answers, ChargeStates, NoRef
<1>1. CASE VerifyConfirm(s)
  <2>1. req' \in [Slots -> [at : Steps, said : Answers, ref : BalanceRefs \cup {NoRef}]]
    BY <1>1 DEF VerifyConfirm
  <2> QED
    BY <1>1, <2>1, TypeConfirm DEF VerifyConfirm
<1>2. CASE VerifyBalanceConfirm(s)
  BY <1>2 DEF VerifyBalanceConfirm, ConfirmBalance, Balances
<1>3. CASE ReadySave(s)
  BY <1>3 DEF ReadySave, Balances
<1>4. CASE StartBalanceSave(s)
  BY <1>4 DEF StartBalanceSave
<1>5. CASE DeliverSave(s)
  BY <1>5 DEF DeliverSave, Stages
<1>6. CASE ReceiveSave(s)
  BY <1>6 DEF ReceiveSave, Stages
<1>7. CASE ProblemSave(s)
  BY <1>7 DEF ProblemSave, Stages
<1>8. CASE StaffClearSave(s)
  BY <1>8 DEF StaffClearSave, Stages
<1>9. CASE ReleaseLock(s)
  BY <1>9 DEF ReleaseLock, Payouts
<1>10. CASE TransferCall(s)
  BY <1>10
     DEF TransferCall, TransferAnswered, TransferReference, TransferRefs, TransferStates
<1>11. CASE SettleSave(s)
  BY <1>11 DEF SettleSave, AnswersStayTrue, Settle, Payouts, At
<1>12. CASE RefundCall(s)
  BY <1>12 DEF RefundCall
<1>13. CASE RefundSave(s)
  BY <1>13 DEF RefundSave, RefundedPayout, Stages, Payouts
<1>14. CASE VerifyAsk(s)
  BY <1>14 DEF VerifyAsk
<1>15. CASE VerifyBalanceAsk(s)
  BY <1>15 DEF VerifyBalanceAsk, AnswersStayTrue, At
<1> QED
  BY <1>1, <1>2, <1>3, <1>4, <1>5, <1>6, <1>7, <1>8, <1>9, <1>10, <1>11, <1>12, <1>13,
     <1>14, <1>15
     DEF Continue

LEMMA TypeOutside ==
    ASSUME TypeOK, Outside
    PROVE  TypeOK'
<1> USE DEF TypeOK, row, paystack, history
<1>1. CASE InitializeOk
  BY <1>1 DEF InitializeOk, ChargeStates
<1>2. CASE InitializeFails
  BY <1>2 DEF InitializeFails, Statuses
<1>3. CASE BuyerPays
  BY <1>3 DEF BuyerPays, ChargeStates
<1>4. CASE ChargeWebhook
  BY <1>4, TypeConfirm DEF ChargeWebhook
<1>5. CASE \E ref \in BalanceRefs : BuyerPaysBalance(ref)
  BY <1>5 DEF BuyerPaysBalance, ChargeStates
<1>6. CASE \E ref \in BalanceRefs : BalanceWebhook(ref)
  BY <1>6 DEF BalanceWebhook, ConfirmBalance, Balances
<1>7. CASE HandoverAges
  BY <1>7 DEF HandoverAges
<1>8. CASE \E ref \in TransferRefs : TransferEnds(ref)
  BY <1>8 DEF TransferEnds, TransferStates
<1>9. CASE \E event \in {"success", "failed", "reversed"} : TransferWebhook(event)
  BY <1>9 DEF TransferWebhook, Settle, Payouts
<1>10. CASE ChangeAccount
  BY <1>10 DEF ChangeAccount
<1>11. CASE DashboardRefund
  BY <1>11 DEF DashboardRefund
<1> QED
  BY <1>1, <1>2, <1>3, <1>4, <1>5, <1>6, <1>7, <1>8, <1>9, <1>10, <1>11 DEF Outside

LEMMA TypeStep ==
    ASSUME TypeOK, AnswersStayTrue, [Next]_vars
    PROVE  TypeOK'
<1>1. CASE \E s \in Slots : Begin(s)
  BY <1>1, TypeBegin
<1>2. CASE \E s \in Slots : Continue(s)
  BY <1>2, TypeContinue
<1>3. CASE \E s \in Slots : Crash(s)
  BY <1>3
     DEF TypeOK, Crash, Done, Goto, GotoWith, row, paystack, history, Steps, Answers,
         ChargeStates, NoRef
<1>4. CASE Outside
  BY <1>4, TypeOutside
<1>5. CASE UNCHANGED vars
  BY <1>5 DEF TypeOK, vars, row, paystack, history
<1> QED
  BY <1>1, <1>2, <1>3, <1>4, <1>5 DEF Next

-----------------------------------------------------------------------------
(* What the steps leave alone.                                             *)

ledger == <<plan, status, balance, balanceRef, payout, overdue, recipient,
            charge, balanceCharge, transfers, events, grants>>

\* A handler's first step reads; only the back office's two write as well.
LEMMA BeginReads ==
    ASSUME NEW s \in Slots, Begin(s)
    PROVE  /\ UNCHANGED ledger
           /\ \/ UNCHANGED <<stage, cause>>
              \/ stage' = "refunded" /\ UNCHANGED <<cause, req>>
              \/ UNCHANGED stage /\ cause' = TRUE
<1> USE DEF ledger, row, paystack, history
<1>1. CASE StaffReleaseRead(s)
  BY <1>1 DEF StaffReleaseRead
<1>2. CASE MarkRefunded(s)
  BY <1>2 DEF MarkRefunded
<1>3. CASE Begin(s) /\ ~StaffReleaseRead(s) /\ ~MarkRefunded(s)
  BY <1>3
     DEF Begin, VerifyRead, VerifyBalanceRead, ReadyRead, StartBalanceRead, DeliverRead,
         ReceiveRead, ProblemRead, DailyPick, RefundRead
<1> QED
  BY <1>1, <1>2, <1>3

\* The requests' saves that touch neither Paystack nor the first payment.
LEMMA FirstPaymentFrame ==
    ASSUME NEW s \in Slots, Begin(s) \/ Continue(s) \/ Crash(s), ~VerifyConfirm(s)
    PROVE  UNCHANGED <<plan, status, charge, grants>>
<1> USE DEF row, paystack, history
<1>1. CASE Begin(s)
  BY <1>1, BeginReads DEF ledger
<1>2. CASE Crash(s)
  BY <1>2 DEF Crash
<1>3. CASE Continue(s)
  BY <1>3
     DEF Continue, VerifyAsk, VerifyBalanceAsk, VerifyBalanceConfirm, ConfirmBalance,
         ReadySave, StartBalanceSave, DeliverSave, ReceiveSave, ProblemSave,
         StaffClearSave, ReleaseLock, TransferCall, SettleSave, Settle, RefundCall,
         RefundSave
<1> QED
  BY <1>1, <1>2, <1>3

\* Everything outside the requests, with the actions that name a reference or
\* an event taken apart.
LEMMA OutsideFrame ==
    ASSUME Outside
    PROVE  /\ UNCHANGED req
           /\ UNCHANGED <<plan, stage>>
           /\ ~InitializeFails /\ ~ChargeWebhook => UNCHANGED <<status, grants>>
BY DEF Outside, InitializeOk, InitializeFails, BuyerPays, ChargeWebhook, ConfirmOrder,
       BuyerPaysBalance, BalanceWebhook, ConfirmBalance, HandoverAges, TransferEnds,
       TransferWebhook, Settle, ChangeAccount, DashboardRefund, row, paystack, history

-----------------------------------------------------------------------------
(* What only grows.                                                        *)

LEMMA PlanIsFixed ==
    ASSUME [Next]_vars
    PROVE  plan' = plan
<1>1. CASE \E s \in Slots : VerifyConfirm(s)
  BY <1>1 DEF VerifyConfirm, ConfirmOrder, row
<1>2. CASE \E s \in Slots : (Begin(s) \/ Continue(s) \/ Crash(s)) /\ ~VerifyConfirm(s)
  BY <1>2, FirstPaymentFrame
<1>3. CASE Outside
  BY <1>3, OutsideFrame
<1>4. CASE UNCHANGED vars
  BY <1>4 DEF vars, row
<1> QED
  BY <1>1, <1>2, <1>3, <1>4 DEF Next

\* A charge that succeeded has succeeded; a transfer that was accepted was
\* accepted; what entitled the seller to the money still does.
LEMMA OnlyGrows ==
    ASSUME TypeOK, [Next]_vars
    PROVE  /\ charge = "success" => charge' = "success"
           /\ \A ref \in BalanceRefs :
                  balanceCharge[ref] = "success" => balanceCharge'[ref] = "success"
           /\ events \subseteq events'
           /\ cause => cause'
           /\ \A ref \in TransferRefs : Accepted(ref) => Accepted(ref)'
<1> USE DEF TypeOK, row, paystack, history, Accepted
<1>1. ASSUME NEW s \in Slots, Begin(s)
      PROVE  UNCHANGED <<charge, balanceCharge, transfers, events>> /\ (cause => cause')
  BY <1>1, BeginReads DEF ledger
<1>2. ASSUME NEW s \in Slots, StartBalanceSave(s)
      PROVE  /\ UNCHANGED <<charge, transfers, events, cause>>
             /\ \A ref \in BalanceRefs :
                    balanceCharge[ref] = "success" => balanceCharge'[ref] = "success"
  BY <1>2 DEF StartBalanceSave
<1>3. ASSUME NEW s \in Slots, TransferCall(s)
      PROVE  /\ UNCHANGED <<charge, balanceCharge, cause>>
             /\ events \subseteq events'
             /\ \A ref \in TransferRefs : Accepted(ref) => Accepted(ref)'
  <2>1. \/ UNCHANGED <<transfers, events>>
        \/ \E state \in {"pending", "otp", "success"} :
               /\ transfers' = [transfers EXCEPT ![TransferReference] = state]
               /\ events' = IF state = "success" THEN events \cup {"success"} ELSE events
               /\ transfers[TransferReference] = "none"
    BY <1>3 DEF TransferCall
  <2> QED
    BY <1>3, <2>1 DEF TransferCall, TransferReference, TransferRefs
<1>4. ASSUME NEW s \in Slots, Continue(s) \/ Crash(s), ~StartBalanceSave(s), ~TransferCall(s)
      PROVE  UNCHANGED <<charge, balanceCharge, transfers, events>> /\ (cause => cause')
  BY <1>4
     DEF Continue, Crash, VerifyAsk, VerifyBalanceAsk, VerifyConfirm, ConfirmOrder,
         VerifyBalanceConfirm, ConfirmBalance, ReadySave, DeliverSave, ReceiveSave,
         ProblemSave, StaffClearSave, ReleaseLock, SettleSave, Settle, RefundCall,
         RefundSave
<1>5. ASSUME NEW ref \in BalanceRefs, BuyerPaysBalance(ref)
      PROVE  /\ UNCHANGED <<charge, transfers, events, cause>>
             /\ \A r \in BalanceRefs :
                    balanceCharge[r] = "success" => balanceCharge'[r] = "success"
  BY <1>5 DEF BuyerPaysBalance
<1>6. ASSUME NEW ref \in TransferRefs, TransferEnds(ref)
      PROVE  /\ UNCHANGED <<charge, balanceCharge, cause>>
             /\ events \subseteq events'
             /\ \A r \in TransferRefs : Accepted(r) => Accepted(r)'
  BY <1>6 DEF TransferEnds
<1>7. ASSUME Outside,
             ~\E ref \in BalanceRefs : BuyerPaysBalance(ref),
             ~\E ref \in TransferRefs : TransferEnds(ref)
      PROVE  /\ charge = "success" => charge' = "success"
             /\ UNCHANGED <<balanceCharge, transfers, events>> /\ (cause => cause')
  BY <1>7
     DEF Outside, InitializeOk, InitializeFails, BuyerPays, ChargeWebhook, ConfirmOrder,
         BalanceWebhook, ConfirmBalance, HandoverAges, TransferWebhook, Settle,
         ChangeAccount, DashboardRefund
<1>8. CASE UNCHANGED vars
  BY <1>8 DEF vars
<1> QED
  BY <1>1, <1>2, <1>3, <1>4, <1>5, <1>6, <1>7, <1>8 DEF Next

LEMMA PaidForGrows ==
    ASSUME TypeOK, [Next]_vars
    PROVE  /\ BalanceReceived => BalanceReceived'
           /\ PaidFor => PaidFor'
BY OnlyGrows, PlanIsFixed DEF PaidFor, BalanceReceived

-----------------------------------------------------------------------------
(* Each part of the invariant is kept.                                     *)

LEMMA GrantedConfirm ==
    ASSUME TypeOK, GrantedOnce, NEW said, said = "success" => charge = "success",
           ConfirmOrder(said)
    PROVE  GrantedOnce'
BY DEF TypeOK, GrantedOnce, ConfirmOrder, row, paystack, history

LEMMA GrantedStep ==
    ASSUME TypeOK, GrantedOnce, AnswersStayTrue, [Next]_vars
    PROVE  GrantedOnce'
<1>1. ASSUME NEW s \in Slots, VerifyConfirm(s)
      PROVE  GrantedOnce'
  BY <1>1, GrantedConfirm DEF VerifyConfirm, AnswersStayTrue
<1>2. ASSUME NEW s \in Slots, Begin(s) \/ Continue(s) \/ Crash(s), ~VerifyConfirm(s)
      PROVE  GrantedOnce'
  BY <1>2, FirstPaymentFrame DEF GrantedOnce
<1>3. CASE ChargeWebhook
  BY <1>3, GrantedConfirm DEF ChargeWebhook
<1>4. CASE InitializeFails
  BY <1>4 DEF InitializeFails, GrantedOnce, history, paystack
<1>5. CASE Outside /\ ~InitializeFails /\ ~ChargeWebhook
  BY <1>5, OutsideFrame, OnlyGrows DEF GrantedOnce
<1>6. CASE UNCHANGED vars
  BY <1>6 DEF vars, row, paystack, history, GrantedOnce
<1> QED
  BY <1>1, <1>2, <1>3, <1>4, <1>5, <1>6 DEF Next

LEMMA AnswersStep ==
    ASSUME TypeOK, AnswersStayTrue, [Next]_vars
    PROVE  AnswersStayTrue'
<1>1. ASSUME NEW s \in Slots, Begin(s) \/ Continue(s) \/ Crash(s)
      PROVE  AnswersStayTrue'
  <2> SUFFICES ASSUME NEW t \in Slots, req'[t] # req[t]
               PROVE  /\ req'[t].at = "verifyBalance" => req'[t].ref \in BalanceRefs
                      /\ req'[t].at = "confirm" /\ req'[t].said = "success" => charge' = "success"
                      /\ req'[t].at = "confirmBalance" /\ req'[t].said = "success"
                             => /\ req'[t].ref \in BalanceRefs
                                /\ balanceCharge'[req'[t].ref] = "success"
                      /\ req'[t].at = "settle" => req'[t].said \in {"released", "failed"}
                      /\ req'[t].at = "settle" /\ req'[t].said = "released"
                             => "success" \in events'
    BY OnlyGrows DEF AnswersStayTrue, At
  <2> USE DEF TypeOK, Done, Goto, GotoWith, row, paystack, history
  <2>1. CASE VerifyAsk(s) \/ VerifyBalanceAsk(s)
    BY <2>1 DEF VerifyAsk, VerifyBalanceAsk, AnswersStayTrue, At
  <2>2. CASE VerifyBalanceRead(s)
    BY <2>2 DEF VerifyBalanceRead
  <2>3. CASE TransferCall(s)
    BY <2>3 DEF TransferCall, TransferAnswered
  <2>4. CASE Begin(s) /\ ~VerifyBalanceRead(s)
    BY <2>4
       DEF Begin, VerifyRead, ReadyRead, StartBalanceRead, DeliverRead, ReceiveRead,
           ProblemRead, DailyPick, StaffReleaseRead, RefundRead, MarkRefunded
  <2>5. CASE (Continue(s) \/ Crash(s)) /\ ~TransferCall(s) /\ ~VerifyAsk(s) /\ ~VerifyBalanceAsk(s)
    BY <2>5
       DEF Continue, Crash, VerifyConfirm, VerifyBalanceConfirm, ReadySave,
           StartBalanceSave, DeliverSave, ReceiveSave, ProblemSave, StaffClearSave,
           ReleaseLock, SettleSave, RefundCall, RefundSave
  <2> QED
    BY <1>1, <2>1, <2>2, <2>3, <2>4, <2>5
<1>2. CASE Outside \/ UNCHANGED vars
  <2>1. UNCHANGED req
    BY <1>2, OutsideFrame DEF vars
  <2> QED
    BY <2>1, OnlyGrows DEF AnswersStayTrue, At
<1> QED
  BY <1>1, <1>2 DEF Next

\* Who writes the order's balance.
LEMMA BalanceFrame ==
    ASSUME NEW s \in Slots, Begin(s) \/ Continue(s) \/ Crash(s),
           ~VerifyConfirm(s), ~VerifyBalanceConfirm(s), ~ReadySave(s)
    PROVE  UNCHANGED <<plan, status, balance>>
<1> USE DEF row
<1>1. CASE Begin(s)
  BY <1>1, BeginReads DEF ledger
<1>2. CASE Crash(s)
  BY <1>2 DEF Crash
<1>3. CASE Continue(s)
  BY <1>3
     DEF Continue, VerifyAsk, VerifyBalanceAsk, StartBalanceSave, DeliverSave, ReceiveSave,
         ProblemSave, StaffClearSave, ReleaseLock, TransferCall, SettleSave, Settle,
         RefundCall, RefundSave
<1> QED
  BY <1>1, <1>2, <1>3

LEMMA BalanceStep ==
    ASSUME TypeOK, AnswersStayTrue, BalanceIsHonest, [Next]_vars
    PROVE  BalanceIsHonest'
<1>1. ASSUME NEW said, ConfirmOrder(said)
      PROVE  BalanceIsHonest'
  BY <1>1, PaidForGrows DEF ConfirmOrder, BalanceIsHonest, row
<1>2. ASSUME NEW ref \in BalanceRefs, NEW said, ConfirmBalance(ref, said),
             said = "success" => balanceCharge[ref] = "success"
      PROVE  BalanceIsHonest'
  <2>1. CASE balance' = "paid" /\ balance # "paid"
    <3>1. BalanceReceived /\ UNCHANGED <<plan, status>>
      BY <1>2, <2>1 DEF ConfirmBalance, BalanceReceived, row
    <3> QED
      BY <2>1, <3>1, PaidForGrows DEF BalanceIsHonest
  <2>2. CASE UNCHANGED balance
    <3>1. UNCHANGED <<plan, status>>
      BY <1>2 DEF ConfirmBalance, row
    <3> QED
      BY <2>2, <3>1, PaidForGrows DEF BalanceIsHonest
  <2> QED
    BY <1>2, <2>1, <2>2 DEF ConfirmBalance, row
<1>3. ASSUME NEW s \in Slots, VerifyConfirm(s)
      PROVE  BalanceIsHonest'
  BY <1>1, <1>3 DEF VerifyConfirm
<1>4. ASSUME NEW s \in Slots, VerifyBalanceConfirm(s)
      PROVE  BalanceIsHonest'
  <2>1. CASE req[s].ref \in BalanceRefs
    BY <1>2, <1>4, <2>1 DEF VerifyBalanceConfirm, AnswersStayTrue
  <2>2. CASE req[s].ref \notin BalanceRefs
    BY <1>4, <2>2, PaidForGrows
       DEF VerifyBalanceConfirm, ConfirmBalance, AnswersStayTrue, BalanceIsHonest, row
  <2> QED
    BY <2>1, <2>2
<1>5. ASSUME NEW s \in Slots, ReadySave(s)
      PROVE  BalanceIsHonest'
  BY <1>5 DEF ReadySave, BalanceIsHonest
<1>6. ASSUME NEW s \in Slots, Begin(s) \/ Continue(s) \/ Crash(s),
             ~VerifyConfirm(s), ~VerifyBalanceConfirm(s), ~ReadySave(s)
      PROVE  BalanceIsHonest'
  BY <1>6, BalanceFrame, PaidForGrows DEF BalanceIsHonest
<1>7. CASE ChargeWebhook
  BY <1>1, <1>7 DEF ChargeWebhook
<1>8. CASE \E ref \in BalanceRefs : BalanceWebhook(ref)
  BY <1>2, <1>8 DEF BalanceWebhook
<1>9. CASE Outside /\ ~ChargeWebhook /\ ~\E ref \in BalanceRefs : BalanceWebhook(ref)
  <2>1. UNCHANGED <<plan, balance>> /\ (status' = "paid" => status = "paid")
    BY <1>9
       DEF Outside, InitializeOk, InitializeFails, BuyerPays, BuyerPaysBalance,
           HandoverAges, TransferEnds, TransferWebhook, Settle, ChangeAccount,
           DashboardRefund, row
  <2> QED
    BY <2>1, PaidForGrows DEF BalanceIsHonest
<1>10. CASE UNCHANGED vars
  BY <1>10 DEF vars, row, paystack, BalanceIsHonest, BalanceReceived
<1> QED
  BY <1>3, <1>4, <1>5, <1>6, <1>7, <1>8, <1>9, <1>10 DEF Next

\* Where a request of another slot is does not change; this one's new place
\* follows from its old one.
LEMMA CauseStep ==
    ASSUME TypeOK, AnswersStayTrue, CauseComesFirst, EventsAreOfTransfers, [Next]_vars
    PROVE  CauseComesFirst'
<1> SUFFICES ASSUME ~cause'
             PROVE  CauseComesFirst'
  BY DEF CauseComesFirst
<1>1. /\ ~cause /\ stage # "received" /\ ~overdue /\ payout \notin {"sending", "released"}
      /\ events = {} /\ \A ref \in TransferRefs : ~Accepted(ref)
      /\ \A s \in Slots : req[s].at \notin {"clear", "release", "transfer", "settle"}
  BY OnlyGrows DEF CauseComesFirst
<1> SUFFICES /\ stage' # "received" /\ ~overdue' /\ payout' \notin {"sending", "released"}
             /\ UNCHANGED <<events, transfers>>
             /\ \A s \in Slots : req'[s].at \notin {"clear", "release", "transfer", "settle"}
  BY <1>1 DEF CauseComesFirst, Accepted
<1> USE DEF At, row, paystack, history
<1>2. ASSUME NEW s \in Slots, Begin(s)
      PROVE  /\ stage' # "received" /\ UNCHANGED ledger
             /\ \A t \in Slots : req'[t].at \notin {"clear", "release", "transfer", "settle"}
  BY <1>1, <1>2
     DEF TypeOK, Begin, Goto, GotoWith, ledger, VerifyRead, VerifyBalanceRead, ReadyRead,
         StartBalanceRead, DeliverRead, ReceiveRead, ProblemRead, DailyPick, DueForRelease,
         StaffReleaseRead, RefundRead, MarkRefunded
<1>3. ASSUME NEW s \in Slots, Continue(s) \/ Crash(s)
      PROVE  /\ stage' # "received" /\ (overdue' => overdue) /\ UNCHANGED <<events, transfers>>
             /\ payout' \in {payout, "refunded"}
             /\ \A t \in Slots : req'[t].at \notin {"clear", "release", "transfer", "settle"}
  BY <1>1, <1>3
     DEF TypeOK, Continue, Crash, VerifyAsk, VerifyBalanceAsk, Done, Goto, GotoWith,
         VerifyConfirm, ConfirmOrder, VerifyBalanceConfirm, ConfirmBalance, ReadySave,
         StartBalanceSave, DeliverSave, ReceiveSave, ProblemSave, StaffClearSave,
         ReleaseLock, TransferCall, SettleSave, RefundCall, RefundSave, RefundedPayout
<1>4. CASE Outside
  BY <1>1, <1>4
     DEF Outside, InitializeOk, InitializeFails, BuyerPays, ChargeWebhook, ConfirmOrder,
         BuyerPaysBalance, BalanceWebhook, ConfirmBalance, HandoverAges, TransferEnds,
         Accepted, TransferWebhook, ChangeAccount, DashboardRefund
<1>5. CASE UNCHANGED vars
  BY <1>1, <1>5 DEF vars
<1> QED
  BY <1>1, <1>2, <1>3, <1>4, <1>5 DEF Next, ledger, TypeOK

\* The only two steps that make a request transfer, or Paystack accept.
LEMMA TransferFrame ==
    ASSUME TypeOK, [Next]_vars
    PROVE  /\ \A t \in Slots : At(t, "transfer")' => At(t, "transfer") \/ ReleaseLock(t)
           /\ \A ref \in TransferRefs :
                  Accepted(ref)' => \/ Accepted(ref)
                                    \/ /\ ref = TransferReference
                                       /\ \E s \in Slots : TransferCall(s)
<1> USE DEF At, Accepted, TypeOK, Done, Goto, GotoWith, row, paystack, history
<1>1. ASSUME NEW s \in Slots, Begin(s)
      PROVE  /\ UNCHANGED transfers
             /\ \A t \in Slots : At(t, "transfer")' => At(t, "transfer")
  BY <1>1
     DEF Begin, VerifyRead, VerifyBalanceRead, ReadyRead, StartBalanceRead, DeliverRead,
         ReceiveRead, ProblemRead, DailyPick, StaffReleaseRead, RefundRead, MarkRefunded
<1>2. ASSUME NEW s \in Slots, TransferCall(s)
      PROVE  /\ \A ref \in TransferRefs : Accepted(ref)' => Accepted(ref) \/ ref = TransferReference
             /\ \A t \in Slots : At(t, "transfer")' => At(t, "transfer")
  <2>1. \A ref \in TransferRefs : Accepted(ref)' => Accepted(ref) \/ ref = TransferReference
    BY <1>2 DEF TransferCall, TransferReference, TransferRefs
  <2>2. \A t \in Slots : At(t, "transfer")' => At(t, "transfer")
    BY <1>2 DEF TransferCall, TransferAnswered
  <2> QED
    BY <2>1, <2>2
<1>3. ASSUME NEW s \in Slots, Continue(s) \/ Crash(s), ~TransferCall(s)
      PROVE  /\ UNCHANGED transfers
             /\ \A t \in Slots : At(t, "transfer")' => At(t, "transfer") \/ ReleaseLock(t)
  <2>1. UNCHANGED transfers
    BY <1>3
       DEF Continue, Crash, VerifyAsk, VerifyBalanceAsk, VerifyConfirm, ConfirmOrder,
           VerifyBalanceConfirm, ConfirmBalance, ReadySave, StartBalanceSave, DeliverSave,
           ReceiveSave, ProblemSave, StaffClearSave, ReleaseLock, SettleSave, Settle,
           RefundCall, RefundSave
  <2>2. CASE ReleaseLock(s)
    BY <1>3, <2>1, <2>2 DEF ReleaseLock
  <2>3. CASE ~ReleaseLock(s)
    BY <1>3, <2>1, <2>3
       DEF Continue, Crash, VerifyAsk, VerifyBalanceAsk, VerifyConfirm,
           VerifyBalanceConfirm, ReadySave, StartBalanceSave, DeliverSave, ReceiveSave,
           ProblemSave, StaffClearSave, SettleSave, RefundCall, RefundSave
  <2> QED
    BY <2>2, <2>3
<1>4. CASE Outside \/ UNCHANGED vars
  <2>1. UNCHANGED req
    BY <1>4, OutsideFrame DEF vars
  <2>2. \A ref \in TransferRefs : Accepted(ref)' => Accepted(ref)
    BY <1>4
       DEF Outside, vars, InitializeOk, InitializeFails, BuyerPays, ChargeWebhook,
           ConfirmOrder, BuyerPaysBalance, BalanceWebhook, ConfirmBalance, HandoverAges,
           TransferEnds, TransferWebhook, Settle, ChangeAccount, DashboardRefund
  <2> QED
    BY <2>1, <2>2
<1> QED
  BY <1>1, <1>2, <1>3, <1>4 DEF Next

LEMMA TransferStep ==
    ASSUME TypeOK, GrantedOnce, BalanceIsHonest, TransferIsPaidFor, [Next]_vars
    PROVE  TransferIsPaidFor'
<1>1. ASSUME NEW t \in Slots, ReleaseLock(t), At(t, "transfer")'
      PROVE  PaidFor
  <2>1. MayRelease \/ At(t, "transfer")
    BY <1>1 DEF ReleaseLock, Done, Goto, GotoWith, At, TypeOK
  <2>2. CASE MayRelease
    BY <2>2 DEF MayRelease, FullyPaid, GrantedOnce, BalanceIsHonest, PaidFor
  <2> QED
    BY <2>1, <2>2 DEF TransferIsPaidFor
<1>2. ASSUME NEW s \in Slots, TransferCall(s)
      PROVE  PaidFor
  BY <1>2 DEF TransferCall, TransferIsPaidFor
<1> QED
  BY <1>1, <1>2, TransferFrame, PaidForGrows DEF TransferIsPaidFor

LEMMA ReferenceStep ==
    ASSUME TypeOK, OneReference, [Next]_vars
    PROVE  OneReference'
BY TransferFrame DEF OneReference, TransferReference

LEMMA EventsStep ==
    ASSUME TypeOK, EventsAreOfTransfers, [Next]_vars
    PROVE  EventsAreOfTransfers'
<1> SUFFICES ASSUME events = {}, events' # {}
             PROVE  \E ref \in TransferRefs : Accepted(ref)'
  BY OnlyGrows DEF EventsAreOfTransfers
<1> USE DEF Accepted, row, paystack, history
<1>1. ASSUME NEW s \in Slots, TransferCall(s)
      PROVE  \E ref \in TransferRefs : Accepted(ref)'
  BY <1>1 DEF TransferCall, TransferReference, TransferRefs, TypeOK
<1>2. ASSUME NEW s \in Slots, Begin(s) \/ Continue(s) \/ Crash(s), ~TransferCall(s)
      PROVE  FALSE
  BY <1>2, BeginReads
     DEF ledger, Continue, Crash, VerifyAsk, VerifyBalanceAsk, VerifyConfirm, ConfirmOrder,
         VerifyBalanceConfirm, ConfirmBalance, ReadySave, StartBalanceSave, DeliverSave,
         ReceiveSave, ProblemSave, StaffClearSave, ReleaseLock, SettleSave, Settle,
         RefundCall, RefundSave
<1>3. CASE \E ref \in TransferRefs : TransferEnds(ref)
  BY <1>3, OnlyGrows DEF TransferEnds
<1>4. CASE Outside /\ ~\E ref \in TransferRefs : TransferEnds(ref)
  BY <1>4
     DEF Outside, InitializeOk, InitializeFails, BuyerPays, ChargeWebhook, ConfirmOrder,
         BuyerPaysBalance, BalanceWebhook, ConfirmBalance, HandoverAges, TransferWebhook,
         Settle, ChangeAccount, DashboardRefund
<1>5. CASE UNCHANGED vars
  BY <1>5 DEF vars
<1> QED
  BY <1>1, <1>2, <1>3, <1>4, <1>5 DEF Next

\* Who writes the payout.
LEMMA PayoutFrame ==
    ASSUME [Next]_vars
    PROVE  \/ UNCHANGED payout
           \/ \E s \in Slots : ReleaseLock(s) \/ SettleSave(s) \/ RefundSave(s)
           \/ \E event \in {"success", "failed", "reversed"} : TransferWebhook(event)
<1> USE DEF row
<1>1. ASSUME NEW s \in Slots, Begin(s) \/ Continue(s) \/ Crash(s),
             ~ReleaseLock(s), ~SettleSave(s), ~RefundSave(s)
      PROVE  UNCHANGED payout
  BY <1>1, BeginReads
     DEF ledger, Continue, Crash, VerifyAsk, VerifyBalanceAsk, VerifyConfirm, ConfirmOrder,
         VerifyBalanceConfirm, ConfirmBalance, ReadySave, StartBalanceSave, DeliverSave,
         ReceiveSave, ProblemSave, StaffClearSave, TransferCall, RefundCall
<1>2. CASE Outside /\ ~\E event \in {"success", "failed", "reversed"} : TransferWebhook(event)
  BY <1>2
     DEF Outside, InitializeOk, InitializeFails, BuyerPays, ChargeWebhook, ConfirmOrder,
         BuyerPaysBalance, BalanceWebhook, ConfirmBalance, HandoverAges, TransferEnds,
         ChangeAccount, DashboardRefund
<1>3. CASE UNCHANGED vars
  BY <1>3 DEF vars
<1> QED
  BY <1>1, <1>2, <1>3 DEF Next

LEMMA ReleasedStep ==
    ASSUME TypeOK, ReleasedMeansSent, AnswersStayTrue, [Next]_vars
    PROVE  ReleasedMeansSent'
<1> SUFFICES ASSUME payout # "released", payout' = "released"
             PROVE  "success" \in events
  BY OnlyGrows DEF ReleasedMeansSent
<1>1. ASSUME NEW s \in Slots, ReleaseLock(s) \/ SettleSave(s) \/ RefundSave(s)
      PROVE  "success" \in events
  BY <1>1 DEF ReleaseLock, SettleSave, Settle, RefundSave, RefundedPayout, AnswersStayTrue
<1>2. ASSUME NEW event, TransferWebhook(event)
      PROVE  "success" \in events
  BY <1>2 DEF TransferWebhook, Settle
<1> QED
  BY <1>1, <1>2, PayoutFrame

\* Only the transfer call's answer is settled.
LEMMA SettleFrame ==
    ASSUME TypeOK, [Next]_vars
    PROVE  \A t \in Slots : At(t, "settle")' => At(t, "settle") \/ At(t, "transfer")
<1> USE DEF At, TypeOK, Done, Goto, GotoWith, row, paystack, history
<1>1. ASSUME NEW s \in Slots, TransferCall(s)
      PROVE  \A t \in Slots : At(t, "settle")' => At(t, "settle") \/ At(t, "transfer")
  BY <1>1 DEF TransferCall, TransferAnswered
<1>2. ASSUME NEW s \in Slots, Begin(s) \/ Continue(s) \/ Crash(s), ~TransferCall(s)
      PROVE  \A t \in Slots : At(t, "settle")' => At(t, "settle")
  BY <1>2
     DEF Begin, VerifyRead, VerifyBalanceRead, ReadyRead, StartBalanceRead, DeliverRead,
         ReceiveRead, ProblemRead, DailyPick, StaffReleaseRead, RefundRead, MarkRefunded,
         Continue, Crash, VerifyAsk, VerifyBalanceAsk, VerifyConfirm, VerifyBalanceConfirm,
         ReadySave, StartBalanceSave, DeliverSave, ReceiveSave, ProblemSave,
         StaffClearSave, ReleaseLock, SettleSave, RefundCall, RefundSave
<1>3. CASE Outside \/ UNCHANGED vars
  BY <1>3, OutsideFrame DEF vars
<1> QED
  BY <1>1, <1>2, <1>3 DEF Next

\* What an untouched order's steps are.
LEMMA SplitStep ==
    ASSUME TypeOK, SplitIsUntouched, AnswersStayTrue, EventsAreOfTransfers, [Next]_vars
    PROVE  /\ SplitIsUntouched'
           /\ payout = "split" => payout' = "split" /\ UNCHANGED transfers
<1>1. ASSUME payout' = "split"
      PROVE  payout = "split"
  <2>1. ASSUME NEW s \in Slots, ReleaseLock(s) \/ SettleSave(s) \/ RefundSave(s)
        PROVE  payout = "split"
    BY <1>1, <2>1
       DEF ReleaseLock, SettleSave, Settle, RefundSave, RefundedPayout, AnswersStayTrue
  <2>2. ASSUME NEW event, TransferWebhook(event)
        PROVE  payout = "split"
    BY <1>1, <2>2 DEF TransferWebhook, Settle
  <2> QED
    BY <1>1, <2>1, <2>2, PayoutFrame
<1>2. ASSUME payout = "split"
      PROVE  SplitIsUntouched' /\ payout' = "split" /\ UNCHANGED transfers
  <2>1. /\ \A ref \in TransferRefs : ~Accepted(ref)
        /\ events = {}
        /\ \A s \in Slots : req[s].at \notin {"transfer", "settle"}
    BY <1>2 DEF SplitIsUntouched
  <2>2. payout' = "split"
    <3>1. ASSUME NEW s \in Slots, ReleaseLock(s) \/ SettleSave(s) \/ RefundSave(s)
          PROVE  payout' = "split"
      BY <1>2, <2>1, <3>1
         DEF ReleaseLock, MayRelease, SettleSave, At, RefundSave, RefundedPayout
    <3>2. ASSUME NEW event, TransferWebhook(event)
          PROVE  FALSE
      BY <2>1, <3>2 DEF TransferWebhook
    <3> QED
      BY <1>2, <3>1, <3>2, PayoutFrame
  <2>3. UNCHANGED transfers /\ events' = {}
    <3>1. ASSUME NEW s \in Slots, TransferCall(s)
          PROVE  FALSE
      BY <2>1, <3>1 DEF TransferCall, At
    <3>2. \A ref \in TransferRefs : ~Accepted(ref)'
      BY <2>1, <3>1, TransferFrame
    <3>3. transfers' = transfers
      BY <2>1, <3>2, TypeStep DEF Accepted, TypeOK
    <3> QED
      BY <3>2, <3>3, EventsStep DEF EventsAreOfTransfers
  <2>4. \A s \in Slots : req'[s].at \notin {"transfer", "settle"}
    <3>1. \A s \in Slots : At(s, "transfer")' => At(s, "transfer") \/ ReleaseLock(s)
      BY TransferFrame
    <3>2. \A s \in Slots : ReleaseLock(s) => ~At(s, "transfer")'
      BY <1>2 DEF ReleaseLock, MayRelease, At, Done, Goto, GotoWith, TypeOK
    <3>3. \A s \in Slots : ~At(s, "settle")'
      BY <2>1, SettleFrame DEF At
    <3> QED
      BY <2>1, <3>1, <3>2, <3>3 DEF At
  <2> QED
    BY <2>1, <2>2, <2>3, <2>4 DEF SplitIsUntouched, Accepted
<1> QED
  BY <1>1, <1>2 DEF SplitIsUntouched

-----------------------------------------------------------------------------
(* The invariant, and the theorems.                                        *)

LEMMA IInvInit ==
    ASSUME Init
    PROVE  IInv
<1> USE DEF Init, At
<1>1. TypeOK
  BY DEF TypeOK, Statuses, Balances, Stages, Payouts, ChargeStates, TransferStates, Steps,
         Answers, NoRef
<1>2. GrantedOnce /\ ReleasedMeansSent /\ AnswersStayTrue /\ BalanceIsHonest
  BY DEF GrantedOnce, ReleasedMeansSent, AnswersStayTrue, BalanceIsHonest
<1>3. CauseComesFirst /\ TransferIsPaidFor /\ SplitIsUntouched
  BY DEF CauseComesFirst, TransferIsPaidFor, SplitIsUntouched, Accepted
<1>4. OneReference /\ EventsAreOfTransfers
  BY DEF OneReference, EventsAreOfTransfers, Accepted
<1> QED
  BY <1>1, <1>2, <1>3, <1>4 DEF IInv

LEMMA IInvStep ==
    ASSUME IInv, [Next]_vars
    PROVE  IInv'
BY TypeStep, GrantedStep, ReleasedStep, AnswersStep, BalanceStep, CauseStep, TransferStep,
   SplitStep, ReferenceStep, EventsStep
   DEF IInv

\* Whatever requests run, however many at once and whichever of them die, the
\* invariant holds.
THEOREM Invariance == Spec => []IInv
<1>1. Init => IInv
  BY IInvInit
<1>2. IInv /\ [Next]_vars => IInv'
  BY IInvStep
<1> QED
  BY <1>1, <1>2, PTL DEF Spec

\* Every variable keeps its type: no path leaves the row in a state the
\* model's Order fields cannot hold.
THEOREM TypeCorrect == Spec => []TypeOK
<1>1. IInv => TypeOK
  BY DEF IInv
<1> QED
  BY <1>1, Invariance, PTL

\* confirm_order acts on the first payment once, for the exact amount.
THEOREM ConfirmsOnce == Spec => []GrantedOnce
<1>1. IInv => GrantedOnce
  BY DEF IInv
<1> QED
  BY <1>1, Invariance, PTL

\* Paystack accepts at most one transfer for an order.
THEOREM PaysSellerOnce == Spec => []TransferredOnce
<1>1. IInv => TransferredOnce
  BY DEF IInv, OneReference, TransferredOnce
<1> QED
  BY <1>1, Invariance, PTL

\* A payout starts only after the buyer, the release days or staff said so.
THEOREM PaysWithCause == Spec => []PayoutHasCause
<1>1. IInv => PayoutHasCause
  BY DEF IInv, CauseComesFirst, PayoutHasCause
<1> QED
  BY <1>1, Invariance, PTL

\* A payout recorded as released is of a transfer that succeeded.
THEOREM RecordsTruth == Spec => []ReleasedMeansSent
<1>1. IInv => ReleasedMeansSent
  BY DEF IInv
<1> QED
  BY <1>1, Invariance, PTL

\* Without pay-on-collection orders, a transfer never exceeds what the buyer
\* has paid in, for any amounts.
THEOREM PaysFromTheOrder ==
    ASSUME "collect" \notin Plans
    PROVE  Spec => []NeverSendsMoreThanReceived
<1>1. IInv => NeverSendsMoreThanReceived
  <2> SUFFICES ASSUME IInv, NEW ref \in TransferRefs, Accepted(ref)
               PROVE  SellerShare <= Received
    BY DEF NeverSendsMoreThanReceived
  <2>1. charge = "success" /\ (plan = "deposit" => BalanceReceived)
    BY DEF IInv, TransferIsPaidFor, PaidFor
  <2>2. plan \in {"full", "deposit"}
    BY EscrowAssumption DEF IInv, TypeOK
  <2> QED
    BY <2>1, <2>2, EscrowAssumption DEF SellerShare, Received
<1> QED
  BY <1>1, Invariance, PTL

\* An order paid by Paystack's split stays one, and no transfer is made for it.
THEOREM SplitIsNeverTransferred == Spec => SplitStaysSplit
<1>1. IInv /\ [Next]_vars
          => [payout = "split" => payout' = "split" /\ UNCHANGED transfers]_vars
  BY SplitStep DEF IInv
<1> QED
  BY <1>1, Invariance, PTL DEF Spec, SplitStaysSplit

\* A released payout is not put back in line.
THEOREM ReleasedStays == Spec => ReleasedIsFinal
<1>1. IInv /\ [Next]_vars
          => [payout = "released" => payout' \in {"released", "refunded"}]_vars
  <2> SUFFICES ASSUME payout = "released", [Next]_vars
               PROVE  payout' \in {"released", "refunded"}
    OBVIOUS
  <2>1. ASSUME NEW s \in Slots, ReleaseLock(s) \/ SettleSave(s) \/ RefundSave(s)
        PROVE  payout' \in {"released", "refunded"}
    BY <2>1 DEF ReleaseLock, MayRelease, SettleSave, Settle, RefundSave, RefundedPayout
  <2>2. ASSUME NEW event, TransferWebhook(event)
        PROVE  payout' \in {"released", "refunded"}
    BY <2>2 DEF TransferWebhook, Settle
  <2> QED
    BY <2>1, <2>2, PayoutFrame
<1> QED
  BY <1>1, Invariance, PTL DEF Spec, ReleasedIsFinal

-----------------------------------------------------------------------------
(* Buyer protection: OrderEscrow implements EscrowPromise when one request *)
(* at a time works on an order, none of them dies and Paystack's answers   *)
(* arrive.  Paystack may still refuse, fail or reverse, its webhooks come  *)
(* whenever they like, and the seller may change the payout account.       *)

\* What the theorems below ask of the deployment.
OneAtATime ==
    /\ \A s, t \in Slots : s = t
    /\ "lost" \notin Faults /\ "crash" \notin Faults

-----------------------------------------------------------------------------
(* The inductive invariant, on top of IInv.                                *)

\* The seller has the money, or is on the way to it.
SentToSeller == transfers[TransferReference] \in {"pending", "success"}

\* A transfer that stands is one the row knows of, and the webhooks that say
\* otherwise are about a transfer that does not.
RowKnowsTransfer ==
    /\ SentToSeller => payout \in {"sending", "released"} /\ refunded # "api"
    /\ "failed" \in events => transfers[TransferReference] = "failed"
    /\ "reversed" \in events => transfers[TransferReference] = "reversed"

\* A refund made through the API is on the row, or the request that made it is
\* about to put it there.
RowKnowsRefund ==
    refunded = "api" => stage = "refunded" \/ \E s \in Slots : At(s, "recordRefund")

RowKnowsProblem == problemOpen => stage = "problem"

\* Nothing happens to the order's money before its first payment.
PaymentComesFirst ==
    status # "paid" =>
        /\ ~SentToSeller /\ refunded # "api" /\ ~problemOpen
        /\ balance = "none"
        /\ \A s \in Slots : req[s].at \notin {"ready", "problem", "transfer", "refund"}

BalanceInOrder == balance \in {"none", "waiting"} => balanceRef = NoRef

\* What the only request read is still so when it saves.
ReadIsCurrent ==
    \A s \in Slots :
        /\ At(s, "ready") => balance = "waiting"
        /\ At(s, "startBalance") => balance \in {"due", "paid"}
        /\ At(s, "deliver") => stage = "new"
        /\ At(s, "receive") => stage \notin {"problem", "refunded"}
        /\ At(s, "problem") => stage # "refunded"
        /\ At(s, "clear") => stage = "problem" /\ ~problemOpen
        /\ At(s, "transfer") =>
               /\ ~problemOpen /\ refunded # "api"
               /\ payout = "sending" \/ events # {}
        /\ At(s, "transfer") \/ At(s, "refund") \/ At(s, "recordRefund") => ~SentToSeller
        /\ At(s, "settle") /\ req[s].said = "failed" => ~SentToSeller

PInv ==
    /\ RowKnowsTransfer
    /\ RowKnowsRefund
    /\ RowKnowsProblem
    /\ PaymentComesFirst
    /\ BalanceInOrder
    /\ ReadIsCurrent

-----------------------------------------------------------------------------
(* The invariant is kept.                                                  *)

\* Where the only request is after a step of its own.
LEMMA OnlyRequest ==
    ASSUME OneAtATime, TypeOK, NEW s \in Slots, NEW step, NEW said, NEW ref,
           GotoWith(s, step, said, ref)
    PROVE  \A t \in Slots : t = s /\ req'[t].at = step /\ req'[t].said = said
BY DEF OneAtATime, TypeOK, GotoWith

LEMMA PromiseInvBegin ==
    ASSUME OneAtATime, IInv, PInv, NEW s \in Slots, Begin(s)
    PROVE  PInv'
<1> USE DEF PInv, RowKnowsTransfer, RowKnowsRefund, RowKnowsProblem, PaymentComesFirst,
            BalanceInOrder, ReadIsCurrent, SentToSeller, OneAtATime, IInv, At, Goto,
            row, paystack, history
<1>1. CASE VerifyRead(s)
  BY <1>1, OnlyRequest DEF VerifyRead
<1>2. CASE VerifyBalanceRead(s)
  BY <1>2, OnlyRequest DEF VerifyBalanceRead
<1>3. CASE ReadyRead(s)
  BY <1>3, OnlyRequest DEF ReadyRead, MayMarkReady
<1>4. CASE StartBalanceRead(s)
  BY <1>4, OnlyRequest DEF StartBalanceRead
<1>5. CASE DeliverRead(s)
  BY <1>5, OnlyRequest DEF DeliverRead
<1>6. CASE ReceiveRead(s)
  BY <1>6, OnlyRequest DEF ReceiveRead, MayReceive
<1>7. CASE ProblemRead(s)
  BY <1>7, OnlyRequest DEF ProblemRead
<1>8. CASE DailyPick(s)
  BY <1>8, OnlyRequest DEF DailyPick
<1>9. CASE StaffReleaseRead(s)
  BY <1>9, OnlyRequest DEF StaffReleaseRead
<1>10. CASE RefundRead(s)
  BY <1>10, OnlyRequest DEF RefundRead, MayRefund
<1>11. CASE MarkRefunded(s)
  BY <1>11 DEF MarkRefunded
<1> QED
  BY <1>1, <1>2, <1>3, <1>4, <1>5, <1>6, <1>7, <1>8, <1>9, <1>10, <1>11 DEF Begin

LEMMA PromiseInvConfirm ==
    ASSUME OneAtATime, IInv, PInv, NEW said, ConfirmOrder(said),
           \/ UNCHANGED req
           \/ \E s \in Slots : At(s, "confirm") /\ Done(s)
    PROVE  PInv'
<1> USE DEF PInv, RowKnowsTransfer, RowKnowsRefund, RowKnowsProblem, PaymentComesFirst,
            BalanceInOrder, ReadIsCurrent, SentToSeller, OneAtATime, IInv, At, Done, Goto
<1>1. CASE UNCHANGED req
  BY <1>1 DEF ConfirmOrder, row, paystack, history
<1>2. ASSUME NEW s \in Slots, At(s, "confirm"), Done(s)
      PROVE  PInv'
  <2>1. \A t \in Slots : t = s /\ req'[t].at = "idle"
    BY <1>2, OnlyRequest
  <2> QED
    BY <1>2, <2>1 DEF ConfirmOrder, row, paystack, history
<1> QED
  BY <1>1, <1>2

LEMMA PromiseInvContinue ==
    ASSUME OneAtATime, IInv, PInv, NEW s \in Slots, Continue(s)
    PROVE  PInv'
<1> USE DEF PInv, RowKnowsTransfer, RowKnowsRefund, RowKnowsProblem, PaymentComesFirst,
            BalanceInOrder, ReadIsCurrent, SentToSeller, OneAtATime, IInv, At, Done, Goto,
            row, paystack, history
<1>1. CASE VerifyAsk(s)
  BY <1>1, OnlyRequest DEF VerifyAsk
<1>2. CASE VerifyConfirm(s)
  BY <1>2, PromiseInvConfirm DEF VerifyConfirm
<1>3. CASE VerifyBalanceAsk(s)
  BY <1>3, OnlyRequest DEF VerifyBalanceAsk
<1>4. CASE VerifyBalanceConfirm(s)
  BY <1>4, OnlyRequest DEF VerifyBalanceConfirm, ConfirmBalance, AnswersStayTrue,
     BalanceRefs, NoRef
<1>5. CASE ReadySave(s)
  BY <1>5, OnlyRequest DEF ReadySave
<1>6. CASE StartBalanceSave(s)
  BY <1>6, OnlyRequest DEF StartBalanceSave
<1>7. CASE DeliverSave(s)
  BY <1>7, OnlyRequest DEF DeliverSave
<1>8. CASE ReceiveSave(s)
  BY <1>8, OnlyRequest DEF ReceiveSave
<1>9. CASE ProblemSave(s)
  BY <1>9, OnlyRequest DEF ProblemSave
<1>10. CASE StaffClearSave(s)
  BY <1>10, OnlyRequest DEF StaffClearSave
<1>11. CASE ReleaseLock(s)
  BY <1>11, OnlyRequest DEF ReleaseLock, MayRelease
<1>12. CASE TransferCall(s)
  <2>1. /\ status = "paid" /\ ~problemOpen /\ refunded # "api" /\ ~SentToSeller
        /\ UNCHANGED <<row, refunded, problemOpen>>
    BY <1>12 DEF TransferCall
  <2>2. CASE UNCHANGED <<transfers, events>> /\ TransferAnswered(s, "refused")
    <3>1. \A t \in Slots : t = s /\ req'[t].at = "settle"
      BY <2>2, OnlyRequest DEF TransferAnswered
    <3> QED
      BY <2>1, <2>2, <3>1
  <2>3. ASSUME NEW state \in {"pending", "otp", "success"},
               transfers[TransferReference] = "none",
               transfers' = [transfers EXCEPT ![TransferReference] = state],
               events' = IF state = "success" THEN events \cup {"success"} ELSE events,
               TransferAnswered(s, state)
        PROVE  PInv'
    <3>1. events = {}
      BY <2>3 DEF EventsAreOfTransfers, OneReference, Accepted
    <3>2. payout = "sending"
      BY <1>12, <3>1 DEF TransferCall
    <3>3. transfers'[TransferReference] = state
      BY <2>3 DEF TypeOK, TransferReference, TransferRefs
    <3>4. \A t \in Slots :
              /\ t = s
              /\ req'[t].at = IF state = "pending" THEN "idle" ELSE "settle"
              /\ state = "success" => req'[t].said = "released"
      BY <2>3, OnlyRequest DEF TransferAnswered
    <3> QED
      BY <2>1, <2>3, <3>1, <3>2, <3>3, <3>4
  <2> QED
    BY <1>12, <2>2, <2>3 DEF TransferCall
<1>13. CASE SettleSave(s)
  BY <1>13, OnlyRequest DEF SettleSave, Settle, AnswersStayTrue
<1>14. CASE RefundCall(s)
  BY <1>14, OnlyRequest DEF RefundCall
<1>15. CASE RefundSave(s)
  BY <1>15, OnlyRequest DEF RefundSave
<1> QED
  BY <1>1, <1>2, <1>3, <1>4, <1>5, <1>6, <1>7, <1>8, <1>9, <1>10, <1>11, <1>12, <1>13,
     <1>14, <1>15
     DEF Continue

LEMMA PromiseInvOutside ==
    ASSUME OneAtATime, IInv, PInv, Outside
    PROVE  PInv'
<1> USE DEF PInv, RowKnowsTransfer, RowKnowsRefund, RowKnowsProblem, PaymentComesFirst,
            BalanceInOrder, ReadIsCurrent, SentToSeller, IInv, At,
            row, paystack, history
<1>1. CASE InitializeOk \/ InitializeFails \/ BuyerPays
  BY <1>1 DEF InitializeOk, InitializeFails, BuyerPays
<1>2. CASE ChargeWebhook
  BY <1>2, PromiseInvConfirm DEF ChargeWebhook
<1>3. CASE \E ref \in BalanceRefs : BuyerPaysBalance(ref)
  BY <1>3 DEF BuyerPaysBalance
<1>4. CASE \E ref \in BalanceRefs : BalanceWebhook(ref)
  BY <1>4 DEF BalanceWebhook, ConfirmBalance, BalanceRefs, NoRef
<1>5. CASE HandoverAges
  BY <1>5 DEF HandoverAges
<1>6. CASE \E ref \in TransferRefs : TransferEnds(ref)
  BY <1>6 DEF TransferEnds, OneReference, Accepted, TypeOK
<1>7. CASE \E event \in {"success", "failed", "reversed"} : TransferWebhook(event)
  BY <1>7 DEF TransferWebhook, Settle
<1>8. CASE ChangeAccount
  BY <1>8 DEF ChangeAccount
<1>9. CASE DashboardRefund
  BY <1>9 DEF DashboardRefund
<1> QED
  BY <1>1, <1>2, <1>3, <1>4, <1>5, <1>6, <1>7, <1>8, <1>9 DEF Outside

LEMMA PromiseInvInit ==
    ASSUME Init
    PROVE  PInv
BY DEF Init, At, TransferReference, TransferRefs, SentToSeller, PInv, RowKnowsTransfer,
       RowKnowsRefund, RowKnowsProblem, PaymentComesFirst, BalanceInOrder, ReadIsCurrent

LEMMA PromiseInvStep ==
    ASSUME OneAtATime, IInv, PInv, [Next]_vars
    PROVE  PInv'
<1>1. CASE \E s \in Slots : Begin(s)
  BY <1>1, PromiseInvBegin
<1>2. CASE \E s \in Slots : Continue(s)
  BY <1>2, PromiseInvContinue
<1>3. CASE \E s \in Slots : Crash(s)
  BY <1>3 DEF Crash, OneAtATime
<1>4. CASE Outside
  BY <1>4, PromiseInvOutside
<1>5. CASE UNCHANGED vars
  BY <1>5
     DEF vars, row, paystack, history, At, SentToSeller, PInv, RowKnowsTransfer,
         RowKnowsRefund, RowKnowsProblem, PaymentComesFirst, BalanceInOrder, ReadIsCurrent
<1> QED
  BY <1>1, <1>2, <1>3, <1>4, <1>5 DEF Next

-----------------------------------------------------------------------------
(* Every step is one of the promise's, or invisible to it.                 *)

LEMMA MoneyIsThere ==
    ASSUME OneReference, OneReference'
    PROVE  /\ SentToSeller => Money = "seller"
           /\ ~SentToSeller /\ refunded = "api" => Money = "returned"
           /\ ~SentToSeller /\ refunded # "api" /\ status = "paid" => Money = "held"
           /\ ~SentToSeller /\ refunded # "api" /\ status # "paid" => Money = "buyer"
           /\ SentToSeller' => Money' = "seller"
           /\ ~SentToSeller' /\ refunded' = "api" => Money' = "returned"
           /\ ~SentToSeller' /\ refunded' # "api" /\ status' = "paid" => Money' = "held"
           /\ ~SentToSeller' /\ refunded' # "api" /\ status' # "paid" => Money' = "buyer"
BY DEF Money, SentToSeller, OneReference, Accepted, TransferReference, TransferRefs

\* A step that leaves alone what the promise is about is invisible to it.
LEMMA Invisible ==
    ASSUME UNCHANGED <<transfers, refunded, status, problemOpen>>
    PROVE  UNCHANGED Promise!promise
BY DEF Promise!promise, Money

LEMMA PromiseBegin ==
    ASSUME IInv, IInv', PInv, NEW s \in Slots, Begin(s)
    PROVE  [Promise!Next]_(Promise!promise)
<1> USE DEF row, paystack, history
<1>1. CASE StaffReleaseRead(s) \/ MarkRefunded(s)
  <2>1. /\ UNCHANGED <<transfers, refunded, status>>
        /\ status = "paid" /\ problemOpen' = FALSE
    BY <1>1 DEF StaffReleaseRead, MarkRefunded
  <2>2. Money # "buyer"
    BY <2>1 DEF Money
  <2>3. UNCHANGED Money
    BY <2>1 DEF Money
  <2> QED
    BY <2>1, <2>2, <2>3 DEF Promise!Next, Promise!Decide
<1>2. CASE ~StaffReleaseRead(s) /\ ~MarkRefunded(s)
  <2>1. UNCHANGED <<transfers, refunded, status, problemOpen>>
    BY <1>2
       DEF Begin, VerifyRead, VerifyBalanceRead, ReadyRead, StartBalanceRead, DeliverRead,
           ReceiveRead, ProblemRead, DailyPick, RefundRead
  <2> QED
    BY <2>1, Invisible
<1> QED
  BY <1>1, <1>2

LEMMA PromiseConfirm ==
    ASSUME IInv, IInv', PInv, NEW said, ConfirmOrder(said)
    PROVE  [Promise!Next]_(Promise!promise)
<1> USE DEF row, paystack, history
<1>1. UNCHANGED <<transfers, refunded, problemOpen>>
  BY DEF ConfirmOrder
<1>2. CASE status # "paid" /\ status' = "paid"
  <2>1. Money = "buyer" /\ Money' = "held"
    BY <1>1, <1>2, MoneyIsThere DEF IInv, PInv, PaymentComesFirst, SentToSeller
  <2> QED
    BY <1>1, <2>1 DEF Promise!Next, Promise!Pay
<1>3. CASE ~(status # "paid" /\ status' = "paid")
  <2>1. status = "paid" <=> status' = "paid"
    BY <1>3 DEF ConfirmOrder
  <2>2. UNCHANGED Money
    BY <1>1, <2>1 DEF Money
  <2> QED
    BY <1>1, <2>2 DEF Promise!promise
<1> QED
  BY <1>2, <1>3

\* The steps of a request that make Paystack send the money somewhere, or say
\* whether a problem is open.
LEMMA PromiseContinue ==
    ASSUME OneAtATime, IInv, IInv', PInv, PInv', NEW s \in Slots, Continue(s)
    PROVE  [Promise!Next]_(Promise!promise)
<1> USE DEF row, paystack, history
<1>1. CASE VerifyConfirm(s)
  BY <1>1, PromiseConfirm DEF VerifyConfirm
<1>2. CASE ProblemSave(s)
  <2>1. status = "paid" /\ UNCHANGED <<transfers, refunded, status>> /\ problemOpen' = TRUE
    BY <1>2 DEF ProblemSave, PInv, PaymentComesFirst, At
  <2>2. Money # "buyer" /\ UNCHANGED Money
    BY <2>1 DEF Money
  <2> QED
    BY <2>1, <2>2 DEF Promise!Next, Promise!Report
<1>3. CASE TransferCall(s)
  <2>1. /\ UNCHANGED <<refunded, status, problemOpen>>
        /\ status = "paid" /\ refunded # "api" /\ ~problemOpen /\ ~SentToSeller
    BY <1>3 DEF TransferCall, PInv, PaymentComesFirst, ReadIsCurrent, At
  <2>2. Money = "held" /\ Money' \in {"held", "seller"}
    BY <2>1, MoneyIsThere DEF IInv
  <2> QED
    BY <2>1, <2>2 DEF Promise!Next, Promise!PayOut, Promise!promise
<1>4. CASE RefundCall(s)
  <2>1. UNCHANGED <<transfers, status, problemOpen>> /\ status = "paid" /\ ~SentToSeller
    BY <1>4 DEF RefundCall, PInv, PaymentComesFirst, ReadIsCurrent, At
  <2>2. refunded' = refunded \/ (refunded = "no" /\ refunded' = "api")
    BY <1>4 DEF RefundCall
  <2>3. Money' = Money \/ (Money = "held" /\ Money' = "returned")
    <3>1. CASE refunded' = refunded
      BY <2>1, <3>1 DEF Money
    <3>2. CASE refunded = "no" /\ refunded' = "api"
      BY <2>1, <3>2, MoneyIsThere DEF IInv, SentToSeller
    <3> QED
      BY <2>2, <3>1, <3>2
  <2> QED
    BY <2>1, <2>3 DEF Promise!Next, Promise!Return, Promise!promise
<1>5. CASE RefundSave(s)
  <2>1. UNCHANGED <<transfers, refunded, status>> /\ problemOpen' = FALSE
    BY <1>5 DEF RefundSave
  <2>2. UNCHANGED Money
    BY <2>1 DEF Money
  <2>3. CASE status = "paid"
    <3>1. Money # "buyer"
      BY <2>3 DEF Money
    <3> QED
      BY <2>1, <2>2, <3>1 DEF Promise!Next, Promise!Decide
  <2>4. CASE status # "paid"
    <3>1. problemOpen = FALSE
      BY <2>4 DEF PInv, PaymentComesFirst, IInv, TypeOK
    <3> QED
      BY <2>1, <2>2, <3>1 DEF Promise!promise
  <2> QED
    BY <2>3, <2>4
<1>6. CASE /\ ~VerifyConfirm(s) /\ ~ProblemSave(s) /\ ~TransferCall(s)
           /\ ~RefundCall(s) /\ ~RefundSave(s)
  <2>1. UNCHANGED <<transfers, refunded, status, problemOpen>>
    BY <1>6
       DEF Continue, VerifyAsk, VerifyBalanceAsk, VerifyBalanceConfirm, ConfirmBalance,
           ReadySave, StartBalanceSave, DeliverSave, ReceiveSave, StaffClearSave,
           ReleaseLock, SettleSave, Settle
  <2> QED
    BY <2>1, Invisible
<1> QED
  BY <1>1, <1>2, <1>3, <1>4, <1>5, <1>6

LEMMA PromiseOutside ==
    ASSUME IInv, IInv', PInv, PInv', Outside
    PROVE  [Promise!Next]_(Promise!promise)
<1> USE DEF row, paystack, history
<1>1. CASE ChargeWebhook
  BY <1>1, PromiseConfirm DEF ChargeWebhook
<1>2. CASE InitializeFails \/ DashboardRefund
  <2>1. /\ UNCHANGED <<transfers, problemOpen>>
        /\ status = "paid" <=> status' = "paid"
        /\ refunded = "api" <=> refunded' = "api"
    BY <1>2 DEF InitializeFails, DashboardRefund
  <2>2. UNCHANGED Money
    BY <2>1 DEF Money
  <2> QED
    BY <2>1, <2>2 DEF Promise!promise
<1>3. ASSUME NEW ref \in TransferRefs, TransferEnds(ref)
      PROVE  [Promise!Next]_(Promise!promise)
  <2>1. UNCHANGED <<refunded, status, problemOpen>> /\ ref = TransferReference
    BY <1>3 DEF TransferEnds, IInv, OneReference, Accepted
  <2>2. transfers'[ref] = "failed" \/ transfers'[ref] = "reversed" \/ transfers'[ref] = "success"
    BY <1>3 DEF TransferEnds, IInv, TypeOK
  <2>3. CASE SentToSeller /\ ~SentToSeller'
    <3>1. status = "paid" /\ refunded # "api"
      BY <2>3 DEF PInv, RowKnowsTransfer, PaymentComesFirst
    <3>2. Money = "seller" /\ Money' = "held"
      BY <2>1, <2>3, <3>1, MoneyIsThere DEF IInv
    <3> QED
      BY <2>1, <3>2 DEF Promise!Next, Promise!ComeBack
  <2>4. CASE SentToSeller <=> SentToSeller'
    <3>1. UNCHANGED Money
      BY <2>1, <2>4, MoneyIsThere DEF IInv
    <3> QED
      BY <2>1, <3>1 DEF Promise!promise
  <2>5. SentToSeller' => SentToSeller
    BY <1>3, <2>1 DEF TransferEnds, SentToSeller, IInv, TypeOK
  <2> QED
    BY <2>3, <2>4, <2>5
<1>4. CASE /\ ~ChargeWebhook /\ ~InitializeFails /\ ~DashboardRefund
           /\ ~\E ref \in TransferRefs : TransferEnds(ref)
  <2>1. UNCHANGED <<transfers, refunded, status, problemOpen>>
    BY <1>4
       DEF Outside, InitializeOk, BuyerPays, BuyerPaysBalance, BalanceWebhook,
           ConfirmBalance, HandoverAges, TransferWebhook, Settle, ChangeAccount
  <2> QED
    BY <2>1, Invisible
<1> QED
  BY <1>1, <1>2, <1>3, <1>4

LEMMA PromiseStep ==
    ASSUME OneAtATime, IInv, IInv', PInv, PInv', [Next]_vars
    PROVE  [Promise!Next]_(Promise!promise)
<1>1. CASE \E s \in Slots : Begin(s)
  BY <1>1, PromiseBegin
<1>2. CASE \E s \in Slots : Continue(s)
  BY <1>2, PromiseContinue
<1>3. CASE \E s \in Slots : Crash(s)
  BY <1>3 DEF Crash, OneAtATime
<1>4. CASE Outside
  BY <1>4, PromiseOutside
<1>5. CASE UNCHANGED vars
  BY <1>5, Invisible DEF vars, row, paystack, history
<1> QED
  BY <1>1, <1>2, <1>3, <1>4, <1>5 DEF Next

-----------------------------------------------------------------------------
(* The theorems.                                                           *)

LEMMA PInvAlways ==
    ASSUME OneAtATime
    PROVE  Spec => [](IInv /\ PInv)
<1>1. Init => IInv /\ PInv
  BY IInvInit, PromiseInvInit
<1>2. IInv /\ PInv /\ [Next]_vars => (IInv /\ PInv)'
  BY IInvStep, PromiseInvStep
<1> QED
  BY <1>1, <1>2, PTL DEF Spec

\* Buyer protection is kept: an order's money goes to the seller or back to
\* the buyer, from where it is held, and not to the seller while a problem is
\* open, whatever payouts.py, the views, the back office, the daily job and
\* Paystack's webhooks do one at a time.
THEOREM ImplementsPromise ==
    ASSUME OneAtATime
    PROVE  Spec => KeepsPromise
<1>1. Init => Promise!Init
  BY DEF Init, Promise!Init, Money, TransferRefs
<1>2. IInv /\ PInv /\ (IInv /\ PInv)' /\ [Next]_vars => [Promise!Next]_(Promise!promise)
  BY PromiseStep
<1> QED
  BY <1>1, <1>2, PInvAlways, PTL DEF Spec, KeepsPromise, Promise!Spec

\* release does not decide to send the seller's share while a recorded
\* problem waits for staff.
THEOREM FreezesMoney ==
    ASSUME OneAtATime
    PROVE  Spec => ProblemFreezesMoney
<1>1. IInv /\ PInv /\ [Next]_vars
          => [payout # "sending" /\ payout' = "sending" => ~problemOpen]_vars
  <2> SUFFICES ASSUME IInv, PInv, [Next]_vars, payout # "sending", payout' = "sending"
               PROVE  ~problemOpen
    OBVIOUS
  <2>1. ASSUME NEW s \in Slots, ReleaseLock(s)
        PROVE  ~problemOpen
    BY <2>1 DEF ReleaseLock, MayRelease, PInv, RowKnowsProblem
  <2>2. ASSUME NEW s \in Slots, SettleSave(s) \/ RefundSave(s)
        PROVE  FALSE
    BY <2>2 DEF SettleSave, Settle, RefundSave, RefundedPayout, IInv, AnswersStayTrue
  <2>3. ASSUME NEW event, TransferWebhook(event)
        PROVE  FALSE
    BY <2>3 DEF TransferWebhook, Settle
  <2> QED
    BY <2>1, <2>2, <2>3, PayoutFrame
<1> QED
  BY <1>1, PInvAlways, PTL DEF Spec, ProblemFreezesMoney

\* A refunded order stays refunded and a paid balance stays paid, though every
\* handler saves a field of a row it read earlier.
THEOREM BuyerStaysSettled ==
    ASSUME OneAtATime
    PROVE  Spec => SettledWithBuyer
<1>1. IInv /\ PInv /\ [Next]_vars
          => [/\ stage = "refunded" => stage' = "refunded"
              /\ balance = "paid" => balance' = "paid"]_vars
  <2> SUFFICES ASSUME IInv, PInv, [Next]_vars
               PROVE  /\ stage = "refunded" => stage' = "refunded"
                      /\ balance = "paid" => balance' = "paid"
    OBVIOUS
  <2> USE DEF row, paystack, history, At, PInv, PaymentComesFirst, ReadIsCurrent
  <2>1. ASSUME NEW s \in Slots, Begin(s)
        PROVE  (stage = "refunded" => stage' = "refunded") /\ UNCHANGED balance
    BY <2>1, BeginReads DEF ledger
  <2>2. ASSUME NEW said, ConfirmOrder(said)
        PROVE  UNCHANGED stage /\ (balance = "paid" => balance' = "paid")
    BY <2>2 DEF ConfirmOrder
  <2>3. ASSUME NEW s \in Slots, ReadySave(s) \/ VerifyBalanceConfirm(s)
        PROVE  UNCHANGED stage /\ (balance = "paid" => balance' = "paid")
    BY <2>3 DEF ReadySave, VerifyBalanceConfirm, ConfirmBalance
  <2>4. ASSUME NEW s \in Slots,
               DeliverSave(s) \/ ReceiveSave(s) \/ ProblemSave(s) \/ StaffClearSave(s)
                   \/ RefundSave(s)
        PROVE  (stage = "refunded" => stage' = "refunded") /\ UNCHANGED balance
    BY <2>4 DEF DeliverSave, ReceiveSave, ProblemSave, StaffClearSave, RefundSave
  <2>5. ASSUME NEW s \in Slots,
               VerifyAsk(s) \/ VerifyBalanceAsk(s) \/ StartBalanceSave(s) \/ ReleaseLock(s)
                   \/ TransferCall(s) \/ SettleSave(s) \/ RefundCall(s) \/ Crash(s)
        PROVE  UNCHANGED <<stage, balance>>
    BY <2>5
       DEF VerifyAsk, VerifyBalanceAsk, StartBalanceSave, ReleaseLock, TransferCall,
           SettleSave, Settle, RefundCall, Crash
  <2>6. CASE Outside /\ ~ChargeWebhook
    BY <2>6
       DEF Outside, InitializeOk, InitializeFails, BuyerPays, BuyerPaysBalance,
           BalanceWebhook, ConfirmBalance, HandoverAges, TransferEnds, TransferWebhook,
           Settle, ChangeAccount, DashboardRefund
  <2>7. CASE UNCHANGED vars
    BY <2>7 DEF vars
  <2> QED
    BY <2>1, <2>2, <2>3, <2>4, <2>5, <2>6, <2>7
       DEF Next, Continue, VerifyConfirm, ChargeWebhook
<1> QED
  BY <1>1, PInvAlways, PTL DEF Spec, SettledWithBuyer
=============================================================================

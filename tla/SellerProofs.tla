---------------------------- MODULE SellerProofs ----------------------------
(***************************************************************************)
(* What the sellers' two components keep true.  SellerPayments: for any    *)
(* number of sellers, payments and requests, any lengths of the periods,   *)
(* and processes that may die at any step.  SellerDesk: for any number of  *)
(* open pages, products and options, and any number of presses.            *)
(***************************************************************************)
EXTENDS SellerPayments, SellerDesk, TLAPS, FiniteSetTheorems

-----------------------------------------------------------------------------
(* SellerPayments: the inductive invariant.                                *)

\* A row that is not made has no charge and was bought with nothing; a free boost is
\* made paid and Paystack never hears of it; what is bought uses no free boost.
RowsFit ==
    \A p \in Payments :
        /\ ~Made(p) => charge[p] = "none" /\ payment[p].creditOf = NoPayment
        /\ p \in Credits => charge[p] = "none" /\ (Made(p) => Paid(p))
        /\ p \in Bought => payment[p].creditOf = NoPayment

\* What a request under way relies on: the row it confirms was made by a purchase, the
\* success it was told of stands, and while it holds the lock the row is not paid.
Fits(r, rows, charges) ==
    /\ r.at \in {"verify", "confirm", "save"} => r.of \in Bought /\ rows[r.of].status # "none"
    /\ r.at \in {"confirm", "save"} /\ r.said = "success" => charges[r.of] = "success"
    /\ r.at = "save" => r.said = "success" /\ rows[r.of].status # "paid"
RequestsFit == \A s \in Slots : Fits(req[s], payment, charge)

\* One request at a time holds a row.
LockHeldOnce ==
    \A s, t \in Slots : At(s, "save") /\ At(t, "save") /\ req[s].of = req[t].of => s = t

IInv == TypeOK /\ RowsFit /\ RequestsFit /\ LockHeldOnce /\ PaidMeansGiven /\ OneFreeBoost

-----------------------------------------------------------------------------
(* Types.                                                                  *)

LEMMA PaymentNumbers ==
    /\ Payments = Bought \cup Credits
    /\ NoPayment \notin Payments
    /\ \A p \in Bought : p \notin Credits
BY PaymentsAssumption DEF Payments, Bought, Credits, NoPayment

LEMMA RowTyped ==
    ASSUME NEW seller \in Sellers, NEW kind \in AllKinds
    PROVE  NewRow(seller, kind) \in Row
BY DEF NewRow, Row, Statuses, NoPayment

\* One request is replaced, the others stay.
LEMMA GotoTyped ==
    ASSUME TypeOK, NEW s \in Slots, NEW step \in Steps, NEW p \in Payments \cup {NoPayment},
           NEW said \in ChargeStates, NEW starts \in Nat, Goto(s, step, p, said, starts)
    PROVE  req' \in [Slots -> [at : Steps, of : Payments \cup {NoPayment},
                               seller : Sellers, said : ChargeStates, starts : Nat]]
BY DEF TypeOK, Goto

LEMMA DoneTyped ==
    ASSUME TypeOK, NEW s \in Slots, Done(s)
    PROVE  req' \in [Slots -> [at : Steps, of : Payments \cup {NoPayment},
                               seller : Sellers, said : ChargeStates, starts : Nat]]
<1>1. "idle" \in Steps /\ "none" \in ChargeStates /\ 0 \in Nat
    BY DEF Steps, ChargeStates
<1>. QED BY <1>1, GotoTyped DEF Done

LEMMA StartsTyped ==
    ASSUME TypeOK, NEW p, NEW kind, NEW seller
    PROVE  Starts(p, kind, seller) \subseteq Nat
<1>1. day \in Nat
    BY DEF TypeOK
<1>2. SameRunning(p, kind, seller) \subseteq Payments
    BY DEF SameRunning
<1>3. \A q \in Payments : payment[q].ends \in Nat
    BY DEF TypeOK, Row
<1>. QED BY <1>1, <1>2, <1>3 DEF Starts

LEMMA EndsTyped ==
    ASSUME NEW kind, NEW starts \in Nat
    PROVE  Ends(starts, kind) \in Nat
BY PaymentsAssumption DEF Ends, Lasts

LEMMA StartPaymentTyped ==
    ASSUME TypeOK, NEW seller \in Sellers, NEW kind \in AllKinds, StartPayment(seller, kind)
    PROVE  TypeOK'
<1>1. NewRow(seller, kind) \in Row
    BY RowTyped
<1>2. [NewRow(seller, kind) EXCEPT !.status = "failed"] \in Row
    BY <1>1 DEF Row, Statuses
<1>3. payment' \in [Payments -> Row]
    BY <1>1, <1>2 DEF StartPayment, TypeOK
<1>4. charge' \in [Payments -> ChargeStates]
    BY DEF StartPayment, TypeOK, ChargeStates
<1>. QED BY <1>3, <1>4 DEF StartPayment, TypeOK

LEMMA UseCreditTyped ==
    ASSUME TypeOK, NEW seller \in Sellers, UseCredit(seller)
    PROVE  TypeOK'
<1>0. PICK p \in Payments, plan \in Payments :
          \E start \in Starts(p, "boost", seller) :
              payment' = [payment EXCEPT
                  ![p] = [NewRow(seller, "boost") EXCEPT
                              !.status = "paid", !.starts = start,
                              !.ends = Ends(start, "boost"), !.creditOf = plan]]
    BY DEF UseCredit
<1>1. PICK start \in Starts(p, "boost", seller) :
          payment' = [payment EXCEPT
              ![p] = [NewRow(seller, "boost") EXCEPT
                          !.status = "paid", !.starts = start,
                          !.ends = Ends(start, "boost"), !.creditOf = plan]]
    BY <1>0
<1>2. start \in Nat /\ Ends(start, "boost") \in Nat
    BY StartsTyped, EndsTyped
<1>3. NewRow(seller, "boost") \in Row
    BY RowTyped DEF AllKinds
<1>4. payment' \in [Payments -> Row]
    BY <1>1, <1>2, <1>3 DEF Row, Statuses, TypeOK
<1>. QED BY <1>4 DEF UseCredit, TypeOK

LEMMA ConfirmLockTyped ==
    ASSUME TypeOK, RequestsFit, NEW s \in Slots, ConfirmLock(s)
    PROVE  TypeOK'
<1>. DEFINE p == req[s].of
<1>1. p \in Payments
    BY PaymentNumbers DEF ConfirmLock, RequestsFit, Fits, At
<1>2. CASE Done(s) /\ UNCHANGED payment
    BY <1>2, DoneTyped DEF ConfirmLock, TypeOK
<1>3. CASE Done(s) /\ payment' = [payment EXCEPT ![p].status = StatusIfNotPaid(req[s].said)]
    <2>1. payment' \in [Payments -> Row]
        BY <1>1, <1>3 DEF TypeOK, Row, StatusIfNotPaid, Statuses
    <2>. QED BY <1>3, <2>1, DoneTyped DEF ConfirmLock, TypeOK
<1>4. ASSUME NEW start \in IF HasPeriod(payment[p].kind)
                           THEN Starts(p, payment[p].kind, payment[p].seller) ELSE {0},
             Goto(s, "save", p, req[s].said, start), UNCHANGED payment
      PROVE  TypeOK'
    <2>1. start \in Nat
        BY StartsTyped
    <2>2. "save" \in Steps /\ req[s].said \in ChargeStates
        BY DEF Steps, TypeOK
    <2>. QED BY <1>1, <1>4, <2>1, <2>2, GotoTyped DEF ConfirmLock, TypeOK
<1>. QED BY <1>2, <1>3, <1>4 DEF ConfirmLock

LEMMA ConfirmSaveTyped ==
    ASSUME TypeOK, RequestsFit, NEW s \in Slots, ConfirmSave(s)
    PROVE  TypeOK'
<1>. DEFINE p == req[s].of
<1>1. p \in Payments
    BY PaymentNumbers DEF ConfirmSave, RequestsFit, Fits, At
<1>2. req[s].starts \in Nat /\ Ends(req[s].starts, payment[p].kind) \in Nat
    BY EndsTyped DEF TypeOK
<1>3. payment' \in [Payments -> Row]
    BY <1>1, <1>2 DEF ConfirmSave, TypeOK, Row, Statuses
<1>4. leads' \subseteq Sellers
    BY <1>1 DEF ConfirmSave, GiveLead, Unlock, TypeOK, Row
<1>. QED BY <1>3, <1>4, DoneTyped DEF ConfirmSave, TypeOK

LEMMA AnswerTyped ==
    ASSUME TypeOK, RequestsFit, NEW s \in Slots, VerifyAsk(s)
    PROVE  TypeOK'
<1>1. req[s].of \in Payments
    BY PaymentNumbers DEF VerifyAsk, RequestsFit, Fits, At
<1>2. CASE Done(s)
    BY <1>2, DoneTyped DEF VerifyAsk, TypeOK
<1>3. CASE Goto(s, "confirm", req[s].of, charge[req[s].of], 0)
    <2>1. "confirm" \in Steps /\ charge[req[s].of] \in ChargeStates
        BY <1>1 DEF Steps, TypeOK
    <2>. QED BY <1>1, <1>3, <2>1, GotoTyped DEF VerifyAsk, TypeOK
<1>. QED BY <1>2, <1>3 DEF VerifyAsk

-----------------------------------------------------------------------------
(* Requests.                                                               *)

\* What no step undoes: rows stay made, paid rows as they are, charges successful.
Lasting ==
    \A p \in Payments :
        /\ Made(p) => Made(p)'
        /\ Paid(p) => payment'[p] = payment[p]
        /\ charge[p] = "success" => charge'[p] = "success"

\* No row becomes paid, or only those of requests that are not saving it.
LeavesLocked(s) ==
    At(s, "save") /\ ~Paid(req[s].of) => payment'[req[s].of].status # "paid"

LEMMA StillFits ==
    ASSUME TypeOK, RequestsFit, Lasting, NEW s \in Slots, req'[s] = req[s], LeavesLocked(s)
    PROVE  Fits(req'[s], payment', charge')
BY PaymentNumbers DEF RequestsFit, Fits, Lasting, LeavesLocked, Made, Paid, At

\* A step that changes no request and makes no row paid.
LEMMA OthersFit ==
    ASSUME IInv, Lasting, UNCHANGED req,
           \A p \in Bought : payment'[p].status = "paid" => Paid(p)
    PROVE  RequestsFit' /\ LockHeldOnce'
<1>1. \A s \in Slots : LeavesLocked(s)
    BY DEF IInv, RequestsFit, Fits, LeavesLocked, At
<1>. QED BY <1>1, StillFits DEF IInv, RequestsFit, LockHeldOnce, At

\* A step of one request that is not one of taking the lock.
LEMMA OneFits ==
    ASSUME IInv, Lasting, NEW s \in Slots, NEW r,
           req' = [req EXCEPT ![s] = r], r.at # "save", Fits(r, payment', charge'),
           \A p \in Bought : (\A t \in Slots \ {s} : ~(At(t, "save") /\ req[t].of = p))
                             \/ (payment'[p].status = "paid" => Paid(p))
    PROVE  RequestsFit' /\ LockHeldOnce'
<1>1. req \in [Slots -> [at : Steps, of : Payments \cup {NoPayment},
                          seller : Sellers, said : ChargeStates, starts : Nat]]
    BY DEF IInv, TypeOK
<1>2. \A t \in Slots \ {s} : req'[t] = req[t] /\ LeavesLocked(t)
    BY <1>1 DEF IInv, RequestsFit, Fits, LeavesLocked, At
<1>3. req'[s] = r
    BY <1>1
<1>4. RequestsFit'
    BY <1>2, <1>3, StillFits DEF IInv, RequestsFit
<1>5. LockHeldOnce'
    BY <1>2, <1>3 DEF IInv, LockHeldOnce, At
<1>. QED BY <1>4, <1>5

\* A request that has ended relies on nothing.
LEMMA EndedFits ==
    ASSUME IInv, Lasting, NEW s \in Slots, Done(s),
           \A p \in Bought : (\A t \in Slots \ {s} : ~(At(t, "save") /\ req[t].of = p))
                             \/ (payment'[p].status = "paid" => Paid(p))
    PROVE  RequestsFit' /\ LockHeldOnce'
<1>. DEFINE r == [at |-> "idle", of |-> NoPayment, seller |-> req[s].seller,
                  said |-> "none", starts |-> 0]
<1>1. req' = [req EXCEPT ![s] = r]
    BY DEF Done, Goto
<1>2. r.at = "idle" /\ Fits(r, payment', charge')
    BY DEF Fits
<1>. HIDE DEF r
<1>. QED BY <1>1, <1>2, OneFits

-----------------------------------------------------------------------------
(* Rows.                                                                   *)

\* What PaidMeansGiven and OneFreeBoost say, kept by a step that makes no row paid
\* and gives no free boost.
LEMMA NothingPaid ==
    ASSUME IInv, Lasting, leads \subseteq leads',
           \A p \in Payments : (Paid(p)' => Paid(p)) /\ payment'[p].creditOf = payment[p].creditOf
    PROVE  PaidMeansGiven' /\ OneFreeBoost'
<1>1. PaidMeansGiven'
    BY DEF IInv, Lasting, PaidMeansGiven, Paid
<1>2. OneFreeBoost'
    <2>1. \A p \in Payments : payment[p].creditOf # NoPayment => payment[p].creditOf \in Payments
        BY DEF IInv, TypeOK, Row
    <2>2. \A p \in Payments : payment[p].creditOf # NoPayment =>
              /\ Paid(p) /\ payment'[p] = payment[p]
              /\ payment'[payment[p].creditOf] = payment[payment[p].creditOf]
        BY <2>1, PaymentNumbers DEF IInv, RowsFit, OneFreeBoost, Lasting, Paid, Made
    <2>. QED BY <2>2 DEF IInv, OneFreeBoost
<1>. QED BY <1>1, <1>2

\* A step that leaves rows and charges alone.
LEMMA RowsLeft ==
    ASSUME IInv, UNCHANGED <<payment, charge>>, leads \subseteq leads'
    PROVE  Lasting /\ RowsFit' /\ PaidMeansGiven' /\ OneFreeBoost'
<1>1. Lasting
    BY DEF Lasting, Made
<1>2. RowsFit'
    BY DEF IInv, RowsFit, Made, Paid
<1>. QED BY <1>1, <1>2, NothingPaid DEF Paid

LEMMA StartPaymentKeeps ==
    ASSUME IInv, NEW seller \in Sellers, NEW kind \in AllKinds, StartPayment(seller, kind)
    PROVE  IInv' /\ Lasting
<1>1. PICK p \in Payments :
          /\ IsNext(p, Bought)
          /\ \E status \in {"pending", "failed"} :
                 payment' = [payment EXCEPT ![p] = [NewRow(seller, kind) EXCEPT !.status = status]]
          /\ charge' = charge \/ charge' = [charge EXCEPT ![p] = "open"]
    BY DEF StartPayment, NewRow
<1>2. TypeOK'
    BY StartPaymentTyped DEF IInv
<1>3. /\ p \in Bought /\ p \notin Credits /\ ~Made(p) /\ ~Paid(p)
      /\ payment'[p].status \in {"pending", "failed"}
      /\ payment'[p].creditOf = NoPayment /\ charge[p] = "none"
      /\ payment[p].creditOf = NoPayment
      /\ \A q \in Payments \ {p} : payment'[q] = payment[q] /\ charge'[q] = charge[q]
    BY <1>1, PaymentNumbers DEF IInv, TypeOK, IsNext, RowsFit, Made, Paid, NewRow
<1>4. Lasting
    BY <1>3 DEF Lasting, Made, Paid
<1>5. RowsFit'
    BY <1>3 DEF IInv, RowsFit, Made, Paid
<1>6. RequestsFit' /\ LockHeldOnce'
    BY <1>3, <1>4, PaymentNumbers, OthersFit DEF StartPayment, Paid
<1>7. PaidMeansGiven' /\ OneFreeBoost'
    BY <1>3, <1>4, NothingPaid DEF StartPayment, Paid
<1>. QED BY <1>2, <1>4, <1>5, <1>6, <1>7 DEF IInv

\* The month is paid for by the seller and no other boost uses it.
LEMMA UseCreditKeeps ==
    ASSUME IInv, NEW seller \in Sellers, UseCredit(seller)
    PROVE  IInv' /\ Lasting
<1>0. PICK p \in Payments, plan \in Payments :
          /\ IsNext(p, Credits) /\ MayUseCredit(seller, plan)
          /\ \E start \in Starts(p, "boost", seller) :
                 payment' = [payment EXCEPT
                     ![p] = [NewRow(seller, "boost") EXCEPT
                                 !.status = "paid", !.starts = start,
                                 !.ends = Ends(start, "boost"), !.creditOf = plan]]
          /\ UNCHANGED <<leads, day, req, charge>>
    BY DEF UseCredit
<1>1. PICK start \in Starts(p, "boost", seller) :
          payment' = [payment EXCEPT
              ![p] = [NewRow(seller, "boost") EXCEPT
                          !.status = "paid", !.starts = start,
                          !.ends = Ends(start, "boost"), !.creditOf = plan]]
    BY <1>0
<1>2. TypeOK'
    BY UseCreditTyped DEF IInv
<1>3. /\ p \in Credits /\ p \notin Bought /\ ~Made(p) /\ ~Paid(p)
      /\ \A q \in Payments \ {p} : payment'[q] = payment[q]
    BY <1>0, <1>1, PaymentNumbers DEF IInv, TypeOK, IsNext, Made, Paid
<1>4. payment'[p] = [seller |-> seller, kind |-> "boost", status |-> "paid", starts |-> start,
                     ends |-> Ends(start, "boost"), creditOf |-> plan]
    BY <1>1 DEF IInv, TypeOK, NewRow
<1>5. /\ Paid(plan) /\ payment[plan].kind = "plan" /\ payment[plan].seller = seller
      /\ \A q \in Payments : payment[q].creditOf # plan
      /\ plan # p
    BY <1>0, <1>3 DEF MayUseCredit, IsNewestPlan, RunningPlans, Running
<1>6. Lasting
    BY <1>0, <1>3, <1>4 DEF Lasting, Made, Paid
<1>7. RowsFit'
    BY <1>0, <1>3, <1>4 DEF IInv, RowsFit, Made, Paid
<1>8. RequestsFit' /\ LockHeldOnce'
    BY <1>0, <1>3, <1>6, PaymentNumbers, OthersFit DEF Paid
<1>9. PaidMeansGiven'
    <2>1. Paid(p)' => /\ payment'[p].creditOf # NoPayment
                      /\ payment'[p].kind # "lead"
                      /\ payment'[p].ends = payment'[p].starts + Lasts(payment'[p].kind)
        BY <1>4, PaymentNumbers DEF Ends, HasPeriod
    <2>. QED BY <1>0, <1>3, <2>1 DEF IInv, PaidMeansGiven, Paid
<1>10. OneFreeBoost'
    <2>1. ASSUME NEW a \in Payments, NEW b \in Payments, payment'[a].creditOf # NoPayment,
                 payment'[b].creditOf = payment'[a].creditOf
          PROVE  a = b
        BY <1>3, <1>4, <1>5, <2>1 DEF IInv, OneFreeBoost
    <2>2. ASSUME NEW a \in Payments, payment'[a].creditOf # NoPayment
          PROVE  LET month == payment'[payment'[a].creditOf]
                 IN  month.status = "paid" /\ month.kind = "plan"
                     /\ month.seller = payment'[a].seller
        <3>1. CASE a = p
            BY <1>3, <1>4, <1>5, <3>1 DEF Paid
        <3>2. CASE a # p
            <4>1. payment'[a] = payment[a] /\ payment[a].creditOf \in Payments
                BY <1>3, <2>2, <3>2 DEF IInv, TypeOK, Row
            <4>2. payment[payment[a].creditOf].status = "paid"
                BY <2>2, <4>1 DEF IInv, OneFreeBoost
            <4>3. payment'[payment[a].creditOf] = payment[payment[a].creditOf]
                BY <1>3, <4>1, <4>2 DEF Paid
            <4>. QED BY <2>2, <4>1, <4>3 DEF IInv, OneFreeBoost
        <3>. QED BY <3>1, <3>2
    <2>. QED BY <2>1, <2>2 DEF OneFreeBoost
<1>. QED BY <1>2, <1>6, <1>7, <1>8, <1>9, <1>10 DEF IInv

-----------------------------------------------------------------------------
(* Confirmations.                                                          *)

LEMMA ReadKeeps ==
    ASSUME IInv, NEW s \in Slots, NEW p \in Payments, VerifyRead(s, p) \/ Webhook(s, p)
    PROVE  IInv' /\ Lasting
<1>1. PICK step \in {"verify", "confirm"}, said \in ChargeStates :
          /\ Goto(s, step, p, said, 0)
          /\ UNCHANGED <<payment, leads, day, charge>>
          /\ step = "confirm" => said = charge[p] /\ charge[p] \in {"success", "mismatch"}
          /\ step = "verify" => payment[p].status = "pending"
    BY DEF VerifyRead, Webhook, ChargeStates
<1>2. p \in Bought /\ Made(p)
    BY <1>1, PaymentNumbers DEF IInv, RowsFit, Made, Paid
<1>3. TypeOK'
    BY <1>1, GotoTyped DEF IInv, TypeOK, Steps
<1>4. Lasting /\ RowsFit' /\ PaidMeansGiven' /\ OneFreeBoost'
    BY <1>1, RowsLeft
<1>5. RequestsFit' /\ LockHeldOnce'
    <2>. DEFINE r == [at |-> step, of |-> p, seller |-> req[s].seller, said |-> said, starts |-> 0]
    <2>1. req' = [req EXCEPT ![s] = r]
        BY <1>1 DEF Goto
    <2>2. r.at # "save" /\ Fits(r, payment', charge')
        BY <1>1, <1>2 DEF Fits, Made
    <2>. HIDE DEF r
    <2>. QED BY <1>1, <1>4, <2>1, <2>2, OneFits DEF Paid
<1>. QED BY <1>3, <1>4, <1>5 DEF IInv

LEMMA VerifyAskKeeps ==
    ASSUME IInv, NEW s \in Slots, VerifyAsk(s)
    PROVE  IInv' /\ Lasting
<1>1. TypeOK'
    BY AnswerTyped DEF IInv
<1>2. Lasting /\ RowsFit' /\ PaidMeansGiven' /\ OneFreeBoost'
    BY RowsLeft DEF VerifyAsk
<1>3. RequestsFit' /\ LockHeldOnce'
    <2>1. CASE Done(s)
        BY <1>2, <2>1, EndedFits DEF VerifyAsk, Paid
    <2>2. CASE Goto(s, "confirm", req[s].of, charge[req[s].of], 0)
        <3>. DEFINE r == [at |-> "confirm", of |-> req[s].of, seller |-> req[s].seller,
                          said |-> charge[req[s].of], starts |-> 0]
        <3>1. req' = [req EXCEPT ![s] = r]
            BY <2>2 DEF Goto
        <3>2. r.at # "save" /\ Fits(r, payment', charge')
            BY DEF VerifyAsk, IInv, RequestsFit, Fits, At
        <3>. HIDE DEF r
        <3>. QED BY <1>2, <3>1, <3>2, OneFits DEF VerifyAsk, Paid
    <2>. QED BY <2>1, <2>2 DEF VerifyAsk
<1>. QED BY <1>1, <1>2, <1>3 DEF IInv

LEMMA ConfirmLockKeeps ==
    ASSUME IInv, NEW s \in Slots, ConfirmLock(s)
    PROVE  IInv' /\ Lasting
<1>. DEFINE p == req[s].of
<1>1. TypeOK'
    BY ConfirmLockTyped DEF IInv
<1>2. p \in Bought /\ p \in Payments /\ p \notin Credits /\ Made(p)
    BY PaymentNumbers DEF ConfirmLock, IInv, RequestsFit, Fits, At, Made
<1>3. CASE Done(s) /\ UNCHANGED payment
    <2>1. Lasting /\ RowsFit' /\ PaidMeansGiven' /\ OneFreeBoost'
        BY <1>3, RowsLeft DEF ConfirmLock
    <2>. QED BY <1>1, <1>3, <2>1, EndedFits DEF IInv, Paid
<1>4. CASE /\ Done(s) /\ MayConfirm(p)
           /\ payment' = [payment EXCEPT ![p].status = StatusIfNotPaid(req[s].said)]
    <2>1. /\ payment'[p].status \in {"pending", "failed"}
          /\ payment'[p].creditOf = payment[p].creditOf
          /\ \A q \in Payments \ {p} : payment'[q] = payment[q]
        BY <1>2, <1>4 DEF IInv, TypeOK, Row, StatusIfNotPaid
    <2>2. ~Paid(p)
        BY <1>4 DEF MayConfirm
    <2>3. Lasting
        BY <2>1, <2>2 DEF ConfirmLock, Lasting, Made
    <2>4. RowsFit'
        BY <1>2, <2>1 DEF ConfirmLock, IInv, RowsFit, Made, Paid
    <2>5. PaidMeansGiven' /\ OneFreeBoost'
        BY <2>1, <2>3, NothingPaid DEF ConfirmLock, Paid
    <2>6. RequestsFit' /\ LockHeldOnce'
        BY <1>4, <2>1, <2>3, PaymentNumbers, EndedFits DEF Paid
    <2>. QED BY <1>1, <2>3, <2>4, <2>5, <2>6 DEF IInv
<1>5. ASSUME NEW start, MayConfirm(p), Exact(req[s].said),
             Goto(s, "save", p, req[s].said, start), UNCHANGED payment
      PROVE  IInv' /\ Lasting
    <2>1. Lasting /\ RowsFit' /\ PaidMeansGiven' /\ OneFreeBoost'
        BY <1>5, RowsLeft DEF ConfirmLock
    <2>2. /\ req'[s].at = "save" /\ req'[s].of = p /\ req'[s].said = req[s].said
          /\ \A t \in Slots \ {s} : req'[t] = req[t]
        BY <1>5 DEF Goto, IInv, TypeOK
    <2>3. RequestsFit'
        <3>1. Fits(req'[s], payment', charge')
            BY <1>2, <1>5, <2>2
               DEF ConfirmLock, MayConfirm, Exact, IInv, RequestsFit, Fits, At, Made, Paid
        <3>2. \A t \in Slots \ {s} : Fits(req'[t], payment', charge')
            BY <1>5, <2>2 DEF ConfirmLock, IInv, RequestsFit
        <3>. QED BY <3>1, <3>2 DEF RequestsFit
    <2>4. LockHeldOnce'
        BY <2>2 DEF ConfirmLock, Locked, IInv, LockHeldOnce, At
    <2>. QED BY <1>1, <2>1, <2>3, <2>4 DEF IInv
<1>. QED BY <1>3, <1>4, <1>5 DEF ConfirmLock

\* The row was not paid until now, and no other request can save it after.
LEMMA ConfirmSaveKeeps ==
    ASSUME IInv, NEW s \in Slots, ConfirmSave(s)
    PROVE  IInv' /\ Lasting
<1>. DEFINE p == req[s].of
            kind == payment[p].kind
<1>1. TypeOK'
    BY ConfirmSaveTyped DEF IInv
<1>2. /\ p \in Bought /\ p \in Payments /\ p \notin Credits /\ Made(p) /\ ~Paid(p)
      /\ charge[p] = "success" /\ payment[p].creditOf = NoPayment
    BY PaymentNumbers DEF ConfirmSave, IInv, RequestsFit, RowsFit, Fits, At, Made, Paid
<1>3. /\ payment'[p] = [payment[p] EXCEPT !.status = "paid", !.starts = req[s].starts,
                                          !.ends = Ends(req[s].starts, kind)]
      /\ \A q \in Payments \ {p} : payment'[q] = payment[q]
    BY <1>2 DEF ConfirmSave, IInv, TypeOK
<1>4. /\ payment'[p].status = "paid" /\ payment'[p].creditOf = NoPayment
      /\ payment'[p].kind = kind /\ payment'[p].seller = payment[p].seller
      /\ HasPeriod(kind) => payment'[p].ends = payment'[p].starts + Lasts(kind)
    BY <1>2, <1>3 DEF IInv, TypeOK, Row, Ends
<1>5. charge' = charge /\ leads \subseteq leads'
      /\ (kind = "lead" => payment[p].seller \in leads')
    BY DEF ConfirmSave, GiveLead, Unlock
<1>6. Lasting
    BY <1>2, <1>3, <1>4, <1>5 DEF Lasting, Made, Paid
<1>7. RowsFit'
    <2>1. ASSUME NEW q \in Payments \ {p}
          PROVE  payment'[q] = payment[q] /\ charge'[q] = charge[q]
        BY <1>3, <1>5
    <2>2. payment'[p].status # "none"
        BY <1>4
    <2>. HIDE DEF p
    <2>. QED BY <1>2, <1>4, <2>1, <2>2 DEF IInv, RowsFit, Made, Paid
<1>8. RequestsFit' /\ LockHeldOnce'
    <2>1. \A t \in Slots \ {s} : ~(At(t, "save") /\ req[t].of = p)
        BY DEF ConfirmSave, IInv, LockHeldOnce
    <2>2. Done(s)
        BY DEF ConfirmSave
    <2>3. \A q \in Bought \ {p} : payment'[q].status = "paid" => Paid(q)
        BY <1>3, PaymentNumbers DEF Paid
    <2>. QED BY <1>6, <2>1, <2>2, <2>3, EndedFits
<1>9. PaidMeansGiven'
    <2>. HIDE DEF p, kind
    <2>1. ASSUME NEW q \in Payments \ {p}, Paid(q)
          PROVE  /\ charge'[q] = "success" \/ payment'[q].creditOf # NoPayment
                 /\ payment'[q].kind = "lead" => payment'[q].seller \in leads'
                 /\ HasPeriod(payment'[q].kind)
                        => payment'[q].ends = payment'[q].starts + Lasts(payment'[q].kind)
        BY <1>3, <1>5, <2>1 DEF IInv, PaidMeansGiven
    <2>2. \A q \in Payments \ {p} : payment'[q].status = "paid" => Paid(q)
        BY <1>3 DEF Paid
    <2>. QED BY <1>2, <1>4, <1>5, <2>1, <2>2 DEF PaidMeansGiven, Paid
<1>10. OneFreeBoost'
    <2>1. \A a \in Payments : payment'[a].creditOf = payment[a].creditOf
        BY <1>2, <1>3, <1>4
    <2>2. \A a \in Payments : payment[a].creditOf # NoPayment =>
              /\ a # p /\ payment[a].creditOf \in Payments
              /\ payment[a].creditOf # p
        BY <1>2 DEF IInv, TypeOK, Row, OneFreeBoost, Paid
    <2>. QED BY <1>3, <2>1, <2>2 DEF IInv, OneFreeBoost
<1>. QED BY <1>1, <1>6, <1>7, <1>8, <1>9, <1>10 DEF IInv

-----------------------------------------------------------------------------
(* The other steps.                                                        *)

LEMMA UnlockReadKeeps ==
    ASSUME IInv, NEW s \in Slots, NEW seller \in Sellers, UnlockRead(s, seller)
    PROVE  IInv' /\ Lasting
<1>1. Lasting /\ RowsFit' /\ PaidMeansGiven' /\ OneFreeBoost'
    BY RowsLeft DEF UnlockRead
<1>2. TypeOK'
    BY DEF UnlockRead, IInv, TypeOK, Steps
<1>3. RequestsFit' /\ LockHeldOnce'
    <2>. DEFINE r == [req[s] EXCEPT !.at = "unlock", !.seller = seller]
    <2>1. req' = [req EXCEPT ![s] = r]
        BY DEF UnlockRead, IInv, TypeOK
    <2>2. r.at = "unlock" /\ Fits(r, payment', charge')
        BY DEF IInv, TypeOK, Fits
    <2>. HIDE DEF r
    <2>. QED BY <1>1, <2>1, <2>2, OneFits DEF UnlockRead, Paid
<1>. QED BY <1>1, <1>2, <1>3 DEF IInv

LEMMA EndKeeps ==
    ASSUME IInv, NEW s \in Slots, UnlockSave(s) \/ Crash(s)
    PROVE  IInv' /\ Lasting
<1>1. /\ Done(s) /\ UNCHANGED <<payment, charge, day>>
      /\ leads \subseteq leads' /\ leads' \subseteq Sellers
    BY DEF UnlockSave, Unlock, Crash, IInv, TypeOK
<1>2. Lasting /\ RowsFit' /\ PaidMeansGiven' /\ OneFreeBoost'
    BY <1>1, RowsLeft
<1>3. TypeOK'
    BY <1>1, DoneTyped DEF IInv, TypeOK
<1>4. RequestsFit' /\ LockHeldOnce'
    BY <1>1, <1>2, EndedFits DEF Paid
<1>. QED BY <1>2, <1>3, <1>4 DEF IInv

LEMMA SellerPaysKeeps ==
    ASSUME IInv, NEW p \in Payments, SellerPays(p)
    PROVE  IInv' /\ Lasting
<1>1. TypeOK'
    BY DEF SellerPays, IInv, TypeOK, ChargeStates
<1>2. /\ charge[p] # "none" /\ charge[p] # "success"
      /\ \A q \in Payments \ {p} : charge'[q] = charge[q]
    BY DEF SellerPays, IInv, TypeOK
<1>3. Lasting
    BY <1>2 DEF SellerPays, Lasting, Made
<1>4. RowsFit'
    BY <1>2 DEF SellerPays, IInv, RowsFit, Made, Paid
<1>5. RequestsFit' /\ LockHeldOnce'
    BY <1>3, OthersFit DEF SellerPays, Paid
<1>6. PaidMeansGiven' /\ OneFreeBoost'
    BY <1>3, NothingPaid DEF SellerPays, Paid
<1>. QED BY <1>1, <1>3, <1>4, <1>5, <1>6 DEF IInv

LEMMA TickKeeps ==
    ASSUME IInv, Tick
    PROVE  IInv' /\ Lasting
<1>1. TypeOK'
    BY PaymentsAssumption DEF Tick, IInv, TypeOK
<1>2. Lasting /\ RowsFit' /\ PaidMeansGiven' /\ OneFreeBoost'
    BY RowsLeft DEF Tick
<1>3. RequestsFit' /\ LockHeldOnce'
    BY <1>2, OthersFit DEF Tick, Paid
<1>. QED BY <1>1, <1>2, <1>3 DEF IInv

LEMMA StutterKeeps ==
    ASSUME IInv, UNCHANGED vars
    PROVE  IInv' /\ Lasting
<1>1. TypeOK'
    BY DEF vars, IInv, TypeOK
<1>2. Lasting /\ RowsFit' /\ PaidMeansGiven' /\ OneFreeBoost'
    BY RowsLeft DEF vars
<1>3. RequestsFit' /\ LockHeldOnce'
    BY <1>2, OthersFit DEF vars, Paid
<1>. QED BY <1>1, <1>2, <1>3 DEF IInv

-----------------------------------------------------------------------------
(* The theorems.                                                           *)

LEMMA InitHolds == Init => IInv
<1>. SUFFICES ASSUME Init
              PROVE  IInv
    OBVIOUS
<1>1. PICK someone \in Sellers :
          /\ someone = CHOOSE seller \in Sellers : TRUE
    BY PaymentsAssumption
<1>2. NewRow(someone, "boost") \in Row
    BY RowTyped DEF AllKinds
<1>3. payment = [p \in Payments |-> [NewRow(someone, "boost") EXCEPT !.status = "none"]]
    BY <1>1 DEF Init
<1>4. req = [s \in Slots |-> [at |-> "idle", of |-> NoPayment, seller |-> someone,
                              said |-> "none", starts |-> 0]]
    BY <1>1 DEF Init
<1>5. /\ payment \in [Payments -> Row]
      /\ \A p \in Payments : payment[p].status = "none" /\ payment[p].creditOf = NoPayment
    BY <1>2, <1>3 DEF Row, Statuses, NewRow
<1>6. TypeOK
    BY <1>4, <1>5, PaymentsAssumption DEF Init, TypeOK, Steps, ChargeStates
<1>7. RowsFit /\ PaidMeansGiven /\ OneFreeBoost
    BY <1>5 DEF Init, RowsFit, Made, Paid, PaidMeansGiven, OneFreeBoost
<1>8. RequestsFit /\ LockHeldOnce
    BY <1>4 DEF RequestsFit, Fits, LockHeldOnce, At
<1>. QED BY <1>6, <1>7, <1>8 DEF IInv

LEMMA StepKeeps ==
    ASSUME IInv, [Next]_vars
    PROVE  IInv' /\ Lasting
<1>1. CASE UNCHANGED vars
    BY <1>1, StutterKeeps
<1>2. ASSUME NEW seller \in Sellers, Buy(seller)
      PROVE  IInv' /\ Lasting
    <2>1. ASSUME NEW kind \in AllKinds, StartPayment(seller, kind)
          PROVE  IInv' /\ Lasting
        BY <2>1, StartPaymentKeeps
    <2>2. CASE UseCredit(seller)
        BY <2>2, UseCreditKeeps
    <2>. QED BY <1>2, <2>1, <2>2, PaymentsAssumption
             DEF Buy, BuyPeriod, BuyVerification, BuyLead, AllKinds
<1>3. ASSUME NEW p \in Payments, SellerPays(p)
      PROVE  IInv' /\ Lasting
    BY <1>3, SellerPaysKeeps
<1>4. ASSUME NEW s \in Slots, NEW p \in Payments, VerifyRead(s, p) \/ Webhook(s, p)
      PROVE  IInv' /\ Lasting
    BY <1>4, ReadKeeps
<1>5. ASSUME NEW s \in Slots, NEW seller \in Sellers, UnlockRead(s, seller)
      PROVE  IInv' /\ Lasting
    BY <1>5, UnlockReadKeeps
<1>6. ASSUME NEW s \in Slots, Continue(s) \/ Crash(s)
      PROVE  IInv' /\ Lasting
    BY <1>6, VerifyAskKeeps, ConfirmLockKeeps, ConfirmSaveKeeps, EndKeeps DEF Continue
<1>7. CASE Tick
    BY <1>7, TickKeeps
<1>. QED BY <1>1, <1>2, <1>3, <1>4, <1>5, <1>6, <1>7 DEF Next

LEMMA Invariance == Spec => []IInv
BY InitHolds, StepKeeps, PTL DEF Spec

\* The rows, the contacts and the requests keep their types.
THEOREM TypeCorrect == Spec => []TypeOK
<1>1. IInv => TypeOK
    BY DEF IInv
<1>. QED BY <1>1, Invariance, PTL

\* What is paid was given whole, and for a charge of exactly the amount
\* (confirm_seller_payment), whoever confirms it and whatever else is confirmed.
THEOREM PaidIsGiven == Spec => []PaidMeansGiven
<1>1. IInv => PaidMeansGiven
    BY DEF IInv
<1>. QED BY <1>1, Invariance, PTL

\* A month of the plan gives one free boost, to the seller who paid for the month.
THEOREM CreditIsUsedOnce == Spec => []OneFreeBoost
<1>1. IInv => OneFreeBoost
    BY DEF IInv
<1>. QED BY <1>1, Invariance, PTL

\* What was bought is fixed when its payment is confirmed.
THEOREM PaidIsFinal == Spec => PaidStays
<1>1. IInv /\ [Next]_vars => \A p \in Payments : Paid(p) => payment'[p] = payment[p]
    BY StepKeeps DEF Lasting
<1>2. IInv /\ [Next]_vars
          => [\A p \in Payments : Paid(p) => payment'[p] = payment[p]]_vars
    BY <1>1
<1>. QED BY <1>2, Invariance, PTL DEF Spec, PaidStays

-----------------------------------------------------------------------------
(* SellerDesk: the inductive invariant.                                    *)

\* The records have their fields, whatever is in them.
IsProduct(x) ==
    x \in [status : {x.status}, availability : {x.availability},
           stock : {x.stock}, option : {x.option}]
IsPage(x) ==
    x \in [loaded : {x.loaded}, seen : {x.seen}, editing : {x.editing},
           form : {x.form}, busy : {x.busy}, notice : {x.notice}]
IsCall(c) ==
    c \in [op : {c.op}, product : {c.product}, body : {c.body},
           phase : {c.phase}, seen : {c.seen}]

\* The shelf: a place nothing was put on is empty, so that a product made there starts
\* with no options and nobody waiting; buyers pay for products that were made.
RoomIsEmpty == \A n \in Products : shelf[n].status = "none" => shelf[n] = NoProduct
BuyersCameForProducts ==
    /\ waiting \subseteq Products /\ carts \subseteq Products
    /\ \A n \in carts : shelf[n].status # "none"
ShelfInv ==
    /\ shelf = [n \in Products |-> shelf[n]] /\ \A n \in Products : IsProduct(shelf[n])
    /\ RoomIsEmpty /\ BuyersCameForProducts /\ NobodyWaitsForWhatIsThere

\* The pages: a request names a product of the shelf, and an answer on its way is of
\* something that was done.
Answered(called, did) ==
    \A p \in Pages : \A c \in called[p] :
       /\ IsCall(c) /\ (c.op \in ShelfOps \ {"create"} => c.product \in Products)
       /\ c.phase \in {"served", "read"} => c.op \in did[p]
PagesInv ==
    /\ page = [p \in Pages |-> page[p]] /\ \A p \in Pages : IsPage(page[p])
    /\ calls = [p \in Pages |-> calls[p]] /\ done = [p \in Pages |-> done[p]]
    /\ Answered(calls, done) /\ NoticeIsTrue

DeskInv == ShelfInv /\ PagesInv

\* What no step does to an option of a product.
IdsStay ==
    \A n \in Products, l \in Labels :
       (shelf[n].option[l] # 0 /\ shelf'[n].option[l] # 0)
          => shelf'[n].option[l] = shelf[n].option[l]
NameStaysWith(was, now) ==
    \A l \in Labels : was.option[l] # 0 /\ now.option[l] # 0 => now.option[l] = was.option[l]

-----------------------------------------------------------------------------
\* Whatever is put on the shelf keeps it, if it is a product, gives its options the ids they
\* had, and leaves nobody waiting for it unless it is sold out.
LEMMA PutKeeps ==
    ASSUME ShelfInv, NEW n \in Products, NEW x, Put(n, x),
           IsProduct(x), x.status # "none", NameStaysWith(shelf[n], x),
           waiting' \subseteq waiting, carts' \subseteq carts,
           n \in waiting' => x.availability = "sold_out"
    PROVE  ShelfInv' /\ IdsStay
<1>1. /\ shelf' = [m \in Products |-> shelf'[m]] /\ shelf'[n] = x
      /\ \A m \in Products : m # n => shelf'[m] = shelf[m]
    <2>1. shelf = [m \in Products |-> shelf[m]] BY DEF ShelfInv
    <2>2. shelf' = [shelf EXCEPT ![n] = x] BY DEF Put
    <2>. QED BY <2>1, <2>2
<1>2. (\A m \in Products : IsProduct(shelf[m]))'
    <2>1. \A m \in Products : IsProduct(shelf'[m])
        BY <1>1 DEF ShelfInv
    <2>. QED BY <2>1 DEF IsProduct
<1>3. RoomIsEmpty'
    BY <1>1 DEF ShelfInv, RoomIsEmpty, NoProduct, NoOptions
<1>4. BuyersCameForProducts'
    BY <1>1 DEF ShelfInv, BuyersCameForProducts, Products
<1>5. NobodyWaitsForWhatIsThere'
    BY <1>1 DEF ShelfInv, BuyersCameForProducts, NobodyWaitsForWhatIsThere
<1>6. IdsStay
    BY <1>1 DEF IdsStay, NameStaysWith
<1>. QED BY <1>1, <1>2, <1>3, <1>4, <1>5, <1>6 DEF ShelfInv

\* Nothing is put on it.
LEMMA ShelfUntouched ==
    ASSUME ShelfInv, UNCHANGED <<shelf, carts, waiting>>
    PROVE  ShelfInv' /\ IdsStay
BY DEF ShelfInv, RoomIsEmpty, BuyersCameForProducts, NobodyWaitsForWhatIsThere, IdsStay,
       IsProduct, NoProduct, NoOptions, Products

\* A seller's save: availability and stock, and who is texted that it is back.
LEMMA SavedKeeps ==
    ASSUME ShelfInv, NEW n \in Products, Owned(n),
           NEW availability, NEW stock, Saved(n, availability, stock)
    PROVE  ShelfInv' /\ IdsStay
<1>. DEFINE x == [shelf[n] EXCEPT !.availability = availability, !.stock = stock]
<1>1. IsProduct(shelf[n])
    BY DEF ShelfInv
<1>2. /\ IsProduct(x) /\ x.status = shelf[n].status /\ x.option = shelf[n].option
      /\ x.availability = availability
    BY <1>1 DEF IsProduct
<1>3. Put(n, x) /\ UNCHANGED carts
      /\ waiting' = IF BackFromSoldOut(shelf[n].availability, availability)
                    THEN waiting \ {n} ELSE waiting
    BY DEF Saved
<1>. HIDE DEF x
<1>4. n \in waiting' => x.availability = "sold_out"
    BY <1>2, <1>3 DEF BackFromSoldOut, ShelfInv, NobodyWaitsForWhatIsThere
<1>5. x.status # "none" /\ NameStaysWith(shelf[n], x) /\ waiting' \subseteq waiting
    BY <1>2, <1>3 DEF Owned, NameStaysWith
<1>. QED BY <1>2, <1>3, <1>4, <1>5, PutKeeps

\* A place for a new product has no options and nobody waiting.
LEMMA AddedKeeps ==
    ASSUME ShelfInv, NEW x, IsProduct(x), x.status = "draft", Added(x)
    PROVE  ShelfInv' /\ IdsStay
<1>1. PICK n \in Products : shelf[n].status = "none" /\ Put(n, x)
    BY DEF Added
<1>2. shelf[n] = NoProduct
    BY <1>1 DEF ShelfInv, RoomIsEmpty
<1>3. NameStaysWith(shelf[n], x)
    BY <1>2 DEF NameStaysWith, NoProduct, NoOptions
<1>4. n \notin waiting
    BY <1>2 DEF ShelfInv, NobodyWaitsForWhatIsThere, NoProduct
<1>. QED BY <1>1, <1>3, <1>4, PutKeeps DEF Added

\* Options saved: a name that had an id has it still.
LEMMA OptionsKeep ==
    ASSUME NEW product, IsProduct(product), NEW labels,
           NEW ids \in NewIds(New(product, labels))
    PROVE  LET x == WithOptions(product, labels, ids) IN
           /\ IsProduct(x) /\ x.status = product.status
           /\ x.availability = product.availability /\ NameStaysWith(product, x)
<1>. DEFINE option == [l \in Labels |-> CASE l \notin labels -> 0
                                        [] l \in DOMAIN ids -> ids[l]
                                        [] OTHER -> product.option[l]]
            x == [product EXCEPT !.option = option]
<1>1. DOMAIN ids = New(product, labels)
    BY DEF NewIds
<1>2. \A l \in Labels : l \in New(product, labels) => product.option[l] = 0
    BY DEF New, Named
<1>3. \A l \in Labels :
        product.option[l] # 0 /\ option[l] # 0 => option[l] = product.option[l]
    BY <1>1, <1>2
<1>. HIDE DEF option
<1>4. /\ IsProduct(x) /\ x.status = product.status
      /\ x.availability = product.availability /\ x.option = option
    BY DEF IsProduct
<1>5. x = WithOptions(product, labels, ids)
    BY DEF WithOptions, option
<1>. HIDE DEF x
<1>. QED BY <1>3, <1>4, <1>5 DEF NameStaysWith

LEMMA ReplaceOptionsKeeps ==
    ASSUME ShelfInv, NEW n \in Products, Owned(n), NEW labels, ReplaceOptions(n, labels)
    PROVE  ShelfInv' /\ IdsStay
<1>1. PICK ids \in NewIds(New(shelf[n], labels)) :
        Put(n, WithOptions(shelf[n], labels, ids))
    BY DEF ReplaceOptions
<1>2. UNCHANGED <<waiting, carts>>
    BY DEF ReplaceOptions
<1>3. IsProduct(shelf[n])
    BY DEF ShelfInv
<1>. DEFINE x == WithOptions(shelf[n], labels, ids)
<1>4. /\ IsProduct(x) /\ x.status = shelf[n].status
      /\ x.availability = shelf[n].availability /\ NameStaysWith(shelf[n], x)
    BY <1>3, OptionsKeep
<1>. HIDE DEF x
<1>5. x.status # "none" /\ (n \in waiting' => x.availability = "sold_out")
    BY <1>2, <1>4 DEF Owned, ShelfInv, NobodyWaitsForWhatIsThere
<1>6. Put(n, x)
    BY <1>1 DEF x
<1>. QED BY <1>2, <1>4, <1>5, <1>6, PutKeeps

LEMMA CreateKeeps ==
    ASSUME ShelfInv, NEW body, Create(body)
    PROVE  ShelfInv' /\ IdsStay
<1>. DEFINE x == [NoProduct EXCEPT !.status = "draft", !.availability = body.availability,
                                   !.stock = body.stock]
<1>1. IsProduct(x) /\ x.status = "draft"
    BY DEF IsProduct, NoProduct
<1>2. Added(x)
    BY DEF Create
<1>. HIDE DEF x
<1>. QED BY <1>1, <1>2, AddedKeeps

LEMMA CopyKeeps ==
    ASSUME ShelfInv, NEW n \in Products, Copy(n)
    PROVE  ShelfInv' /\ IdsStay
<1>. DEFINE draft == [NoProduct EXCEPT !.status = "draft",
                                       !.availability = shelf[n].availability]
            labels == Named(shelf[n])
<1>1. IsProduct(draft) /\ draft.status = "draft" /\ draft.option = NoOptions
    BY DEF IsProduct, NoProduct
<1>2. PICK ids \in NewIds(labels) : Added(WithOptions(draft, labels, ids))
    BY DEF Copy
<1>. HIDE DEF draft
<1>3. Named(draft) = {}
    BY <1>1 DEF Named, NoOptions
<1>4. New(draft, labels) = labels
    BY <1>3 DEF New
<1>. DEFINE x == WithOptions(draft, labels, ids)
<1>. HIDE DEF labels
<1>5. IsProduct(x) /\ x.status = "draft"
    BY <1>1, <1>2, <1>4, OptionsKeep
<1>6. Added(x)
    BY <1>2
<1>. HIDE DEF x
<1>. QED BY <1>5, <1>6, AddedKeeps

LEMMA SetStatusKeeps ==
    ASSUME ShelfInv, NEW n \in Products, Owned(n),
           NEW status, status # "none", Put(n, [shelf[n] EXCEPT !.status = status]),
           UNCHANGED <<carts, waiting>>
    PROVE  ShelfInv' /\ IdsStay
<1>. DEFINE x == [shelf[n] EXCEPT !.status = status]
<1>1. IsProduct(shelf[n])
    BY DEF ShelfInv
<1>2. /\ IsProduct(x) /\ x.status = status /\ x.option = shelf[n].option
      /\ x.availability = shelf[n].availability
    BY <1>1 DEF IsProduct
<1>3. Put(n, x)
    OBVIOUS
<1>. HIDE DEF x
<1>4. (n \in waiting' => x.availability = "sold_out") /\ NameStaysWith(shelf[n], x)
    BY <1>2 DEF ShelfInv, NobodyWaitsForWhatIsThere, NameStaysWith
<1>. QED BY <1>2, <1>3, <1>4, PutKeeps

LEMMA DeleteKeeps ==
    ASSUME ShelfInv, NEW n \in Products, Delete(n)
    PROVE  ShelfInv' /\ IdsStay
<1>. DEFINE x == [NoProduct EXCEPT !.status = "deleted"]
<1>1. IsProduct(x) /\ x.status = "deleted" /\ x.option = NoOptions
    BY DEF IsProduct, NoProduct
<1>2. Put(n, x) /\ waiting' = waiting \ {n} /\ carts' = carts \ {n}
    BY DEF Delete
<1>. HIDE DEF x
<1>3. NameStaysWith(shelf[n], x)
    BY <1>1 DEF NameStaysWith, NoOptions
<1>. QED BY <1>1, <1>2, <1>3, PutKeeps

LEMMA ServeKeepsShelf ==
    ASSUME ShelfInv, NEW c, ServeShelf(c) \/ ServeOrder(c) \/ ServeShop(c),
           c.op \in ShelfOps \ {"create"} => c.product \in Products
    PROVE  ShelfInv' /\ IdsStay
<1>1. CASE ServeOrder(c) \/ ServeShop(c)
    BY <1>1, ShelfUntouched DEF ServeOrder, ServeShop, server
<1>2. CASE c.op = "create" /\ Create(c.body)
    BY <1>2, CreateKeeps
<1>3. CASE /\ c.op \in ShelfOps \ {"create"} /\ Owned(c.product)
           /\ \/ c.op = "copy" /\ Copy(c.product)
              \/ c.op = "update" /\ Saved(c.product, c.body.availability, c.body.stock)
              \/ c.op = "toggle" /\ Toggle(c.product, c.body)
              \/ c.op = "publish" /\ MaySell(shop) /\ SetStatus(c.product, "published")
              \/ c.op = "withdraw" /\ SetStatus(c.product, "draft")
              \/ c.op = "options" /\ ReplaceOptions(c.product, c.body.labels)
              \/ c.op = "delete" /\ Delete(c.product)
              \/ c.op = "photo" /\ UNCHANGED server
    <2>. c.product \in Products /\ Owned(c.product)
        BY <1>3
    <2>1. CASE Copy(c.product)
        BY <2>1, CopyKeeps
    <2>2. CASE Saved(c.product, c.body.availability, c.body.stock)
        BY <2>2, SavedKeeps
    <2>3. CASE Toggle(c.product, c.body)
        BY <2>3, SavedKeeps DEF Toggle
    <2>4. CASE SetStatus(c.product, "published") \/ SetStatus(c.product, "draft")
        BY <2>4, SetStatusKeeps DEF SetStatus
    <2>5. CASE ReplaceOptions(c.product, c.body.labels)
        BY <2>5, ReplaceOptionsKeeps
    <2>6. CASE Delete(c.product)
        BY <2>6, DeleteKeeps
    <2>7. CASE UNCHANGED server
        BY <2>7, ShelfUntouched DEF server
    <2>. QED BY <1>3, <2>1, <2>2, <2>3, <2>4, <2>5, <2>6, <2>7
<1>. QED BY <1>1, <1>2, <1>3 DEF ServeShelf

-----------------------------------------------------------------------------
\* The page of one of the seller's devices becomes another; the requests are what they were.
LEMMA PageKeeps ==
    ASSUME PagesInv, NEW p \in Pages, NEW x, IsPage(x),
           x.notice \in {"", "error"} \cup done[p],
           page' = [page EXCEPT ![p] = x], UNCHANGED <<calls, done>>
    PROVE  PagesInv'
<1>1. /\ page' = [q \in Pages |-> page'[q]]
      /\ \A q \in Pages : page'[q] = IF q = p THEN x ELSE page[q]
    BY DEF PagesInv
<1>2. (\A q \in Pages : IsPage(page[q]))'
    <2>1. \A q \in Pages : IsPage(page'[q])
        BY <1>1 DEF PagesInv
    <2>. QED BY <2>1 DEF IsPage
<1>3. Answered(calls, done)'
    BY DEF PagesInv, Answered, IsCall, Products, ShelfOps
<1>4. NoticeIsTrue'
    BY <1>1 DEF PagesInv, NoticeIsTrue
<1>. QED BY <1>1, <1>2, <1>3, <1>4 DEF PagesInv

\* Requests come, change and go; what was done stays done.
LEMMA CallsKeep ==
    ASSUME PagesInv, NEW p \in Pages, NEW called, NEW did,
           page' = page, calls' = [calls EXCEPT ![p] = called], done' = [done EXCEPT ![p] = did],
           done[p] \subseteq did,
           \A c \in called :
              \/ c \in calls[p]
              \/ /\ IsCall(c) /\ (c.op \in ShelfOps \ {"create"} => c.product \in Products)
                 /\ c.phase \in {"served", "read"} => c.op \in did
    PROVE  PagesInv'
<1>1. /\ calls' = [q \in Pages |-> calls'[q]] /\ done' = [q \in Pages |-> done'[q]]
      /\ \A q \in Pages : calls'[q] = IF q = p THEN called ELSE calls[q]
      /\ \A q \in Pages : done'[q] = IF q = p THEN did ELSE done[q]
    BY DEF PagesInv
<1>2. \A q \in Pages : done[q] \subseteq done'[q]
    BY <1>1
<1>3. Answered(calls', done')
    <2>1. ASSUME NEW q \in Pages, NEW c \in calls'[q]
          PROVE  /\ IsCall(c) /\ (c.op \in ShelfOps \ {"create"} => c.product \in Products)
                 /\ c.phase \in {"served", "read"} => c.op \in done'[q]
        <3>1. CASE c \in calls[q]
            BY <1>2, <3>1 DEF PagesInv, Answered
        <3>2. CASE c \notin calls[q]
            BY <1>1, <2>1, <3>2
        <3>. QED BY <3>1, <3>2
    <2>. QED BY <2>1 DEF Answered
<1>4. (\A q \in Pages : IsPage(page[q]))' /\ page' = [q \in Pages |-> page'[q]]
    BY DEF PagesInv, IsPage
<1>5. NoticeIsTrue'
    BY <1>2 DEF PagesInv, NoticeIsTrue
<1>6. Answered(calls, done)'
    BY <1>3 DEF Answered, IsCall, Products, ShelfOps
<1>. QED BY <1>1, <1>4, <1>5, <1>6 DEF PagesInv

LEMMA SendKeeps ==
    ASSUME PagesInv, NEW p \in Pages, NEW tab, NEW op, NEW n, NEW body,
           Send(p, tab, op, n, body), op \in ShelfOps \ {"create"} => n \in Products
    PROVE  PagesInv' /\ UNCHANGED server
<1>. DEFINE c == [op |-> op, product |-> n, body |-> body, phase |-> "sent", seen |-> Unread]
            busy == BusyIn(p, tab) \cup {PartOf(op)}
            x == [page[p] EXCEPT !.notice = "", !.busy = busy]
<1>. HIDE DEF busy
<1>1. /\ calls' = [calls EXCEPT ![p] = @ \cup {c}] /\ UNCHANGED <<server, done>>
      /\ page' = [page EXCEPT ![p].notice = "", ![p].busy = busy]
    BY DEF Send, busy
<1>2. IsCall(c) /\ c.op = op /\ c.product = n /\ c.phase = "sent"
    BY DEF IsCall
<1>. HIDE DEF c
<1>3. IsPage(page[p]) /\ page = [q \in Pages |-> page[q]]
    BY DEF PagesInv
<1>4. IsPage(x) /\ x.notice = ""
    BY <1>3 DEF IsPage
<1>5. page' = [page EXCEPT ![p] = x]
    BY <1>1, <1>3
<1>. HIDE DEF x
<1>6. /\ page' = [q \in Pages |-> page'[q]]
      /\ \A q \in Pages : page'[q] = IF q = p THEN x ELSE page[q]
    BY <1>3, <1>5
<1>7. (\A q \in Pages : IsPage(page[q]))'
    <2>1. \A q \in Pages : IsPage(page'[q])
        BY <1>4, <1>6 DEF PagesInv
    <2>. QED BY <2>1 DEF IsPage
<1>8. NoticeIsTrue'
    BY <1>1, <1>4, <1>6 DEF PagesInv, NoticeIsTrue
<1>9. /\ calls' = [q \in Pages |-> calls'[q]] /\ done' = [q \in Pages |-> done'[q]]
      /\ \A q \in Pages : calls'[q] = IF q = p THEN calls[q] \cup {c} ELSE calls[q]
    BY <1>1 DEF PagesInv
<1>10. Answered(calls', done')
    <2>1. \A q \in Pages : \A d \in calls'[q] : d \in calls[q] \/ d = c
        BY <1>9
    <2>2. Answered(calls, done)
        BY DEF PagesInv
    <2>3. c.phase \notin {"served", "read"}
        BY <1>2
    <2>. QED BY <1>1, <1>2, <2>1, <2>2, <2>3 DEF Answered
<1>11. Answered(calls, done)'
    BY <1>10 DEF Answered, IsCall, Products, ShelfOps
<1>. QED BY <1>1, <1>6, <1>7, <1>8, <1>9, <1>11 DEF PagesInv

\* Every button sends a request of a product of the shelf, or of none.
LEMMA PressKeeps ==
    ASSUME PagesInv, NEW p \in Pages,
           \/ PressOnList(p) \/ SaveButton(p) \/ DeleteButton(p) \/ PhotoButtons(p)
           \/ SaveOptions(p) \/ PressReplied(p) \/ PressSaveShop(p) \/ PressInOrders(p)
           \/ PressInGrowth(p) \/ PressInBundles(p) \/ PressInQuotes(p)
    PROVE  PagesInv' /\ UNCHANGED server
<1>1. PICK tab, op, n, body :
        Send(p, tab, op, n, body) /\ (op \in ShelfOps \ {"create"} => n \in Products)
    <2>1. CASE PressOnList(p)
        BY <2>1 DEF PressOnList, OnShelf
    <2>2. CASE SaveButton(p)
        BY <2>2 DEF SaveButton, ShelfOps
    <2>3. CASE DeleteButton(p) \/ PhotoButtons(p) \/ SaveOptions(p)
        BY <2>3 DEF DeleteButton, PhotoButtons, SaveOptions
    <2>4. CASE PressReplied(p) \/ PressSaveShop(p) \/ PressInQuotes(p)
        BY <2>4 DEF PressReplied, PressSaveShop, PressInQuotes, ShelfOps
    <2>5. CASE PressInOrders(p)
        BY <2>5 DEF PressInOrders, ShelfOps, OrderOps
    <2>6. CASE PressInGrowth(p)
        <3>1. CASE \E on \in BOOLEAN :
                     /\ CodesCard(p, on)
                     /\ Send(p, "grow", "code", 0, [Blank EXCEPT !.on = on])
            BY <3>1, "code" \notin ShelfOps DEF ShelfOps
        <3>2. CASE Send(p, "grow", "boost", 0, On)
            BY <3>2 DEF ShelfOps
        <3>3. CASE Send(p, "grow", "banner", 0, On) \/ Send(p, "grow", "banner", 0, Blank)
            BY <3>3 DEF ShelfOps
        <3>. QED BY <2>6, <3>1, <3>2, <3>3 DEF PressInGrowth
    <2>7. CASE PressInBundles(p)
        BY <2>7 DEF PressInBundles, ShelfOps
    <2>. QED BY <2>1, <2>2, <2>3, <2>4, <2>5, <2>6, <2>7
<1>. QED BY <1>1, SendKeeps

-----------------------------------------------------------------------------
\* Opening, closing and reading leave what was said, except that a new dashboard shows more.
LEMMA LoadKeeps ==
    ASSUME PagesInv, NEW p \in Pages, Load(p) \/ Edit(p) \/ Close(p)
    PROVE  PagesInv' /\ UNCHANGED server
<1>1. UNCHANGED <<server, calls, done>>
    BY DEF Load, Edit, Close
<1>2. IsPage(page[p]) /\ page = [q \in Pages |-> page[q]] /\ page[p].notice \in {"", "error"} \cup done[p]
    BY DEF PagesInv, NoticeIsTrue
<1>3. CASE Load(p)
    <2>. DEFINE now == Current
                x == [page[p] EXCEPT !.loaded = TRUE, !.seen = now]
    <2>. HIDE DEF now
    <2>1. IsPage(x) /\ x.notice = page[p].notice
        BY <1>2 DEF IsPage
    <2>2. page' = [page EXCEPT ![p].loaded = TRUE, ![p].seen = now]
        BY <1>3 DEF Load, now
    <2>3. page' = [page EXCEPT ![p] = x]
        BY <1>2, <2>2
    <2>. HIDE DEF x
    <2>. QED BY <1>1, <1>2, <2>1, <2>3, PageKeeps
<1>4. CASE Edit(p) \/ Close(p)
    <2>1. PICK editing, form : page' = [page EXCEPT ![p].editing = editing, ![p].form = form]
        BY <1>4 DEF Edit, Close
    <2>. DEFINE x == [page[p] EXCEPT !.editing = editing, !.form = form]
    <2>2. IsPage(x) /\ x.notice = page[p].notice
        BY <1>2 DEF IsPage
    <2>3. page' = [page EXCEPT ![p] = x]
        BY <1>2, <2>1
    <2>. HIDE DEF x
    <2>. QED BY <1>1, <1>2, <2>2, <2>3, PageKeeps
<1>. QED BY <1>1, <1>3, <1>4

\* A request is served, refused or read back.
LEMMA BecomeKeeps ==
    ASSUME PagesInv, NEW p \in Pages, NEW c \in calls[p], NEW next, Become(p, c, next),
           page' = page, IsCall(next), next.op = c.op, next.product = c.product,
           \/ done' = [done EXCEPT ![p] = @ \cup {c.op}]
           \/ done' = done /\ (next.phase \in {"served", "read"} => c.phase \in {"served", "read"})
    PROVE  PagesInv'
<1>1. done = [q \in Pages |-> done[q]] /\ Answered(calls, done)
    BY DEF PagesInv
<1>2. calls' = [calls EXCEPT ![p] = (calls[p] \ {c}) \cup {next}]
    BY DEF Become
<1>3. c.op \in ShelfOps \ {"create"} => c.product \in Products
    BY <1>1 DEF Answered
<1>. DEFINE did == done'[p]
<1>4. done' = [done EXCEPT ![p] = did] /\ done[p] \subseteq did
    BY <1>1
<1>5. next.phase \in {"served", "read"} => c.op \in did
    BY <1>1 DEF Answered
<1>. DEFINE called == (calls[p] \ {c}) \cup {next}
<1>6. \A e \in called :
         \/ e \in calls[p]
         \/ /\ IsCall(e) /\ (e.op \in ShelfOps \ {"create"} => e.product \in Products)
            /\ e.phase \in {"served", "read"} => e.op \in did
    BY <1>3, <1>5
<1>7. calls' = [calls EXCEPT ![p] = called] /\ page' = page
    BY <1>2
<1>. HIDE DEF did, called
<1>. QED BY <1>4, <1>6, <1>7, CallsKeep

LEMMA AnswerKeeps ==
    ASSUME PagesInv, NEW p \in Pages, NEW c \in calls[p],
           Serve(p, c) \/ Refuse(p, c) \/ ReadBack(p, c)
    PROVE  PagesInv'
<1>1. IsCall(c)
    BY DEF PagesInv, Answered
<1>2. CASE Serve(p, c)
    <2>. DEFINE next == [c EXCEPT !.phase = "served", !.body = Blank]
    <2>1. IsCall(next) /\ next.op = c.op /\ next.product = c.product
        BY <1>1 DEF IsCall
    <2>2. Become(p, c, next) /\ page' = page /\ done' = [done EXCEPT ![p] = @ \cup {c.op}]
        BY <1>2 DEF Serve
    <2>. HIDE DEF next
    <2>. QED BY <2>1, <2>2, BecomeKeeps
<1>3. CASE Refuse(p, c)
    <2>. DEFINE next == [c EXCEPT !.phase = "refused", !.body = Blank]
    <2>1. IsCall(next) /\ next.op = c.op /\ next.product = c.product /\ next.phase = "refused"
        BY <1>1 DEF IsCall
    <2>2. Become(p, c, next) /\ page' = page /\ done' = done
        BY <1>3 DEF Refuse
    <2>. HIDE DEF next
    <2>. QED BY <2>1, <2>2, BecomeKeeps
<1>4. CASE ReadBack(p, c)
    <2>. DEFINE seen == Refreshed(Unread, PartOf(c.op), Current)
                next == [c EXCEPT !.phase = "read", !.seen = seen]
    <2>. HIDE DEF seen
    <2>1. IsCall(next) /\ next.op = c.op /\ next.product = c.product
        BY <1>1 DEF IsCall
    <2>2. Become(p, c, next) /\ page' = page /\ done' = done /\ c.phase = "served"
        BY <1>4 DEF ReadBack, seen
    <2>. HIDE DEF next
    <2>. QED BY <2>1, <2>2, BecomeKeeps
<1>. QED BY <1>2, <1>3, <1>4

\* The answer is shown: what it says was done.
LEMMA ShowKeeps ==
    ASSUME PagesInv, NEW p \in Pages, NEW c \in calls[p], Show(p, c) \/ Fail(p, c)
    PROVE  PagesInv' /\ UNCHANGED server
<1>1. calls' = [calls EXCEPT ![p] = calls[p] \ {c}] /\ UNCHANGED <<server, done>>
    BY DEF Show, Fail, Over
<1>2. /\ IsPage(page[p]) /\ page = [q \in Pages |-> page[q]]
      /\ page[p].notice \in {"", "error"} \cup done[p]
      /\ c.phase = "read" => c.op \in done[p]
    BY DEF PagesInv, NoticeIsTrue, Answered
<1>3. PICK x : /\ page' = [page EXCEPT ![p] = x]
               /\ IsPage(x) /\ x.notice \in {"", "error"} \cup done[p]
    <2>1. CASE page' = page
        BY <1>2, <2>1
    <2>2. CASE Show(p, c) /\ page' # page
        <3>. DEFINE seen == Refreshed(page[p].seen, PartOf(c.op), c.seen)
                    busy == page[p].busy \ {PartOf(c.op)}
                    notice == IF c.op = "replied" THEN page[p].notice ELSE c.op
                    editing == IF Closes(c) THEN NoEditor ELSE page[p].editing
                    form == IF Closes(c) THEN Blank ELSE page[p].form
                    x == [page[p] EXCEPT !.seen = seen, !.busy = busy, !.notice = notice,
                                         !.editing = editing, !.form = form]
        <3>1. page' = [page EXCEPT ![p].seen = seen, ![p].busy = busy, ![p].notice = notice,
                                   ![p].editing = editing, ![p].form = form]
            BY <2>2 DEF Show
        <3>2. notice \in {"", "error"} \cup done[p]
            BY <1>2, <2>2 DEF Show, Succeeded
        <3>. HIDE DEF seen, busy, notice, editing, form
        <3>3. IsPage(x) /\ x.notice = notice
            BY <1>2 DEF IsPage
        <3>4. page' = [page EXCEPT ![p] = x]
            BY <1>2, <3>1
        <3>. HIDE DEF x
        <3>. QED BY <3>2, <3>3, <3>4
    <2>3. CASE Fail(p, c) /\ page' # page
        <3>. DEFINE busy == page[p].busy \ {PartOf(c.op)}
                    editing == IF Closes(c) THEN NoEditor ELSE page[p].editing
                    form == IF Closes(c) THEN Blank ELSE page[p].form
                    x == [page[p] EXCEPT !.busy = busy, !.notice = "error",
                                         !.editing = editing, !.form = form]
        <3>1. page' = [page EXCEPT ![p].busy = busy, ![p].notice = "error",
                                   ![p].editing = editing, ![p].form = form]
            BY <2>3 DEF Fail
        <3>. HIDE DEF busy, editing, form
        <3>3. IsPage(x) /\ x.notice = "error"
            BY <1>2 DEF IsPage
        <3>4. page' = [page EXCEPT ![p] = x]
            BY <1>2, <3>1
        <3>. HIDE DEF x
        <3>. QED BY <3>3, <3>4
    <2>. QED BY <2>1, <2>2, <2>3
<1>4. /\ page' = [q \in Pages |-> page'[q]]
      /\ \A q \in Pages : page'[q] = IF q = p THEN x ELSE page[q]
    BY <1>2, <1>3
<1>5. (\A q \in Pages : IsPage(page[q]))'
    <2>1. \A q \in Pages : IsPage(page'[q])
        BY <1>3, <1>4 DEF PagesInv
    <2>. QED BY <2>1 DEF IsPage
<1>6. NoticeIsTrue'
    BY <1>1, <1>3, <1>4 DEF PagesInv, NoticeIsTrue
<1>7. /\ calls' = [q \in Pages |-> calls'[q]] /\ done' = [q \in Pages |-> done'[q]]
      /\ \A q \in Pages : calls'[q] \subseteq calls[q]
    BY <1>1 DEF PagesInv
<1>8. Answered(calls', done')
    <2>1. Answered(calls, done)
        BY DEF PagesInv
    <2>. QED BY <1>1, <1>7, <2>1 DEF Answered
<1>9. Answered(calls, done)'
    BY <1>8 DEF Answered, IsCall, Products, ShelfOps
<1>10. PagesInv'
    <2>1. page' = [q \in Pages |-> page'[q]]
        BY <1>4
    <2>2. calls' = [q \in Pages |-> calls'[q]] /\ done' = [q \in Pages |-> done'[q]]
        BY <1>7
    <2>. QED BY <1>5, <1>6, <1>9, <2>1, <2>2 DEF PagesInv
<1>. QED BY <1>1, <1>10

-----------------------------------------------------------------------------
\* Buyers and staff touch no page.
LEMMA OthersKeep ==
    ASSUME ShelfInv, StartOrder \/ Pay \/ Wait \/ BuyerOfOrder \/ Staff
    PROVE  ShelfInv' /\ IdsStay
<1>1. CASE StartOrder
    <2>1. PICK n \in Products \ carts : Buyable(shelf[n]) /\ carts' = carts \cup {n}
        BY <1>1 DEF StartOrder
    <2>2. UNCHANGED <<shelf, waiting>>
        BY <1>1 DEF StartOrder
    <2>3. shelf[n].status # "none"
        BY <2>1 DEF Buyable, Visible
    <2>. QED BY <2>1, <2>2, <2>3
             DEF ShelfInv, RoomIsEmpty, BuyersCameForProducts, NobodyWaitsForWhatIsThere,
                 IdsStay, IsProduct, NoProduct, NoOptions, Products
<1>2. CASE Pay
    <2>1. PICK n \in carts :
            /\ Put(n, [shelf[n] EXCEPT !.stock = Less(shelf[n].stock),
                         !.availability = IF Less(shelf[n].stock) = 0 THEN "sold_out" ELSE @])
            /\ carts' = carts \ {n}
        BY <1>2 DEF Pay
    <2>2. UNCHANGED waiting
        BY <1>2 DEF Pay
    <2>3. n \in Products /\ shelf[n].status # "none" /\ IsProduct(shelf[n])
        BY DEF ShelfInv, BuyersCameForProducts
    <2>. DEFINE left == Less(shelf[n].stock)
                now == IF left = 0 THEN "sold_out" ELSE shelf[n].availability
                x == [shelf[n] EXCEPT !.stock = left, !.availability = now]
    <2>4. Put(n, x)
        BY <2>1
    <2>5. n \in waiting => now = "sold_out"
        BY DEF ShelfInv, NobodyWaitsForWhatIsThere
    <2>. HIDE DEF left, now
    <2>6. /\ IsProduct(x) /\ x.status = shelf[n].status
          /\ x.option = shelf[n].option /\ x.availability = now
        BY <2>3 DEF IsProduct
    <2>. HIDE DEF x
    <2>7. NameStaysWith(shelf[n], x)
        BY <2>6 DEF NameStaysWith
    <2>. QED BY <2>1, <2>2, <2>3, <2>4, <2>5, <2>6, <2>7, PutKeeps
<1>3. CASE Wait
    <2>1. PICK n \in Products \ waiting :
            shelf[n].availability = "sold_out" /\ waiting' = waiting \cup {n}
        BY <1>3 DEF Wait
    <2>2. UNCHANGED <<shelf, carts>>
        BY <1>3 DEF Wait
    <2>. QED BY <2>1, <2>2
             DEF ShelfInv, RoomIsEmpty, BuyersCameForProducts, NobodyWaitsForWhatIsThere,
                 IdsStay, IsProduct, NoProduct, NoOptions, Products
<1>4. CASE BuyerOfOrder
    BY <1>4, ShelfUntouched DEF BuyerOfOrder
<1>5. CASE Staff
    <2>1. UNCHANGED <<carts, waiting>>
        BY <1>5 DEF Staff
    <2>2. CASE \E n \in Products :
                 \/ /\ Owned(n) /\ shelf[n].status # "suspended"
                    /\ Put(n, [shelf[n] EXCEPT !.status = "suspended"])
                 \/ /\ shelf[n].status = "suspended"
                    /\ Put(n, [shelf[n] EXCEPT !.status = "published"])
        <3>1. PICK n \in Products :
                 \/ /\ Owned(n) /\ shelf[n].status # "suspended"
                    /\ Put(n, [shelf[n] EXCEPT !.status = "suspended"])
                 \/ /\ shelf[n].status = "suspended"
                    /\ Put(n, [shelf[n] EXCEPT !.status = "published"])
            BY <2>2
        <3>2. Owned(n)
            BY <3>1 DEF Owned
        <3>. QED BY <2>1, <3>1, <3>2, SetStatusKeeps
    <2>3. CASE UNCHANGED shelf
        BY <2>1, <2>3, ShelfUntouched
    <2>. QED BY <1>5, <2>2, <2>3 DEF Staff
<1>. QED BY <1>1, <1>2, <1>3, <1>4, <1>5

LEMMA PagesUntouched ==
    ASSUME PagesInv, UNCHANGED <<page, calls, done>>
    PROVE  PagesInv'
BY DEF PagesInv, Answered, IsPage, IsCall, NoticeIsTrue, Products, ShelfOps

LEMMA DeskInitHolds == ASSUME DeskInit PROVE DeskInv
<1>1. 1 \in Products
    BY DeskAssumption DEF Products
<1>2. /\ PagesInv
    <2>1. \A p \in Pages : IsPage(page[p]) /\ page[p].notice = ""
        BY DEF DeskInit, IsPage
    <2>. QED BY <2>1 DEF DeskInit, PagesInv, Answered, NoticeIsTrue
<1>3. PICK product :
        /\ shelf = Shelf(product) /\ IsProduct(product) /\ product.status # "none"
        /\ waiting \subseteq {1} /\ carts \subseteq {1}
        /\ waiting # {} => product.availability = "sold_out"
    <2>. DEFINE draft == [NoProduct EXCEPT !.status = "draft"]
    <2>1. IsProduct(draft) /\ draft.status = "draft"
        BY DEF IsProduct, NoProduct
    <2>2. \A a : IsProduct(OnSale(a)) /\ OnSale(a).status = "published" /\ OnSale(a).availability = a
        BY DEF IsProduct, OnSale
    <2>3. CASE shelf = Shelf(draft) /\ carts = {} /\ waiting = {}
        <3>. HIDE DEF draft
        <3>. QED BY <2>1, <2>3
    <2>4. CASE shelf = Shelf(OnSale("available")) /\ carts = {1} /\ waiting = {}
        BY <2>2, <2>4
    <2>5. CASE shelf = Shelf(OnSale("sold_out")) /\ carts = {} /\ waiting = {1}
        BY <2>2, <2>5
    <2>. QED BY <2>3, <2>4, <2>5 DEF DeskInit
<1>4. /\ shelf = [n \in Products |-> shelf[n]] /\ shelf[1] = product
      /\ \A n \in Products : n # 1 => shelf[n] = NoProduct
    BY <1>1, <1>3 DEF Shelf
<1>5. \A n \in Products : IsProduct(shelf[n])
    <2>1. IsProduct(NoProduct)
        BY DEF IsProduct, NoProduct
    <2>. QED BY <1>3, <1>4, <2>1
<1>6. RoomIsEmpty /\ BuyersCameForProducts /\ NobodyWaitsForWhatIsThere
    BY <1>1, <1>3, <1>4 DEF RoomIsEmpty, BuyersCameForProducts, NobodyWaitsForWhatIsThere
<1>. QED BY <1>2, <1>4, <1>5, <1>6 DEF DeskInv, ShelfInv

LEMMA DeskStepKeeps == ASSUME DeskInv, [DeskNext]_deskVars PROVE DeskInv' /\ IdsStay
<1>1. ShelfInv /\ PagesInv
    BY DEF DeskInv
<1>2. ASSUME NEW p \in Pages,
             \/ Load(p) \/ Edit(p) \/ Close(p)
             \/ PressOnList(p) \/ SaveButton(p) \/ DeleteButton(p) \/ PhotoButtons(p)
             \/ SaveOptions(p) \/ PressReplied(p) \/ PressSaveShop(p) \/ PressInOrders(p)
             \/ PressInGrowth(p) \/ PressInBundles(p) \/ PressInQuotes(p)
             \/ \E c \in calls[p] : Show(p, c) \/ Fail(p, c)
      PROVE  DeskInv' /\ IdsStay
    <2>1. PagesInv' /\ UNCHANGED server
        BY <1>1, <1>2, LoadKeeps, PressKeeps, ShowKeeps
    <2>2. ShelfInv' /\ IdsStay
        BY <1>1, <2>1, ShelfUntouched DEF server
    <2>. QED BY <2>1, <2>2 DEF DeskInv
<1>3. ASSUME NEW p \in Pages, NEW c \in calls[p],
             Serve(p, c) \/ Refuse(p, c) \/ ReadBack(p, c)
      PROVE  DeskInv' /\ IdsStay
    <2>1. PagesInv'
        BY <1>1, <1>3, AnswerKeeps
    <2>2. ShelfInv' /\ IdsStay
        <3>1. CASE Serve(p, c)
            <4>1. c.op \in ShelfOps \ {"create"} => c.product \in Products
                BY <1>1 DEF PagesInv, Answered
            <4>2. ServeShelf(c) \/ ServeOrder(c) \/ ServeShop(c)
                BY <3>1 DEF Serve
            <4>. QED BY <1>1, <4>1, <4>2, ServeKeepsShelf
        <3>2. CASE Refuse(p, c) \/ ReadBack(p, c)
            BY <1>1, <3>2, ShelfUntouched DEF Refuse, ReadBack, server
        <3>. QED BY <1>3, <3>1, <3>2
    <2>. QED BY <2>1, <2>2 DEF DeskInv
<1>4. ASSUME StartOrder \/ Pay \/ Wait \/ BuyerOfOrder \/ Staff
      PROVE  DeskInv' /\ IdsStay
    <2>1. PagesInv'
        BY <1>1, <1>4, PagesUntouched DEF StartOrder, Pay, Wait, BuyerOfOrder, Staff
    <2>. QED BY <1>1, <1>4, <2>1, OthersKeep DEF DeskInv
<1>5. CASE UNCHANGED deskVars
    BY <1>1, <1>5, ShelfUntouched, PagesUntouched DEF deskVars, server, DeskInv
<1>. QED BY <1>2, <1>3, <1>4, <1>5 DEF DeskNext

\* The shelf and the pages of SellerDesk, whatever is pressed, answered and bought.
THEOREM DeskInvariance == DeskSpec => []DeskInv
<1>1. DeskInit => DeskInv
    BY DeskInitHolds
<1>2. DeskInv /\ [DeskNext]_deskVars => DeskInv'
    BY DeskStepKeeps
<1>. QED BY <1>1, <1>2, PTL DEF DeskSpec

\* Whatever a page announces, the server did (run and act), whichever of its requests is
\* answered first and however many are under way.
THEOREM NoticesAreTrue == DeskSpec => []NoticeIsTrue
<1>1. DeskInv => NoticeIsTrue
    BY DEF DeskInv, PagesInv
<1>. QED BY <1>1, DeskInvariance, PTL

\* Whoever waits for a product waits for one that is sold out
\* (after_availability_change, StockAlertView).
THEOREM WaitingIsForSoldOut == DeskSpec => []NobodyWaitsForWhatIsThere
<1>1. DeskInv => NobodyWaitsForWhatIsThere
    BY DEF DeskInv, ShelfInv
<1>. QED BY <1>1, DeskInvariance, PTL

\* An option has one id for as long as its name is among the options of its product, from
\* however old a page they are saved (SellerProductOptionsView).
THEOREM IdsAreKept == DeskSpec => OptionsKeepTheirIds
<1>1. DeskInv /\ [DeskNext]_deskVars
         => [\A n \in Products, l \in Labels :
               (shelf[n].option[l] # 0 /\ shelf'[n].option[l] # 0)
                  => shelf'[n].option[l] = shelf[n].option[l]]_deskVars
    BY DeskStepKeeps DEF IdsStay
<1>. QED BY <1>1, DeskInvariance, PTL DEF DeskSpec, OptionsKeepTheirIds

-----------------------------------------------------------------------------
(* SellerDesk: types. *)

ServerFits ==
    /\ shelf \in [Products -> Product] /\ shop \in Shop /\ order \in Order
    /\ kept \subseteq Cards /\ options \in 0..MaxOptions
    /\ carts \subseteq Products /\ waiting \subseteq Products
PagesFit ==
    /\ page \in [Pages -> Page] /\ presses \in 0..MaxPresses
    /\ calls \in [Pages -> SUBSET Call] /\ done \in [Pages -> SUBSET Ops]
OtherStepsFit == others \in 0..MaxOthers

\* Ids are of the options made so far: those that are saved have one, the others none.
LEMMA WithOptionsFits ==
    ASSUME NEW product \in Product, NEW labels \in SUBSET Labels, options \in 0..MaxOptions,
           NEW ids \in NewIds(New(product, labels)),
           options + Cardinality(New(product, labels)) <= MaxOptions
    PROVE  /\ WithOptions(product, labels, ids) \in Product
           /\ options + Cardinality(New(product, labels)) \in 0..MaxOptions
<1>. DEFINE new == New(product, labels)
            made == Cardinality(new)
            option == [l \in Labels |-> CASE l \notin labels -> 0
                                        [] l \in DOMAIN ids -> ids[l]
                                        [] OTHER -> product.option[l]]
            x == [product EXCEPT !.option = option]
<1>1. made \in Nat
    <2>1. new \subseteq Labels
        BY DEF New
    <2>2. IsFiniteSet(new)
        BY <2>1, DeskAssumption, FS_Subset
    <2>. QED BY <2>2, FS_CardinalityType
<1>2. options + made \in 0..MaxOptions
    BY <1>1, DeskAssumption
<1>3. \A l \in DOMAIN ids : ids[l] \in 0..MaxOptions
    <2>1. ids \in [new -> options + 1..options + made]
        BY DEF NewIds
    <2>. HIDE DEF new, made
    <2>. QED BY <1>1, <1>2, <2>1, DeskAssumption
<1>4. \A l \in Labels : product.option[l] \in 0..MaxOptions
    BY DEF Product
<1>. HIDE DEF new, made
<1>5. option \in [Labels -> 0..MaxOptions]
    BY <1>3, <1>4, DeskAssumption
<1>. HIDE DEF option
<1>6. x \in Product
    BY <1>5 DEF Product
<1>7. x = WithOptions(product, labels, ids)
    BY DEF WithOptions, option
<1>. HIDE DEF x
<1>. QED BY <1>2, <1>6, <1>7 DEF made, new

LEMMA EmptyFits == NoProduct \in Product /\ Blank \in Body /\ Unread \in Seen
<1>1. NoProduct \in Product
    BY DeskAssumption DEF NoProduct, NoOptions, Product, Availability, Stock
<1>. HIDE DEF NoProduct
<1>2. Unread \in Seen
    BY <1>1 DEF Unread, Seen, Shop, Order
<1>3. Blank \in Body
    BY DEF Blank, Body, Availability, Stock
<1>. QED BY <1>1, <1>2, <1>3

LEMMA PutFits ==
    ASSUME shelf \in [Products -> Product], NEW n \in Products, NEW x \in Product, Put(n, x)
    PROVE  shelf' \in [Products -> Product]
BY DEF Put

LEMMA AddedFits ==
    ASSUME ServerFits, NEW x \in Product, Added(x), options' \in 0..MaxOptions
    PROVE  ServerFits'
<1>1. PICK n \in Products : Put(n, x)
    BY DEF Added
<1>2. shelf' \in [Products -> Product]
    BY <1>1, PutFits DEF ServerFits
<1>. QED BY <1>2 DEF ServerFits, Added, Products, Product, Shop, Order, Stock, Cards

LEMMA SavedFits ==
    ASSUME ServerFits, NEW n \in Products, NEW availability \in Availability, NEW stock \in Stock,
           Saved(n, availability, stock)
    PROVE  ServerFits'
<1>. DEFINE x == [shelf[n] EXCEPT !.availability = availability, !.stock = stock]
<1>1. x \in Product
    BY DEF ServerFits, Product
<1>2. Put(n, x)
    BY DEF Saved
<1>. HIDE DEF x
<1>3. shelf' \in [Products -> Product]
    BY <1>1, <1>2, PutFits DEF ServerFits
<1>4. waiting' \subseteq Products
    BY DEF Saved, ServerFits
<1>. QED BY <1>3, <1>4 DEF ServerFits, Saved, Products, Product, Shop, Order, Stock, Cards

LEMMA ReplaceOptionsFits ==
    ASSUME ServerFits, NEW n \in Products, NEW labels \in SUBSET Labels, ReplaceOptions(n, labels)
    PROVE  ServerFits'
<1>. DEFINE made == Cardinality(New(shelf[n], labels))
<1>1. PICK ids \in NewIds(New(shelf[n], labels)) :
        Put(n, WithOptions(shelf[n], labels, ids))
    BY DEF ReplaceOptions
<1>2. options + made <= MaxOptions /\ options' = options + made
    BY DEF ReplaceOptions
<1>3. shelf[n] \in Product /\ options \in 0..MaxOptions
    BY DEF ServerFits
<1>. DEFINE x == WithOptions(shelf[n], labels, ids)
<1>4. x \in Product /\ options' \in 0..MaxOptions
    BY <1>1, <1>2, <1>3, WithOptionsFits
<1>5. Put(n, x)
    BY <1>1
<1>. HIDE DEF x, made
<1>6. shelf' \in [Products -> Product]
    BY <1>4, <1>5, PutFits DEF ServerFits
<1>. QED BY <1>4, <1>6 DEF ServerFits, ReplaceOptions, Products, Product, Shop, Order, Stock, Cards

LEMMA CreateFits ==
    ASSUME ServerFits, NEW body \in Body, Create(body)
    PROVE  ServerFits'
<1>. DEFINE x == [NoProduct EXCEPT !.status = "draft", !.availability = body.availability,
                                   !.stock = body.stock]
<1>1. body.availability \in Availability /\ body.stock \in Stock
    BY DEF Body
<1>2. x \in Product
    BY <1>1, EmptyFits DEF Product
<1>3. Added(x) /\ options' \in 0..MaxOptions
    BY DEF Create, ServerFits
<1>. HIDE DEF x
<1>. QED BY <1>2, <1>3, AddedFits

LEMMA CopyFits ==
    ASSUME ServerFits, NEW n \in Products, Copy(n)
    PROVE  ServerFits'
<1>. DEFINE draft == [NoProduct EXCEPT !.status = "draft", !.availability = shelf[n].availability]
            labels == Named(shelf[n])
<1>1. shelf[n] \in Product
    BY DEF ServerFits
<1>2. draft \in Product /\ draft.option = NoOptions
    BY <1>1, EmptyFits DEF Product, NoProduct
<1>3. PICK ids \in NewIds(labels) : Added(WithOptions(draft, labels, ids))
    BY DEF Copy
<1>4. /\ options + Cardinality(labels) <= MaxOptions
      /\ options' = options + Cardinality(labels)
    BY DEF Copy
<1>. HIDE DEF draft
<1>5. labels \in SUBSET Labels /\ New(draft, labels) = labels
    BY <1>2 DEF New, Named, NoOptions
<1>. HIDE DEF labels
<1>. DEFINE x == WithOptions(draft, labels, ids)
<1>6. x \in Product /\ options' \in 0..MaxOptions
    BY <1>2, <1>3, <1>4, <1>5, WithOptionsFits DEF ServerFits
<1>7. Added(x)
    BY <1>3
<1>. HIDE DEF x
<1>. QED BY <1>6, <1>7, AddedFits

LEMMA SetStatusFits ==
    ASSUME ServerFits, NEW n \in Products, NEW status \in {"draft", "published", "suspended"},
           Put(n, [shelf[n] EXCEPT !.status = status]),
           UNCHANGED <<shop, order, kept, options, carts, waiting>>
    PROVE  ServerFits'
<1>. DEFINE x == [shelf[n] EXCEPT !.status = status]
<1>1. x \in Product /\ Put(n, x)
    BY DEF ServerFits, Product
<1>. HIDE DEF x
<1>2. shelf' \in [Products -> Product]
    BY <1>1, PutFits DEF ServerFits
<1>. QED BY <1>2 DEF ServerFits, Products, Product, Shop, Order, Stock, Cards

LEMMA DeleteFits ==
    ASSUME ServerFits, NEW n \in Products, Delete(n)
    PROVE  ServerFits'
<1>. DEFINE x == [NoProduct EXCEPT !.status = "deleted"]
<1>1. x \in Product
    BY EmptyFits DEF Product
<1>2. Put(n, x)
    BY DEF Delete
<1>. HIDE DEF x
<1>3. shelf' \in [Products -> Product]
    BY <1>1, <1>2, PutFits DEF ServerFits
<1>. QED BY <1>3 DEF ServerFits, Delete, Products, Product, Shop, Order, Stock, Cards

LEMMA ServerRests ==
    ASSUME ServerFits, UNCHANGED server
    PROVE  ServerFits'
BY DEF ServerFits, server, Products, Product, Shop, Order, Stock, Cards

\* Every handler leaves the server with what its records may hold.
LEMMA ServeFits ==
    ASSUME ServerFits, NEW c \in Call, ServeShelf(c) \/ ServeOrder(c) \/ ServeShop(c),
           c.op \in ShelfOps \ {"create"} => c.product \in Products
    PROVE  ServerFits'
<1>0. c.body \in Body /\ c.body.labels \in SUBSET Labels /\ c.body.stock \in Stock
      /\ c.body.availability \in Availability
    BY DEF Call, Body
<1>1. CASE c.op = "create" /\ Create(c.body)
    BY <1>0, <1>1, CreateFits
<1>2. CASE /\ c.op \in ShelfOps \ {"create"} /\ Owned(c.product)
           /\ \/ c.op = "copy" /\ Copy(c.product)
              \/ c.op = "update" /\ Saved(c.product, c.body.availability, c.body.stock)
              \/ c.op = "toggle" /\ Toggle(c.product, c.body)
              \/ c.op = "publish" /\ MaySell(shop) /\ SetStatus(c.product, "published")
              \/ c.op = "withdraw" /\ SetStatus(c.product, "draft")
              \/ c.op = "options" /\ ReplaceOptions(c.product, c.body.labels)
              \/ c.op = "delete" /\ Delete(c.product)
              \/ c.op = "photo" /\ UNCHANGED server
    <2>. c.product \in Products
        BY <1>2
    <2>1. CASE Copy(c.product)
        BY <2>1, CopyFits
    <2>2. CASE Saved(c.product, c.body.availability, c.body.stock)
        BY <1>0, <2>2, SavedFits
    <2>3. CASE Toggle(c.product, c.body)
        <3>1. shelf[c.product].stock \in Stock /\ Uncounted \in Stock
            BY DEF ServerFits, Product, Stock
        <3>. DEFINE stock == IF c.body.on THEN Uncounted ELSE shelf[c.product].stock
        <3>2. stock \in Stock /\ Saved(c.product, c.body.availability, stock)
            BY <2>3, <3>1 DEF Toggle
        <3>. HIDE DEF stock
        <3>. QED BY <1>0, <3>2, SavedFits
    <2>4. CASE SetStatus(c.product, "published")
        BY <2>4, SetStatusFits DEF SetStatus
    <2>5. CASE SetStatus(c.product, "draft")
        BY <2>5, SetStatusFits DEF SetStatus
    <2>6. CASE ReplaceOptions(c.product, c.body.labels)
        BY <1>0, <2>6, ReplaceOptionsFits
    <2>7. CASE Delete(c.product)
        BY <2>7, DeleteFits
    <2>8. CASE UNCHANGED server
        BY <2>8, ServerRests
    <2>. QED BY <1>2, <2>1, <2>2, <2>3, <2>4, <2>5, <2>6, <2>7, <2>8
<1>3. CASE ServeOrder(c)
    <2>1. order' \in Order
        BY <1>3 DEF ServeOrder, ServerFits, Order
    <2>. QED BY <1>3, <2>1 DEF ServeOrder, ServerFits, Products, Product, Shop, Order, Stock, Cards
<1>4. CASE ServeShop(c)
    <2>1. CASE c.op = "shop" /\ shop' = [shop EXCEPT !.named = TRUE]
                 /\ UNCHANGED <<shelf, order, kept, options, carts, waiting>>
        <3>1. shop' \in Shop
            BY <2>1 DEF ServerFits, Shop
        <3>. QED BY <2>1, <3>1 DEF ServerFits, Products, Product, Shop, Order, Stock, Cards
    <2>2. CASE UNCHANGED server
        BY <2>2, ServerRests
    <2>3. CASE /\ c.op \in Cards
               /\ kept' = IF c.body.on THEN kept \cup {c.op} ELSE kept \ {c.op}
               /\ UNCHANGED <<shelf, shop, order, options, carts, waiting>>
        <3>1. kept' \subseteq Cards
            BY <2>3 DEF ServerFits
        <3>. QED BY <2>3, <3>1 DEF ServerFits, Products, Product, Shop, Order, Stock, Cards
    <2>. QED BY <1>4, <2>1, <2>2, <2>3 DEF ServeShop
<1>. QED BY <1>1, <1>2, <1>3, <1>4 DEF ServeShelf

\* Buyers and staff, too.
LEMMA OthersLeaveItFit ==
    ASSUME ServerFits, StartOrder \/ Pay \/ Wait \/ BuyerOfOrder \/ Staff
    PROVE  ServerFits'
<1>1. CASE StartOrder
    <2>1. carts' \subseteq Products /\ UNCHANGED <<shelf, shop, order, kept, options, waiting>>
        BY <1>1 DEF StartOrder, ServerFits
    <2>. QED BY <2>1 DEF ServerFits, Products, Product, Shop, Order, Stock, Cards
<1>2. CASE Pay
    <2>1. PICK n \in carts :
            /\ Put(n, [shelf[n] EXCEPT !.stock = Less(shelf[n].stock),
                         !.availability = IF Less(shelf[n].stock) = 0 THEN "sold_out" ELSE @])
            /\ carts' = carts \ {n} /\ UNCHANGED <<shop, order, kept, options, waiting>>
        BY <1>2 DEF Pay
    <2>2. n \in Products /\ shelf[n] \in Product
        BY DEF ServerFits
    <2>. DEFINE left == Less(shelf[n].stock)
                now == IF left = 0 THEN "sold_out" ELSE shelf[n].availability
                x == [shelf[n] EXCEPT !.stock = left, !.availability = now]
    <2>3. left \in Stock
        BY <2>2, DeskAssumption DEF Less, Stock, Product
    <2>4. now \in Availability
        BY <2>2 DEF Availability, Product
    <2>5. Put(n, x)
        BY <2>1
    <2>. HIDE DEF left, now
    <2>6. x \in Product
        BY <2>2, <2>3, <2>4 DEF Product
    <2>. HIDE DEF x
    <2>7. shelf' \in [Products -> Product]
        BY <2>2, <2>5, <2>6, PutFits DEF ServerFits
    <2>. QED BY <2>1, <2>7 DEF ServerFits, Products, Product, Shop, Order, Stock, Cards
<1>3. CASE Wait
    <2>1. waiting' \subseteq Products /\ UNCHANGED <<shelf, shop, order, kept, options, carts>>
        BY <1>3 DEF Wait, ServerFits
    <2>. QED BY <2>1 DEF ServerFits, Products, Product, Shop, Order, Stock, Cards
<1>4. CASE BuyerOfOrder
    <2>1. order' \in Order
        BY <1>4 DEF BuyerOfOrder, ServerFits, Order
    <2>. QED BY <1>4, <2>1 DEF BuyerOfOrder, ServerFits, Products, Product, Shop, Order, Stock, Cards
<1>5. CASE Staff
    <2>1. UNCHANGED <<order, kept, options, carts, waiting>>
        BY <1>5 DEF Staff
    <2>2. CASE UNCHANGED shop /\ \E n \in Products, status \in {"suspended", "published"} :
                 Put(n, [shelf[n] EXCEPT !.status = status])
        BY <2>1, <2>2, SetStatusFits
    <2>3. CASE UNCHANGED shelf /\ \E approval \in {"confirmed", "declined"} :
                 shop' = [shop EXCEPT !.approval = approval]
        <3>1. shop' \in Shop
            BY <2>3 DEF ServerFits, Shop
        <3>. QED BY <2>1, <2>3, <3>1 DEF ServerFits, Products, Product, Shop, Order, Stock, Cards
    <2>. QED BY <1>5, <2>2, <2>3 DEF Staff
<1>. QED BY <1>1, <1>2, <1>3, <1>4, <1>5

-----------------------------------------------------------------------------
\* The pages: a page and its requests become others of the same kind.
LEMMA PageFits ==
    ASSUME PagesFit, NEW p \in Pages, NEW x \in Page, page' = [page EXCEPT ![p] = x],
           UNCHANGED <<presses, done>>, calls' \in [Pages -> SUBSET Call]
    PROVE  PagesFit'
<1>1. page' \in [Pages -> Page]
    BY DEF PagesFit
<1>. QED BY <1>1 DEF PagesFit, Page, Call, Ops

LEMMA FieldsOfPage ==
    ASSUME PagesFit, NEW p \in Pages
    PROVE  /\ page[p] \in Page /\ page[p].seen \in Seen /\ page[p].form \in Body
           /\ page[p].busy \subseteq Parts /\ page[p].editing \in 0..NewProduct
           /\ \A n \in Products : page[p].seen.shelf[n] \in Product
BY DEF PagesFit, Page, Seen

LEMMA PartIsPart == ASSUME NEW op \in Ops PROVE PartOf(op) \in Parts
BY DEF PartOf, Parts

LEMMA CurrentFits == ASSUME ServerFits PROVE Current \in Seen
BY DEF ServerFits, Current, Seen

LEMMA RefreshedFits ==
    ASSUME NEW seen \in Seen, NEW read \in Seen, NEW part
    PROVE  Refreshed(seen, part, read) \in Seen
BY DEF Refreshed, Seen

LEMMA OpenFits ==
    ASSUME ServerFits, PagesFit, NEW p \in Pages, Load(p) \/ Edit(p) \/ Close(p)
    PROVE  PagesFit'
<1>1. page[p] \in Page /\ page \in [Pages -> Page]
    BY DEF PagesFit
<1>2. UNCHANGED <<presses, done>> /\ calls' \in [Pages -> SUBSET Call]
    BY DEF Load, Edit, Close, PagesFit
<1>3. CASE Load(p)
    <2>. DEFINE now == Current
                x == [page[p] EXCEPT !.loaded = TRUE, !.seen = now]
    <2>1. now \in Seen
        BY CurrentFits
    <2>. HIDE DEF now
    <2>2. x \in Page
        BY <1>1, <2>1 DEF Page
    <2>3. page' = [page EXCEPT ![p].loaded = TRUE, ![p].seen = now]
        BY <1>3 DEF Load, now
    <2>4. page' = [page EXCEPT ![p] = x]
        BY <1>1, <2>3
    <2>. HIDE DEF x
    <2>. QED BY <1>2, <2>2, <2>4, PageFits
<1>4. CASE Edit(p) \/ Close(p)
    <2>1. PICK editing \in 0..NewProduct, form \in Body :
            page' = [page EXCEPT ![p].editing = editing, ![p].form = form]
        <3>1. 0 \in 0..NewProduct /\ NewProduct \in 0..NewProduct /\ Products \subseteq 0..NewProduct
            BY DeskAssumption DEF NewProduct, Products
        <3>2. ASSUME NEW n \in Products PROVE Opened(page[p].seen.shelf[n]) \in Body
            <4>1. page[p].seen.shelf[n] \in Product
                BY FieldsOfPage
            <4>. QED BY <4>1 DEF Opened, Body, Product
        <3>3. CASE Close(p)
            BY <3>1, <3>3, EmptyFits DEF Close, NoEditor
        <3>4. CASE page' = [page EXCEPT ![p].editing = NewProduct, ![p].form = Blank]
            BY <3>1, <3>4, EmptyFits
        <3>5. CASE \E n \in OnShelf(p) :
                page' = [page EXCEPT ![p].editing = n, ![p].form = Opened(page[p].seen.shelf[n])]
            BY <3>1, <3>2, <3>5 DEF OnShelf
        <3>. QED BY <1>4, <3>3, <3>4, <3>5 DEF Edit
    <2>. DEFINE x == [page[p] EXCEPT !.editing = editing, !.form = form]
    <2>2. x \in Page
        BY <1>1 DEF Page
    <2>3. page' = [page EXCEPT ![p] = x]
        BY <1>1, <2>1
    <2>. HIDE DEF x
    <2>. QED BY <1>2, <2>2, <2>3, PageFits
<1>. QED BY <1>3, <1>4

LEMMA SendFits ==
    ASSUME PagesFit, NEW p \in Pages, NEW tab, NEW op \in Ops, NEW n \in 0..MaxProducts,
           NEW body \in Body, Send(p, tab, op, n, body)
    PROVE  PagesFit'
<1>. DEFINE c == [op |-> op, product |-> n, body |-> body, phase |-> "sent", seen |-> Unread]
            busy == BusyIn(p, tab) \cup {PartOf(op)}
            x == [page[p] EXCEPT !.notice = "", !.busy = busy]
<1>1. busy \subseteq Parts
    BY FieldsOfPage, PartIsPart DEF BusyIn
<1>. HIDE DEF busy
<1>2. page[p] \in Page /\ page \in [Pages -> Page]
    BY DEF PagesFit
<1>3. x \in Page
    BY <1>1, <1>2 DEF Page
<1>4. page' = [page EXCEPT ![p].notice = "", ![p].busy = busy]
    BY DEF Send, busy
<1>5. page' = [page EXCEPT ![p] = x]
    BY <1>2, <1>4
<1>. HIDE DEF x
<1>6. page' \in [Pages -> Page]
    BY <1>2, <1>3, <1>5
<1>7. c \in Call
    BY EmptyFits DEF Call
<1>8. calls' = [calls EXCEPT ![p] = @ \cup {c}]
    BY DEF Send
<1>. HIDE DEF c
<1>9. calls' \in [Pages -> SUBSET Call]
    BY <1>7, <1>8 DEF PagesFit
<1>10. presses' \in 0..MaxPresses
    <2>1. presses \in 0..MaxPresses /\ presses < MaxPresses /\ presses' = presses + 1
        BY DEF Send, PagesFit
    <2>. QED BY <2>1, DeskAssumption
<1>11. done' = done
    BY DEF Send
<1>. QED BY <1>6, <1>9, <1>10, <1>11 DEF PagesFit, Page, Call, Ops

\* Every button asks for something the server knows, of a product that may be there.
LEMMA PressFits ==
    ASSUME PagesFit, NEW p \in Pages,
           \/ PressOnList(p) \/ SaveButton(p) \/ DeleteButton(p) \/ PhotoButtons(p)
           \/ SaveOptions(p) \/ PressReplied(p) \/ PressSaveShop(p) \/ PressInOrders(p)
           \/ PressInGrowth(p) \/ PressInBundles(p) \/ PressInQuotes(p)
    PROVE  PagesFit'
<1>1. /\ Blank \in Body /\ On \in Body /\ \A on \in BOOLEAN : [Blank EXCEPT !.on = on] \in Body
      /\ 0 \in 0..MaxProducts /\ Products \subseteq 0..MaxProducts
    <2>1. 0 \in 0..MaxProducts /\ Products \subseteq 0..MaxProducts
        BY DeskAssumption DEF Products
    <2>2. \A on \in BOOLEAN : [Blank EXCEPT !.on = on] \in Body
        BY EmptyFits DEF Body
    <2>. QED BY <2>1, <2>2, EmptyFits DEF On
<1>2. ShelfOps \subseteq Ops /\ OrderOps \subseteq Ops /\ Cards \subseteq Ops /\ {"shop", "replied"} \subseteq Ops
    BY DEF Ops
<1>3. ASSUME NEW form \in Body PROVE Filled(form) \subseteq Body /\ OptionRows(form) \subseteq Body
    BY DEF Filled, OptionRows, Body
<1>4. ASSUME NEW tab, NEW op \in Ops, NEW n \in 0..MaxProducts, NEW body \in Body,
             Send(p, tab, op, n, body)
      PROVE  PagesFit'
    BY <1>4, SendFits
<1>. QED
    <2>1. CASE PressOnList(p)
        <3>1. PICK n \in OnShelf(p) :
                \/ Send(p, "products", "copy", n, Blank)
                \/ Send(p, "products", "toggle", n, Toggled(page[p].seen.shelf[n]))
                \/ Send(p, "products", "publish", n, Blank)
                \/ Send(p, "products", "withdraw", n, Blank)
            BY <2>1 DEF PressOnList
        <3>2. n \in Products
            BY DEF OnShelf
        <3>3. Toggled(page[p].seen.shelf[n]) \in Body
            BY <1>1 DEF Toggled, Body, Availability
        <3>. QED BY <1>1, <1>2, <1>4, <3>1, <3>2, <3>3 DEF ShelfOps
    <2>2. CASE SaveButton(p)
        <3>1. page[p].form \in Body
            BY FieldsOfPage
        <3>2. PICK op \in {"update", "create"}, n \in Products \cup {0},
                   body \in Filled(page[p].form) \cup Filled(Blank) :
                Send(p, "products", op, n, body)
            BY <2>2 DEF SaveButton
        <3>. QED BY <1>1, <1>2, <1>3, <1>4, <3>1, <3>2 DEF ShelfOps
    <2>3. CASE DeleteButton(p) \/ PhotoButtons(p)
        BY <1>1, <1>2, <1>4, <2>3 DEF DeleteButton, PhotoButtons, ShelfOps
    <2>4. CASE SaveOptions(p)
        <3>1. page[p].form \in Body
            BY FieldsOfPage
        <3>2. PICK n \in Products, body \in OptionRows(page[p].form) :
                Send(p, "products", "options", n, body)
            BY <2>4 DEF SaveOptions
        <3>. QED BY <1>1, <1>2, <1>3, <1>4, <3>1, <3>2 DEF ShelfOps
    <2>5. CASE PressReplied(p) \/ PressSaveShop(p)
        BY <1>1, <1>2, <1>4, <2>5 DEF PressReplied, PressSaveShop
    <2>6. CASE PressInOrders(p)
        <3>1. PICK op \in OrderOps \cup {"payout"}, body \in {Blank, On} :
                Send(p, "orders", op, 0, body)
            BY <2>6 DEF PressInOrders, OrderOps
        <3>. QED BY <1>1, <1>2, <1>4, <3>1 DEF Cards
    <2>7. CASE PressInGrowth(p)
        <3>1. CASE \E on \in BOOLEAN : Send(p, "grow", "code", 0, [Blank EXCEPT !.on = on])
            BY <1>1, <1>2, <1>4, <3>1 DEF Cards
        <3>2. CASE Send(p, "grow", "boost", 0, On)
            BY <1>1, <1>2, <1>4, <3>2 DEF Cards
        <3>3. CASE Send(p, "grow", "banner", 0, On)
            BY <1>1, <1>2, <1>4, <3>3 DEF Cards
        <3>4. CASE Send(p, "grow", "banner", 0, Blank)
            BY <1>1, <1>2, <1>4, <3>4 DEF Cards
        <3>. QED BY <2>7, <3>1, <3>2, <3>3, <3>4 DEF PressInGrowth
    <2>8. CASE PressInBundles(p)
        BY <1>1, <1>2, <1>4, <2>8 DEF PressInBundles, Cards
    <2>9. CASE PressInQuotes(p)
        BY <1>1, <1>2, <1>4, <2>9 DEF PressInQuotes, Cards
    <2>. QED BY <2>1, <2>2, <2>3, <2>4, <2>5, <2>6, <2>7, <2>8, <2>9

\* A request that is served, refused or read back is a request still.
LEMMA AnswerFits ==
    ASSUME ServerFits, PagesFit, NEW p \in Pages, NEW c \in calls[p],
           Serve(p, c) \/ Refuse(p, c) \/ ReadBack(p, c)
    PROVE  PagesFit'
<1>1. c \in Call /\ c.op \in Ops
    BY DEF PagesFit, Call
<1>2. page' = page /\ presses' = presses /\ done' \in [Pages -> SUBSET Ops]
    BY <1>1 DEF Serve, Refuse, ReadBack, PagesFit
<1>3. PICK next \in Call : Become(p, c, next)
    <2>1. [c EXCEPT !.phase = "served", !.body = Blank] \in Call
        BY <1>1, EmptyFits DEF Call
    <2>2. [c EXCEPT !.phase = "refused", !.body = Blank] \in Call
        BY <1>1, EmptyFits DEF Call
    <2>3. Refreshed(Unread, PartOf(c.op), Current) \in Seen
        BY EmptyFits, CurrentFits, RefreshedFits
    <2>4. [c EXCEPT !.phase = "read", !.seen = Refreshed(Unread, PartOf(c.op), Current)] \in Call
        BY <1>1, <2>3 DEF Call
    <2>. QED BY <2>1, <2>2, <2>4 DEF Serve, Refuse, ReadBack
<1>4. calls' \in [Pages -> SUBSET Call]
    BY <1>3 DEF Become, PagesFit
<1>. QED BY <1>2, <1>4 DEF PagesFit, Page, Call, Ops

LEMMA ShowFits ==
    ASSUME PagesFit, NEW p \in Pages, NEW c \in calls[p], Show(p, c) \/ Fail(p, c)
    PROVE  PagesFit'
<1>1. c \in Call /\ c.op \in Ops /\ c.seen \in Seen
    BY DEF PagesFit, Call
<1>2. UNCHANGED <<presses, done>> /\ calls' \in [Pages -> SUBSET Call]
    BY DEF Show, Fail, Over, PagesFit
<1>3. page[p] \in Page /\ page \in [Pages -> Page]
    BY DEF PagesFit
<1>. DEFINE seen == Refreshed(page[p].seen, PartOf(c.op), c.seen)
            busy == page[p].busy \ {PartOf(c.op)}
            notice == IF c.op = "replied" THEN page[p].notice ELSE c.op
            editing == IF Closes(c) THEN NoEditor ELSE page[p].editing
            form == IF Closes(c) THEN Blank ELSE page[p].form
<1>4. seen \in Seen
    BY <1>1, FieldsOfPage, RefreshedFits
<1>5. busy \in SUBSET Parts /\ editing \in 0..NewProduct /\ form \in Body
    BY FieldsOfPage, EmptyFits, DeskAssumption DEF NoEditor, NewProduct
<1>6. notice \in Ops \cup {"", "error"}
    BY <1>1, <1>3 DEF Page
<1>7. CASE page' = page
    BY <1>2, <1>3, <1>7 DEF PagesFit, Page, Call, Ops
<1>8. CASE Show(p, c) /\ page' # page
    <2>. DEFINE x == [page[p] EXCEPT !.seen = seen, !.busy = busy, !.notice = notice,
                                     !.editing = editing, !.form = form]
    <2>1. page' = [page EXCEPT ![p].seen = seen, ![p].busy = busy, ![p].notice = notice,
                               ![p].editing = editing, ![p].form = form]
        BY <1>8 DEF Show
    <2>. HIDE DEF seen, busy, notice, editing, form
    <2>2. x \in Page
        BY <1>3, <1>4, <1>5, <1>6 DEF Page
    <2>3. page' = [page EXCEPT ![p] = x]
        BY <1>3, <2>1
    <2>. HIDE DEF x
    <2>. QED BY <1>2, <2>2, <2>3, PageFits
<1>9. CASE Fail(p, c) /\ page' # page
    <2>. DEFINE x == [page[p] EXCEPT !.busy = busy, !.notice = "error",
                                     !.editing = editing, !.form = form]
    <2>1. page' = [page EXCEPT ![p].busy = busy, ![p].notice = "error",
                               ![p].editing = editing, ![p].form = form]
        BY <1>9 DEF Fail
    <2>. HIDE DEF busy, editing, form
    <2>2. x \in Page
        BY <1>3, <1>5 DEF Page
    <2>3. page' = [page EXCEPT ![p] = x]
        BY <1>3, <2>1
    <2>. HIDE DEF x
    <2>. QED BY <1>2, <2>2, <2>3, PageFits
<1>. QED BY <1>7, <1>8, <1>9

LEMMA PagesRest ==
    ASSUME PagesFit, UNCHANGED <<page, calls, presses, done>>
    PROVE  PagesFit'
BY DEF PagesFit, Page, Call, Ops

LEMMA OthersCounted ==
    ASSUME OtherStepsFit,
           \/ others' = others
           \/ others < MaxOthers /\ others' = others + 1
    PROVE  OtherStepsFit'
BY DeskAssumption DEF OtherStepsFit

-----------------------------------------------------------------------------
DeskFits == ServerFits /\ PagesFit /\ OtherStepsFit

LEMMA DeskBeginsFit == ASSUME DeskInit PROVE DeskFits
<1>1. /\ shop \in Shop /\ order \in Order /\ carts \subseteq Products /\ waiting \subseteq Products
    <2>1. /\ shop \in {Unread.shop, OldShop} /\ carts \subseteq {1} /\ waiting \subseteq {1}
          /\ order \in {Unread.order, [Unread.order EXCEPT !.balance = "waiting"]}
        BY DEF DeskInit
    <2>2. Unread.shop \in Shop /\ OldShop \in Shop
        BY DEF Unread, OldShop, Shop
    <2>3. Unread.order \in Order /\ [Unread.order EXCEPT !.balance = "waiting"] \in Order
        BY DEF Unread, Order
    <2>4. 1 \in Products
        BY DeskAssumption DEF Products
    <2>. QED BY <2>1, <2>2, <2>3, <2>4
<1>2. PICK product \in Product : shelf = Shelf(product)
    <2>1. [NoProduct EXCEPT !.status = "draft"] \in Product
        BY EmptyFits DEF Product
    <2>2. ASSUME NEW a \in {"available", "sold_out"} PROVE OnSale(a) \in Product
        <3>. DEFINE first == CHOOSE l \in Labels : TRUE
                    option == [NoOptions EXCEPT ![first] = 1]
                    stock == IF a = "sold_out" THEN 0 ELSE 1
        <3>. HIDE DEF first
        <3>1. option \in [Labels -> 0..MaxOptions]
            <4>1. 0 \in 0..MaxOptions /\ 1 \in 0..MaxOptions
                BY DeskAssumption
            <4>. QED BY <4>1 DEF NoOptions
        <3>2. stock \in Stock
            BY DeskAssumption DEF Stock
        <3>3. OnSale(a) = [status |-> "published", availability |-> a, stock |-> stock, option |-> option]
            BY DEF OnSale, first
        <3>. HIDE DEF option, stock
        <3>. QED BY <3>1, <3>2, <3>3 DEF Product, Availability
    <2>. QED BY <2>1, <2>2 DEF DeskInit
<1>3. shelf \in [Products -> Product]
    BY <1>2, EmptyFits DEF Shelf
<1>4. kept \subseteq Cards /\ options \in 0..MaxOptions
    <2>1. kept = {"payout"} /\ options = 1
        BY DEF DeskInit
    <2>. QED BY <2>1, DeskAssumption DEF Cards
<1>5. page \in [Pages -> Page]
    <2>. DEFINE x == [loaded |-> FALSE, seen |-> Unread, editing |-> NoEditor,
                      form |-> Blank, busy |-> {}, notice |-> ""]
    <2>1. x \in Page
        BY EmptyFits, DeskAssumption DEF Page, NoEditor, NewProduct
    <2>2. page = [p \in Pages |-> x]
        BY DEF DeskInit
    <2>. HIDE DEF x
    <2>. QED BY <2>1, <2>2
<1>6. /\ calls \in [Pages -> SUBSET Call] /\ done \in [Pages -> SUBSET Ops]
      /\ presses \in 0..MaxPresses /\ others \in 0..MaxOthers
    <2>1. /\ calls = [p \in Pages |-> {}] /\ done = [p \in Pages |-> {}]
          /\ presses = 0 /\ others = 0
        BY DEF DeskInit
    <2>. QED BY <2>1, DeskAssumption
<1>. QED BY <1>1, <1>3, <1>4, <1>5, <1>6 DEF DeskFits, ServerFits, PagesFit, OtherStepsFit

\* A request names a product of the shelf if it is about one: that is PagesInv.
LEMMA DeskStaysFit == ASSUME DeskFits, PagesInv, [DeskNext]_deskVars PROVE DeskFits'
<1>1. ServerFits /\ PagesFit /\ OtherStepsFit
    BY DEF DeskFits
<1>2. ASSUME NEW p \in Pages, Load(p) \/ Edit(p) \/ Close(p)
      PROVE  DeskFits'
    <2>1. UNCHANGED <<server, others>>
        BY <1>2 DEF Load, Edit, Close
    <2>. QED BY <1>1, <1>2, <2>1, ServerRests, OpenFits, OthersCounted DEF DeskFits
<1>3. ASSUME NEW p \in Pages,
             \/ PressOnList(p) \/ SaveButton(p) \/ DeleteButton(p) \/ PhotoButtons(p)
             \/ SaveOptions(p) \/ PressReplied(p) \/ PressSaveShop(p) \/ PressInOrders(p)
             \/ PressInGrowth(p) \/ PressInBundles(p) \/ PressInQuotes(p)
      PROVE  DeskFits'
    <2>1. UNCHANGED <<server, others>>
        BY <1>3 DEF PressOnList, SaveButton, DeleteButton, PhotoButtons, SaveOptions, PressReplied,
                    PressSaveShop, PressInOrders, PressInGrowth, PressInBundles, PressInQuotes, Send
    <2>. QED BY <1>1, <1>3, <2>1, ServerRests, PressFits, OthersCounted DEF DeskFits
<1>4. ASSUME NEW p \in Pages, NEW c \in calls[p], Serve(p, c) \/ Refuse(p, c) \/ ReadBack(p, c)
      PROVE  DeskFits'
    <2>1. PagesFit'
        BY <1>1, <1>4, AnswerFits
    <2>2. others' = others
        BY <1>4 DEF Serve, Refuse, ReadBack
    <2>3. CASE Serve(p, c)
        <3>1. c \in Call /\ (c.op \in ShelfOps \ {"create"} => c.product \in Products)
            BY <1>1 DEF PagesFit, PagesInv, Answered
        <3>2. ServeShelf(c) \/ ServeOrder(c) \/ ServeShop(c)
            BY <2>3 DEF Serve
        <3>3. ServerFits'
            BY <1>1, <3>1, <3>2, ServeFits
        <3>. QED BY <1>1, <2>1, <2>2, <3>3, OthersCounted DEF DeskFits
    <2>4. CASE Refuse(p, c) \/ ReadBack(p, c)
        <3>1. UNCHANGED server
            BY <2>4 DEF Refuse, ReadBack
        <3>. QED BY <1>1, <2>1, <2>2, <3>1, ServerRests, OthersCounted DEF DeskFits
    <2>. QED BY <1>4, <2>3, <2>4
<1>5. ASSUME NEW p \in Pages, NEW c \in calls[p], Show(p, c) \/ Fail(p, c)
      PROVE  DeskFits'
    <2>1. UNCHANGED <<server, others>>
        BY <1>5 DEF Show, Fail
    <2>. QED BY <1>1, <1>5, <2>1, ServerRests, ShowFits, OthersCounted DEF DeskFits
<1>6. ASSUME others < MaxOthers, others' = others + 1, StartOrder \/ Pay \/ Wait \/ BuyerOfOrder \/ Staff
      PROVE  DeskFits'
    <2>1. UNCHANGED <<page, calls, presses, done>>
        BY <1>6 DEF StartOrder, Pay, Wait, BuyerOfOrder, Staff
    <2>. QED BY <1>1, <1>6, <2>1, OthersLeaveItFit, PagesRest, OthersCounted DEF DeskFits
<1>7. CASE UNCHANGED deskVars
    BY <1>1, <1>7, ServerRests, PagesRest, OthersCounted DEF deskVars, DeskFits
<1>. QED BY <1>2, <1>3, <1>4, <1>5, <1>6, <1>7 DEF DeskNext

\* The shelf, the pages and the requests of SellerDesk hold what their types say, and no
\* more options, presses or other steps are counted than there may be: each handler writes
\* whole rows, from forms that were copied from what a page read earlier.
THEOREM DeskTypeCorrect == DeskSpec => []DeskTypeOK
<1>1. DeskInit => DeskFits
    BY DeskBeginsFit
<1>2. DeskInv /\ DeskFits /\ [DeskNext]_deskVars => DeskFits'
    BY DeskStaysFit DEF DeskInv
<1>3. DeskFits => DeskTypeOK
    BY DEF DeskFits, ServerFits, PagesFit, OtherStepsFit, DeskTypeOK
<1>. QED BY <1>1, <1>2, <1>3, DeskInvariance, PTL DEF DeskSpec
=============================================================================

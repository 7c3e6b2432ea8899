------------------------------ MODULE Storefront ------------------------------
(***************************************************************************)
(* A buyer of the marketplace: the bag in one browser (lib/bag.ts), the    *)
(* bag in the app and the bag on the account, the checkouts that pay one   *)
(* seller after another (Checkout.tsx, OrderStatus.tsx, app/checkout.tsx), *)
(* and the stock the paid orders are taken from (marketplace/stock.py).    *)
(*                                                                         *)
(* A seller here sells one thing, so a line of the bag is its seller's bag.*)
(* Prices, codes and delivery are the server's sum and are left out: an    *)
(* order is what of whose it is for, and whether it is paid.               *)
(***************************************************************************)
EXTENDS Naturals, FiniteSets, Sequences, FiniteSetsExt, Functions

CONSTANTS
    Products,      \* things for sale, each another seller's, numbered
    Counted,       \* those whose stock the seller counts
    Cap,           \* of one thing in a bag (20 in the code)
    StockAtFirst,  \* of a counted thing, and what a seller may put up again
    MaxOrders,     \* bound: orders made
    MaxCalls,      \* bound: requests under way
    MaxPresses     \* bound: what the buyer and the sellers do

ASSUME StorefrontAssumption ==
    /\ Products # {} /\ Products \subseteq Nat \ {0} /\ IsFiniteSet(Products)
    /\ Counted \subseteq Products
    /\ Cap \in Nat \ {0} /\ StockAtFirst \in Nat \ {0}
    /\ MaxOrders \in Nat \ {0} /\ MaxCalls \in Nat /\ MaxPresses \in Nat

VARIABLES
    shelf,      \* what is left of each thing, and whether it may be bought
    supplied,   \* history: what there was of it, sold things included
    orders,     \* orders made, in turn
    account,    \* the bag kept on the account
    signedIn,   \* this browser's session is the account's
    bag,        \* the bag in the browser's storage
    queue,      \* what is still to be paid for in this tab's checkout
    pushing,    \* the bag is about to be sent to the account
    page,       \* the page in the browser
    app,        \* the phone's app, which is signed in
    calls,      \* requests under way
    put,        \* history: what the buyer ever put in a bag
    joined,     \* history: the account's bag has come back to the browser
    presses

shops == <<shelf, supplied>>
browser == <<bag, queue, pushing>>
buyer == <<put, joined>>
vars == <<shops, orders, account, signedIn, browser, page, app, calls, buyer, presses>>

-----------------------------------------------------------------------------
(* The shapes *)

Bag == [Products -> 0..Cap]
Empty == [p \in Products |-> 0]
InBag(lines) == {p \in Products : lines[p] > 0}
LeastOf(a, b) == IF a < b THEN a ELSE b
\* The lines of one seller, and the bag without them.
Part(lines, seller) == [Empty EXCEPT ![seller] = lines[seller]]
Emptied(lines, seller) == [lines EXCEPT ![seller] = 0]
AddTo(lines, p, quantity) == [lines EXCEPT ![p] = LeastOf(@ + quantity, Cap)]

Shelf == [left : 0..StockAtFirst, open : BOOLEAN]
\* `from` is where the buyer paid: a bag on the website, a product's or a bundle's own
\* page, the app.
Order == [lines : Bag, from : {"bag", "once", "app"}, status : {"pending", "paid", "failed"},
          charge : {"none", "open", "success", "failed", "refused"}, told : BOOLEAN]

\* What a checkout pays for, and the forms that only ask: all prove the phone first.
Checkouts == {"now", "bag", "all", "bundle"}
Forms == {"ask", "quote", "alert"}
Wants == Checkouts \cup Forms \cup {"next", "none"}

Places == {"away", "product", "bag", "all", "saved", "order", "paystack"}
Page == [on : Places, seller : Products \cup {0}, want : Wants,
         step : {"details", "code", "done"}, busy : BOOLEAN, priced : BOOLEAN,
         queue : Bag, order : 0..MaxOrders]
Opened(place, seller) ==
    [on |-> place, seller |-> seller, want |-> "none", step |-> "details", busy |-> FALSE,
     priced |-> FALSE, queue |-> Empty, order |-> 0]
Gone == Opened("away", 0)

App == [bag : Bag, synced : {"no", "yes", "failed"}, timer : BOOLEAN, busy : BOOLEAN, order : 0..MaxOrders]

\* `lines` is what a request carries or its answer brings, `rest` what a checkout of
\* everything leaves for later.
Call(op, by, want, lines) ==
    [op |-> op, by |-> by, want |-> want, lines |-> lines, rest |-> Empty, order |-> 0,
     stage |-> "asked", ok |-> FALSE]

-----------------------------------------------------------------------------
(* Requests *)

Room == Cardinality(DOMAIN calls) < MaxCalls
Press == presses < MaxPresses /\ presses' = presses + 1 /\ Room
Free == CHOOSE id \in 1..MaxCalls : id \notin DOMAIN calls
With(pool, id, call) == [n \in DOMAIN pool \cup {id} |-> IF n = id THEN call ELSE pool[n]]
Send(call) == calls' = With(calls, Free, call)
Read(id) == calls' = Restrict(calls, DOMAIN calls \ {id})
ReadThenSend(id, call) == calls' = [calls EXCEPT ![id] = call]
At(id, op, stage) == id \in DOMAIN calls /\ calls[id].op = op /\ calls[id].stage = stage
Answer(id, ok, call) ==
    IF calls[id].by \in {"nobody", "app gone"} THEN Read(id)
    ELSE calls' = [calls EXCEPT ![id] = [call EXCEPT !.stage = "answered", !.ok = ok]]
Refuse(id) == Answer(id, FALSE, calls[id])
Session(call) == call.by \in {"app", "app gone"} \/ signedIn

\* A component that is left goes on with what it had begun, and shows nothing of it;
\* a page that is left altogether asks for nothing more.
Left == [id \in DOMAIN calls |->
            IF calls[id].by = "page" THEN [calls[id] EXCEPT !.by = "left"] ELSE calls[id]]
Unloaded == [id \in {n \in DOMAIN calls : ~(calls[n].by \in {"page", "left"} /\ calls[n].stage = "answered")} |->
                IF calls[id].by \in {"page", "left"} THEN [calls[id] EXCEPT !.by = "nobody"] ELSE calls[id]]
ByBrowser(id) == calls[id].by \in {"page", "left"}

-----------------------------------------------------------------------------
(* The server: bags, phones, orders *)

\* POST: the device's lines join the account's, and the numbers add up.  The answer
\* may be lost on its way.
ServeJoin(id) ==
    /\ At(id, "join", "asked")
    /\ IF Session(calls[id])
       THEN /\ account' = [p \in Products |-> LeastOf(account[p] + calls[id].lines[p], Cap)]
            /\ \/ Answer(id, TRUE, [calls[id] EXCEPT !.lines = account'])
               \/ Refuse(id)
       ELSE Refuse(id) /\ UNCHANGED account
    /\ UNCHANGED <<shops, orders, signedIn, browser, page, app, buyer, presses>>

\* PUT: the account's bag is what the device sends.
ServePush(id) ==
    /\ At(id, "push", "asked")
    /\ account' = IF Session(calls[id]) THEN calls[id].lines ELSE account
    /\ Read(id)
    /\ UNCHANGED <<shops, orders, signedIn, browser, page, app, buyer, presses>>

\* A phone that is proved needs no code; else one is texted.
ServeCode(id) ==
    /\ At(id, "code", "asked")
    /\ IF signedIn THEN Answer(id, TRUE, calls[id])
       ELSE Answer(id, TRUE, [calls[id] EXCEPT !.op = "text"])
    /\ UNCHANGED <<shops, orders, account, signedIn, browser, page, app, buyer, presses>>

\* The right code proves the phone and signs the buyer in.
ServeVerify(id) ==
    /\ At(id, "verify", "asked")
    /\ \/ signedIn' = TRUE /\ Answer(id, TRUE, calls[id])
       \/ UNCHANGED signedIn /\ Refuse(id)
    /\ UNCHANGED <<shops, orders, account, browser, page, app, buyer, presses>>

\* What a question, a quote or an alert needs: the phone; for an alert, that the
\* thing is sold out.
ServeForm(id) ==
    /\ At(id, "send", "asked") /\ calls[id].want \in Forms
    /\ IF signedIn /\ (calls[id].want = "alert" => \A p \in InBag(calls[id].lines) : ~shelf[p].open)
       THEN Answer(id, TRUE, calls[id]) ELSE Refuse(id)
    /\ UNCHANGED <<shops, orders, account, signedIn, browser, page, app, buyer, presses>>

\* The basket is looked at as things are now: there is something in it, all of it is
\* on sale, and there is enough of what is counted.
Buyable(lines) ==
    /\ InBag(lines) # {}
    /\ \A p \in InBag(lines) : shelf[p].open /\ (p \in Counted => lines[p] <= shelf[p].left)

PaidFrom(call) ==
    CASE call.by \in {"app", "app gone"} -> "app"
      [] call.want \in {"now", "bundle"} -> "once"
      [] OTHER -> "bag"

\* An order is kept, then Paystack is asked for its page, and may not answer.
ServeOrder(id) ==
    /\ At(id, "send", "asked") /\ calls[id].want \notin Forms
    /\ LET call == calls[id]
       IN IF Buyable(call.lines) /\ Session(call) /\ Len(orders) < MaxOrders
          THEN \E opened \in BOOLEAN :
                 /\ orders' = Append(orders, [lines |-> call.lines,
                        from |-> PaidFrom(call),
                        status |-> IF opened THEN "pending" ELSE "failed",
                        charge |-> IF opened THEN "none" ELSE "refused", told |-> FALSE])
                 /\ IF opened THEN Answer(id, TRUE, [call EXCEPT !.order = Len(orders) + 1]) ELSE Refuse(id)
          ELSE Refuse(id) /\ UNCHANGED orders
    /\ UNCHANGED <<shops, account, signedIn, browser, page, app, buyer, presses>>

-----------------------------------------------------------------------------
(* The server: a payment confirmed, and the stock it takes *)

\* The row of a product never goes below nothing: the database refuses it, and the
\* whole confirmation with it.
Enough(n) == \A p \in InBag(orders[n].lines) \cap Counted : orders[n].lines[p] <= shelf[p].left
Taken(n) ==
    [p \in Products |->
        IF p \in Counted /\ orders[n].lines[p] > 0
        THEN [left |-> shelf[p].left - orders[n].lines[p],
              open |-> shelf[p].open /\ shelf[p].left # orders[n].lines[p]]
        ELSE shelf[p]]

\* Under the order's lock: one that is paid is left alone.
AgainAndAgain(n, charge) ==  \* mutant of Confirm
    IF charge = "success"
    THEN /\ Enough(n) /\ shelf' = Taken(n)
         /\ orders' = [orders EXCEPT ![n].status = "paid"]
    ELSE /\ orders' = [orders EXCEPT ![n].status = IF @ = "paid" THEN @ ELSE "failed"]
         /\ UNCHANGED shelf
Confirm(n, charge) ==
    CASE orders[n].status = "paid" -> UNCHANGED <<orders, shelf>>
      [] orders[n].status # "paid" /\ charge = "success" ->
            /\ Enough(n) /\ shelf' = Taken(n)
            /\ orders' = [orders EXCEPT ![n].status = "paid"]
      [] orders[n].status # "paid" /\ charge = "failed" ->
            orders' = [orders EXCEPT ![n].status = "failed"] /\ UNCHANGED shelf
      [] OTHER ->  \* not made yet: under way, or given up
            /\ \E status \in {orders[n].status, "failed"} : orders' = [orders EXCEPT ![n].status = status]
            /\ UNCHANGED shelf

\* A pending order's payment is asked of Paystack first, and may be told of meanwhile.
ServeConfirm(id) ==
    /\ At(id, "confirm", "asked")
    /\ LET n == calls[id].order
       IN IF orders[n].status # "pending" THEN Answer(id, orders[n].status = "paid", calls[id])
          ELSE \/ calls' = [calls EXCEPT ![id].stage = orders[n].charge]
               \/ Refuse(id)
    /\ UNCHANGED <<shops, orders, account, signedIn, browser, page, app, buyer, presses>>

ConfirmVerified(id) ==
    /\ id \in DOMAIN calls /\ calls[id].op = "confirm" /\ calls[id].stage \in {"none", "open", "success", "failed"}
    /\ LET n == calls[id].order
       IN \/ Confirm(n, calls[id].stage) /\ Answer(id, orders'[n].status = "paid", calls[id])
          \/ calls[id].stage = "success" /\ ~Enough(n) /\ orders[n].status # "paid"
             /\ Refuse(id) /\ UNCHANGED <<orders, shelf>>
    /\ UNCHANGED <<supplied, account, signedIn, browser, page, app, buyer, presses>>

\* Paystack's own message, sent until the server has taken it.
Webhook(n) ==
    /\ n \in DOMAIN orders /\ orders[n].charge = "success" /\ ~orders[n].told
    /\ \/ /\ orders[n].status # "paid" /\ Enough(n) /\ shelf' = Taken(n)
          /\ orders' = [orders EXCEPT ![n].status = "paid", ![n].told = TRUE]
       \/ /\ orders[n].status = "paid"
          /\ orders' = [orders EXCEPT ![n].told = TRUE] /\ UNCHANGED shelf
    /\ UNCHANGED <<supplied, account, signedIn, browser, page, app, calls, buyer, presses>>

\* On Paystack's page, once it has been opened, or on the phone it sent a prompt to.
PageOpened(n) == orders' = [orders EXCEPT ![n].charge = "open"]
Pay(n) ==
    /\ n \in DOMAIN orders /\ orders[n].charge = "open"
    /\ \E charge \in {"success", "failed"} : orders' = [orders EXCEPT ![n].charge = charge]
    /\ UNCHANGED <<shops, account, signedIn, browser, page, app, calls, buyer, presses>>

\* How many there are in the first n orders, when order k counts for them[k].
UnitsUpTo(them) ==
    LET upTo[n \in 0..Len(orders)] == IF n = 0 THEN 0 ELSE upTo[n - 1] + them[n]
    IN  upTo[Len(orders)]
PaidUnits(p) ==
    UnitsUpTo([n \in 1..Len(orders) |-> IF orders[n].status = "paid" THEN orders[n].lines[p] ELSE 0])
ChargedUnits(p, from) ==
    UnitsUpTo([n \in 1..Len(orders) |->
                  IF orders[n].charge = "success" /\ orders[n].from \in from THEN orders[n].lines[p] ELSE 0])

\* A seller says how many there are now (SellerDesk has the editor this comes from).
SellerCounts ==
    /\ presses < MaxPresses /\ presses' = presses + 1
    /\ \E p \in Counted :
          /\ shelf' = [shelf EXCEPT ![p] = [left |-> StockAtFirst, open |-> TRUE]]
          /\ supplied' = [supplied EXCEPT ![p] = StockAtFirst + PaidUnits(p)]
    /\ UNCHANGED <<orders, account, signedIn, browser, page, app, calls, buyer>>

-----------------------------------------------------------------------------
(* The website: where the buyer is *)

\* The bag is written; it is sent to the account when no more is written for a while.
Write(lines) == bag' = lines /\ pushing' = TRUE

PushBag ==
    /\ pushing /\ Room
    /\ pushing' = FALSE
    /\ Send(Call("push", "page", "none", bag))
    /\ UNCHANGED <<shops, orders, account, signedIn, bag, queue, page, app, buyer, presses>>

\* Another page of the site; two of them make the browser's bag join the account's.
Open ==
    /\ Press
    /\ \/ \E place \in {"product", "bag"}, p \in Products :
             page' = Opened(place, p) /\ calls' = Left
       \/ \E place \in {"all", "saved"} :
             /\ page' = Opened(place, 0)
             /\ calls' = With(Left, Free, Call("join", "page", "none", bag))
    /\ UNCHANGED <<shops, orders, account, signedIn, browser, app, buyer>>

\* What comes back is the bag, whatever was put in it meanwhile.
Joined(id) ==
    /\ At(id, "join", "answered") /\ ByBrowser(id)
    /\ IF calls[id].ok THEN bag' = calls[id].lines /\ joined' = TRUE ELSE UNCHANGED <<bag, joined>>
    /\ Read(id)
    /\ UNCHANGED <<shops, orders, account, signedIn, queue, pushing, page, app, put, presses>>

SignOut ==
    /\ signedIn /\ Press
    /\ signedIn' = FALSE
    /\ UNCHANGED <<shops, orders, account, browser, page, app, calls, buyer>>

\* The tab is closed, and what it kept for itself is gone.
CloseTab ==
    /\ page.on # "away" /\ Press
    /\ page' = Gone /\ queue' = Empty /\ pushing' = FALSE /\ calls' = Unloaded
    /\ UNCHANGED <<shops, orders, account, signedIn, bag, app, buyer>>

AddToBag ==
    /\ page.on = "product" /\ Press
    /\ Write(AddTo(bag, page.seller, 1)) /\ put' = [put EXCEPT ![page.seller] = @ + 1]
    /\ UNCHANGED <<shops, orders, account, signedIn, queue, page, app, calls, joined>>

ChangeBag ==
    /\ page.on = "bag" /\ bag[page.seller] > 0 /\ Press
    /\ \/ bag[page.seller] < Cap /\ Write(AddTo(bag, page.seller, 1))
          /\ put' = [put EXCEPT ![page.seller] = @ + 1]
       \/ Write([bag EXCEPT ![page.seller] = @ - 1]) /\ UNCHANGED put
    /\ UNCHANGED <<shops, orders, account, signedIn, queue, page, app, calls, joined>>

-----------------------------------------------------------------------------
(* The website: paying, and asking *)

First(lines) == Min(InBag(lines))
One(p) == [Empty EXCEPT ![p] = 1]

\* What a form is about, and what a checkout of everything leaves for later.
LinesOf(want) ==
    CASE want = "bag" -> Part(bag, page.seller)
      [] want = "all" -> Part(bag, First(bag))
      [] want = "next" -> Part(page.queue, First(page.queue))
      [] want = "quote" -> Empty
      [] OTHER -> One(page.seller)
RestOf(want) ==
    CASE want = "all" -> Emptied(bag, First(bag))
      [] want = "next" -> Emptied(page.queue, First(page.queue))
      [] OTHER -> Empty

\* The server's total, asked for again at every change; the last one stays shown.
Priced ==
    /\ ~page.priced
    /\ \/ page.on = "product" /\ Buyable(One(page.seller))
       \/ page.on = "bag" /\ Buyable(Part(bag, page.seller))
       \/ page.on = "all" /\ InBag(bag) # {} /\ Buyable(Part(bag, First(bag)))
    /\ page' = [page EXCEPT !.priced = TRUE]
    /\ UNCHANGED <<shops, orders, account, signedIn, browser, app, calls, buyer, presses>>

\* The forms: who it is for and how it comes, the total, the code; each is shut while
\* its button is at work.
DetailsForm == page.step = "details" /\ ~page.busy
Total == page.priced
CodeForm == page.step = "code" /\ ~page.busy

Begin(want) ==
    /\ DetailsForm /\ Press
    /\ page' = [page EXCEPT !.want = want, !.busy = TRUE]
    /\ Send([Call("code", "page", want, LinesOf(want)) EXCEPT !.rest = RestOf(want)])
    /\ UNCHANGED <<shops, orders, account, signedIn, browser, app, buyer>>

BuyNow == page.on = "product" /\ Total /\ Begin("now")
BagCheckout == page.on = "bag" /\ bag[page.seller] > 0 /\ Total /\ Begin("bag")
CheckoutAll == page.on = "all" /\ InBag(bag) # {} /\ Total /\ Begin("all")
BundleCheckout == page.on = "product" /\ Begin("bundle")
AskSeller == page.on = "product" /\ Begin("ask")
QuoteForm == page.on = "product" /\ Begin("quote")
StockAlert == page.on = "product" /\ ~shelf[page.seller].open /\ Begin("alert")

Stopped == [page EXCEPT !.busy = FALSE]
Sending(id) == [calls[id] EXCEPT !.op = "send", !.stage = "asked", !.ok = FALSE]

\* The phone is proved already, and what was asked goes out; or a code is on its way.
CodeAsked(id) ==
    /\ At(id, "code", "answered") /\ ByBrowser(id)
    /\ ReadThenSend(id, Sending(id))
    /\ UNCHANGED <<shops, orders, account, signedIn, browser, page, app, buyer, presses>>

CodeTexted(id) ==
    /\ At(id, "text", "answered") /\ ByBrowser(id)
    /\ page' = IF calls[id].by = "page" THEN [Stopped EXCEPT !.step = "code"] ELSE page
    /\ Read(id)
    /\ UNCHANGED <<shops, orders, account, signedIn, browser, app, buyer, presses>>

\* The code is typed, and what is sent after it is what is there now.
ConfirmCode ==
    /\ CodeForm /\ Press
    /\ page.want \in {"bag", "all"} => InBag(bag) # {}
    /\ page' = [page EXCEPT !.busy = TRUE]
    /\ Send([Call("verify", "page", page.want, LinesOf(page.want)) EXCEPT !.rest = RestOf(page.want)])
    /\ UNCHANGED <<shops, orders, account, signedIn, browser, app, buyer>>

CodeChecked(id) ==
    /\ At(id, "verify", "answered") /\ ByBrowser(id)
    /\ IF calls[id].ok THEN ReadThenSend(id, Sending(id)) /\ UNCHANGED page
       ELSE /\ page' = IF calls[id].by = "page" THEN Stopped ELSE page
            /\ Read(id)
    /\ UNCHANGED <<shops, orders, account, signedIn, browser, app, buyer, presses>>

\* What is left for this tab to pay: a checkout of one thing forgets the rest.
LeavesTheQueue(call) ==  \* mutant of QueueAfter
    IF call.want \in {"now", "bag", "bundle"} THEN queue ELSE call.rest
QueueAfter(call) == IF call.want = "bundle" THEN queue ELSE call.rest
BagAfter(call) ==
    IF call.want \in {"bag", "all", "next"} THEN Emptied(bag, First(call.lines)) ELSE bag

\* An order is made: what it is for goes from the bag, and the browser to Paystack,
\* wherever it was by now; with it go the answers it waited for, and the bag that
\* was about to be sent.
Sent(id) ==
    /\ At(id, "send", "answered") /\ ByBrowser(id)
    /\ IF calls[id].ok /\ calls[id].want \notin Forms
       THEN /\ page' = [Opened("paystack", 0) EXCEPT !.order = calls[id].order]
            /\ queue' = QueueAfter(calls[id]) /\ bag' = BagAfter(calls[id]) /\ pushing' = FALSE
            /\ calls' = Restrict(Unloaded, DOMAIN Unloaded \ {id})
            /\ PageOpened(calls[id].order)
       ELSE /\ page' = IF calls[id].by = "left" THEN page
                       ELSE [Stopped EXCEPT !.step = IF calls[id].ok THEN "done" ELSE @]
            /\ Read(id)
            /\ UNCHANGED <<browser, orders>>
    /\ UNCHANGED <<shops, account, signedIn, app, buyer, presses>>

\* Paystack sends the buyer to the order's page, which has the payment looked into.
Return ==
    /\ page.on = "paystack" /\ orders[page.order].charge = "success" /\ Room
    /\ page' = [Opened("order", 0) EXCEPT !.order = page.order]
    /\ Send([Call("confirm", "page", "none", Empty) EXCEPT !.order = page.order])
    /\ UNCHANGED <<shops, orders, account, signedIn, browser, app, buyer, presses>>

\* A paid order's page reads, once, who is next to be paid.
OrderStatus(id) ==
    /\ At(id, "confirm", "answered") /\ ByBrowser(id)
    /\ page' = IF calls[id].by = "page" /\ calls[id].ok THEN [page EXCEPT !.queue = queue] ELSE page
    /\ Read(id)
    /\ UNCHANGED <<shops, orders, account, signedIn, browser, app, buyer, presses>>

OrderShown == page.on = "order"
NextShown == OrderShown /\ InBag(page.queue) # {}
NextPayment ==
    /\ NextShown /\ ~page.busy /\ Press
    /\ page' = [page EXCEPT !.busy = TRUE]
    /\ Send([Call("send", "page", "next", LinesOf("next")) EXCEPT !.rest = RestOf("next")])
    /\ UNCHANGED <<shops, orders, account, signedIn, browser, app, buyer>>

-----------------------------------------------------------------------------
(* The app *)

\* The phone's bag, changed: sent to the account later, once it has joined it.
AppWrites(lines) == [app EXCEPT !.bag = lines, !.timer = app.synced = "yes"]

AppProduct(p) == app.bag[p] < Cap
AppAdds ==
    /\ Press
    /\ \E p \in Products : /\ AppProduct(p)
                            /\ app' = AppWrites(AddTo(app.bag, p, 1))
                            /\ put' = [put EXCEPT ![p] = @ + 1]
    /\ UNCHANGED <<shops, orders, account, signedIn, browser, page, calls, joined>>

AppBag == InBag(app.bag)
AppRemoves ==
    /\ Press
    /\ \E p \in AppBag : app' = AppWrites(Emptied(app.bag, p))
    /\ UNCHANGED <<shops, orders, account, signedIn, browser, page, calls, buyer>>

\* When the app starts signed in, its bag joins the account's.
AppJoins ==
    /\ app.synced = "no" /\ Room
    /\ app' = [app EXCEPT !.synced = "yes"]
    /\ Send(Call("join", "app", "none", app.bag))
    /\ UNCHANGED <<shops, orders, account, signedIn, browser, page, buyer, presses>>

AppJoined(id) ==
    /\ At(id, "join", "answered") /\ calls[id].by = "app"
    /\ app' = IF calls[id].ok THEN [app EXCEPT !.bag = calls[id].lines, !.timer = FALSE]
              ELSE [app EXCEPT !.synced = "failed"]
    /\ Read(id)
    /\ UNCHANGED <<shops, orders, account, signedIn, browser, page, buyer, presses>>

AppPushes ==
    /\ app.timer /\ Room
    /\ app' = [app EXCEPT !.timer = FALSE]
    /\ IF app.synced = "yes" THEN Send(Call("push", "app", "none", app.bag)) ELSE UNCHANGED calls
    /\ UNCHANGED <<shops, orders, account, signedIn, browser, page, buyer, presses>>

\* One seller's part of the bag, or the first of all of them.
AppCheckout(p) == ~app.busy /\ Buyable(Part(app.bag, p))
AppPays ==
    /\ Press
    /\ \E p \in InBag(app.bag) :
          /\ AppCheckout(p)
          /\ Send(Call("send", "app", "bag", Part(app.bag, p)))
    /\ app' = [app EXCEPT !.busy = TRUE]
    /\ UNCHANGED <<shops, orders, account, signedIn, browser, page, buyer>>

AppSent(id) ==
    /\ At(id, "send", "answered") /\ calls[id].by = "app"
    /\ app' = [app EXCEPT !.busy = calls[id].ok, !.order = calls[id].order]
    /\ IF calls[id].ok THEN PageOpened(calls[id].order) ELSE UNCHANGED orders
    /\ Read(id)
    /\ UNCHANGED <<shops, account, signedIn, browser, page, buyer, presses>>

\* Paystack's sheet is closed, and whatever came of it, the server is asked.
AppReturns ==
    /\ app.order # 0 /\ Room
    /\ Send([Call("confirm", "app", "none", Empty) EXCEPT !.order = app.order])
    /\ app' = [app EXCEPT !.order = 0]
    /\ UNCHANGED <<shops, orders, account, signedIn, browser, page, buyer, presses>>

\* Only what is paid goes from the phone's bag.
AppConfirmed(id) ==
    /\ At(id, "confirm", "answered") /\ calls[id].by = "app"
    /\ app' = [IF calls[id].ok THEN AppWrites(Emptied(app.bag, First(orders[calls[id].order].lines))) ELSE app
               EXCEPT !.busy = FALSE]
    /\ Read(id)
    /\ UNCHANGED <<shops, orders, account, signedIn, browser, page, buyer, presses>>

AppRestarts ==
    /\ Press
    /\ app' = [app EXCEPT !.synced = "no", !.timer = FALSE, !.busy = FALSE, !.order = 0]
    /\ calls' = [id \in {n \in DOMAIN calls : ~(calls[n].by = "app" /\ calls[n].stage = "answered")} |->
                    IF calls[id].by = "app" THEN [calls[id] EXCEPT !.by = "app gone"] ELSE calls[id]]
    /\ UNCHANGED <<shops, orders, account, signedIn, browser, page, buyer>>

-----------------------------------------------------------------------------
TypeOK ==
    /\ shelf \in [Products -> Shelf] /\ supplied \in [Products -> Nat]
    /\ \A n \in DOMAIN orders : orders[n] \in Order
    /\ account \in Bag /\ bag \in Bag /\ queue \in Bag /\ put \in [Products -> Nat]
    /\ signedIn \in BOOLEAN /\ pushing \in BOOLEAN /\ joined \in BOOLEAN
    /\ page \in Page /\ app \in App
    /\ DOMAIN calls \subseteq 1..MaxCalls /\ presses \in 0..MaxPresses

\* A buyer with one of everything in the bag, looking at a checkout of it all, or on
\* the page of the first order of it, the rest still to be paid for.
All == [p \in Products |-> 1]
FirstPaid == [lines |-> Part(All, First(All)), from |-> "bag", status |-> "paid",
              charge |-> "success", told |-> TRUE]
Init ==
    /\ \/ /\ orders = <<>> /\ bag = All /\ queue = Empty
          /\ page \in {Gone, Opened("all", 0), Opened("product", First(All))}
       \/ /\ orders = <<FirstPaid>> /\ bag = Emptied(All, First(All)) /\ queue = bag
          /\ page = [Opened("order", 0) EXCEPT !.order = 1, !.queue = queue]
    /\ shelf = [p \in Products |-> [left |-> StockAtFirst, open |-> TRUE]]
    /\ supplied = [p \in Products |-> StockAtFirst + PaidUnits(p)]
    /\ signedIn \in BOOLEAN /\ account = IF signedIn THEN bag ELSE Empty
    /\ pushing = FALSE /\ joined = FALSE /\ put = All
    /\ app \in {[bag |-> Empty, synced |-> "no", timer |-> FALSE, busy |-> FALSE, order |-> 0],
                [bag |-> account, synced |-> "yes", timer |-> FALSE, busy |-> FALSE, order |-> 0]}
    /\ calls = <<>> /\ presses = 0

Serve(id) ==
    \/ ServeJoin(id) \/ ServePush(id) \/ ServeCode(id) \/ ServeVerify(id) \/ ServeForm(id)
    \/ ServeOrder(id) \/ ServeConfirm(id) \/ ConfirmVerified(id)
Answered(id) ==
    \/ Joined(id) \/ CodeAsked(id) \/ CodeTexted(id) \/ CodeChecked(id) \/ Sent(id) \/ OrderStatus(id)
    \/ AppJoined(id) \/ AppSent(id) \/ AppConfirmed(id)
Shopping ==
    \/ Open \/ SignOut \/ CloseTab \/ AddToBag \/ ChangeBag \/ PushBag \/ Priced
    \/ BuyNow \/ BagCheckout \/ CheckoutAll \/ BundleCheckout \/ AskSeller \/ QuoteForm
    \/ StockAlert \/ ConfirmCode \/ Return \/ NextPayment
OnThePhone == AppAdds \/ AppRemoves \/ AppJoins \/ AppPushes \/ AppPays \/ AppReturns \/ AppRestarts

Next ==
    \/ \E id \in 1..MaxCalls : Serve(id) \/ Answered(id)
    \/ \E n \in 1..MaxOrders : Webhook(n) \/ Pay(n)
    \/ SellerCounts \/ Shopping \/ OnThePhone

Spec == Init /\ [][Next]_vars

-----------------------------------------------------------------------------
(* Properties *)

\* What is left of a counted thing is what there was less what was paid for, however
\* often the return, the app and Paystack tell of each payment (confirm_order,
\* take_stock).
StockIsWhatIsLeft == \A p \in Counted : shelf[p].left + PaidUnits(p) = supplied[p]

\* What a buyer put in the bag once is paid for once, though two checkouts and the
\* queue of a third can be about it (Checkout.pay, NextPayment.payNext); until the
\* account's bag comes into it.
NothingPaidTwice == ~joined => \A p \in Products : ChargedUnits(p, {"bag"}) <= put[p]
=============================================================================

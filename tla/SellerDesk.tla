----------------------------- MODULE SellerDesk -----------------------------
(***************************************************************************)
(* A seller's workspace (SellerDashboard.tsx and its tabs), open on a      *)
(* phone and a laptop at once, over the shelf it edits, while buyers buy   *)
(* and wait, and staff confirm the seller and take products down.          *)
(*                                                                         *)
(* A press sends a request, which is served at one moment; then the page   *)
(* reads everything again, and shows what it read at a third.  What it     *)
(* shows in between, and the forms it copied from it, are stale.  Texts,   *)
(* prices and pictures are left out; a request is served in one step.      *)
(***************************************************************************)
EXTENDS Naturals, FiniteSets

CONSTANTS
    Pages,        \* the seller's open pages
    Labels,       \* names of a product's options
    MaxProducts,  \* bound: products ever made
    MaxStock,     \* bound: the most of one product the seller counts
    MaxOptions,   \* bound: options ever made
    MaxPresses,   \* bound: requests sent
    MaxOthers,    \* bound: steps of buyers and staff
    Uncounted     \* stock: null

ASSUME DeskAssumption ==
    /\ IsFiniteSet(Labels) /\ MaxProducts \in Nat \ {0} /\ MaxStock \in Nat \ {0}
    /\ MaxOptions \in Nat \ {0} /\ MaxPresses \in Nat /\ MaxOthers \in Nat /\ Uncounted \notin Nat

VARIABLES
    shelf,     \* the products
    shop,      \* the account
    order,     \* one paid order
    kept,      \* what else the tabs keep: Cards that are on
    options,   \* options made so far
    carts,     \* products somebody is at Paystack for
    waiting,   \* sold-out products somebody waits for
    page,      \* what each page shows and has in its forms
    calls,     \* requests of each page under way
    presses,   \* requests so far
    others,    \* steps of buyers and staff so far
    done       \* history: operations served, by page

server == <<shelf, shop, order, kept, options, carts, waiting>>
deskVars == <<server, page, calls, presses, others, done>>

Products == 1..MaxProducts
NoEditor == 0
NewProduct == MaxProducts + 1
Stock == 0..MaxStock \cup {Uncounted}
Availability == {"available", "made_to_order", "sold_out"}
Product == [status : {"none", "draft", "published", "suspended", "deleted"},
            availability : Availability, stock : Stock,
            option : [Labels -> 0..MaxOptions]]
NoOptions == [label \in Labels |-> 0]
NoProduct == [status |-> "none", availability |-> "available",
              stock |-> Uncounted, option |-> NoOptions]
Shop == [named : BOOLEAN, approval : {"pending", "confirmed", "declined"}]
Order == [stage : {"new", "delivered", "problem"},
          balance : {"none", "waiting", "due", "paid"}, reply : BOOLEAN]
Cards == {"payout", "banner", "code", "bundle", "lead", "boost"}
Seen == [shelf : [Products -> Product], shop : Shop, order : Order, kept : SUBSET Cards]

\* The body of a request: what the editor, the options or a button sends.
Body == [availability : Availability, stock : Stock, labels : SUBSET Labels, on : BOOLEAN]
Blank == [availability |-> "available", stock |-> Uncounted, labels |-> {}, on |-> FALSE]

Parts == {"desk", "orders", "grow", "codes", "bundles", "quotes"}
ShelfOps == {"create", "copy", "update", "toggle", "publish", "withdraw", "options", "delete", "photo"}
OrderOps == {"ready", "delivered", "reply"}
Ops == ShelfOps \cup OrderOps \cup Cards \cup {"shop", "replied"}
PartOf(op) ==
    CASE op \in OrderOps \cup {"payout"} -> "orders"
      [] op \in {"banner", "boost"} -> "grow"
      [] op = "code" -> "codes"
      [] op = "bundle" -> "bundles"
      [] op = "lead" -> "quotes"
      [] OTHER -> "desk"

Current == [shelf |-> shelf, shop |-> shop, order |-> order, kept |-> kept]
Unread == [shelf |-> [n \in Products |-> NoProduct],
           shop |-> [named |-> FALSE, approval |-> "pending"],
           order |-> [stage |-> "new", balance |-> "none", reply |-> FALSE], kept |-> {}]
Call == [op : Ops, product : 0..MaxProducts, body : Body,
         phase : {"sent", "served", "refused", "read"}, seen : Seen]
Page == [loaded : BOOLEAN, seen : Seen, editing : 0..NewProduct,
         form : Body, busy : SUBSET Parts, notice : Ops \cup {"", "error"}]

DeskTypeOK ==
    /\ shelf \in [Products -> Product] /\ shop \in Shop /\ order \in Order
    /\ kept \subseteq Cards /\ options \in 0..MaxOptions
    /\ carts \subseteq Products /\ waiting \subseteq Products
    /\ page \in [Pages -> Page] /\ presses \in 0..MaxPresses /\ others \in 0..MaxOthers
    /\ \A p \in Pages : calls[p] \subseteq Call
    /\ done \in [Pages -> SUBSET Ops]

MaySell(s) == s.named /\ s.approval = "confirmed"
Visible(product, s) == product.status = "published" /\ MaySell(s)

-----------------------------------------------------------------------------
\* What a page shows, and the buttons it offers.

\* Opening a tab and pressing in it is one step.  A tab's own component is made
\* anew when its tab opens, and has forgotten that it waits for an answer.
Loaded(p) == page[p].loaded
PartsOf(tab) == CASE tab = "grow" -> {"grow", "codes"}
                  [] tab \in {"orders", "bundles", "quotes"} -> {tab}
                  [] OTHER -> {}
BusyIn(p, tab) == page[p].busy \cap ({"desk"} \cup PartsOf(tab))
Free(p, tab, part) == Loaded(p) /\ part \notin BusyIn(p, tab)
OnShelf(p) == {n \in Products : page[p].seen.shelf[n].status \notin {"none", "deleted"}}

\* The product cards, when no editor is open.
List(p) == Loaded(p) /\ page[p].editing = NoEditor
CopyButton(p) == List(p) /\ Free(p, "products", "desk")
ToggleButton(p) == List(p) /\ Free(p, "products", "desk")
Toggled(product) ==
    IF product.availability = "sold_out"
    THEN [Blank EXCEPT !.on = product.stock = 0]
    ELSE [Blank EXCEPT !.availability = "sold_out"]
PublishButton(p, n) ==
    /\ List(p) /\ Free(p, "products", "desk")
    /\ MaySell(page[p].seen.shop) /\ page[p].seen.shelf[n].status = "draft"
WithdrawButton(p, n) ==
    List(p) /\ Free(p, "products", "desk") /\ page[p].seen.shelf[n].status = "published"

\* The editor copies the product when it opens, and what is typed is over that.
Editor(p, n) == page[p].editing = n /\ Free(p, "products", "desk")
Filled(form) ==
    {[form EXCEPT !.availability = a] : a \in Availability}
       \cup {[form EXCEPT !.stock = s] : s \in Stock}
OptionRows(form) == {[form EXCEPT !.labels = rows] : rows \in SUBSET Labels}

\* The cards of the other tabs, most with a busy flag of their own.
RepliedButton(p) == Loaded(p)
ShopForm(p) == Free(p, "shop", "desk")
OrderCard(p, op) ==
    LET seen == page[p].seen.order IN
    /\ Free(p, "orders", "orders")
    /\ \/ op = "ready" /\ seen.balance = "waiting"
       \/ op = "delivered" /\ seen.stage = "new" /\ seen.balance \notin {"waiting", "due"}
ProblemReply(p) ==
    /\ Free(p, "orders", "orders")
    /\ page[p].seen.order.stage = "problem" /\ ~ page[p].seen.order.reply
PayoutForm(p) == Free(p, "orders", "orders")
StopButton(p) == Free(p, "orders", "orders") /\ "payout" \in page[p].seen.kept
BannerCard(p, on) == Free(p, "grow", "grow") /\ (on \/ "banner" \in page[p].seen.kept)
BoostCard(p) ==
    /\ Free(p, "grow", "grow")
    /\ \E n \in Products : page[p].seen.shelf[n].status = "published"
CodesCard(p, on) == Free(p, "grow", "codes") /\ on = ("code" \notin page[p].seen.kept)
BundleForm(p) ==
    /\ Free(p, "bundles", "bundles")
    /\ \E n \in Products : page[p].seen.shelf[n].status = "published"
BundleList(p) == Free(p, "bundles", "bundles") /\ "bundle" \in page[p].seen.kept
QuotesCard(p) == Free(p, "quotes", "quotes") /\ "lead" \notin page[p].seen.kept

-----------------------------------------------------------------------------
\* The page.

Load(p) ==
    /\ ~ Loaded(p)
    /\ page' = [page EXCEPT ![p].loaded = TRUE, ![p].seen = Current]
    /\ UNCHANGED <<server, calls, presses, others, done>>

Opened(product) ==
    [availability |-> product.availability, stock |-> product.stock,
     labels |-> {label \in Labels : product.option[label] # 0}, on |-> FALSE]
Edit(p) ==
    /\ List(p)
    /\ \/ \E n \in OnShelf(p) :
            page' = [page EXCEPT ![p].editing = n, ![p].form = Opened(page[p].seen.shelf[n])]
       \/ page' = [page EXCEPT ![p].editing = NewProduct, ![p].form = Blank]
    /\ UNCHANGED <<server, calls, presses, others, done>>

Close(p) ==
    /\ page[p].editing # NoEditor
    /\ page' = [page EXCEPT ![p].editing = NoEditor, ![p].form = Blank]
    /\ UNCHANGED <<server, calls, presses, others, done>>

Send(p, tab, op, n, body) ==
    /\ presses < MaxPresses
    /\ presses' = presses + 1
    /\ calls' = [calls EXCEPT ![p] = @ \cup {[op |-> op, product |-> n, body |-> body,
                                              phase |-> "sent", seen |-> Unread]}]
    /\ page' = [page EXCEPT ![p].notice = "",
                            ![p].busy = BusyIn(p, tab) \cup {PartOf(op)}]
    /\ UNCHANGED <<server, others, done>>

PressOnList(p) ==
    \E n \in OnShelf(p) :
       \/ CopyButton(p) /\ Send(p, "products", "copy", n, Blank)
       \/ ToggleButton(p)
          /\ Send(p, "products", "toggle", n, Toggled(page[p].seen.shelf[n]))
       \/ PublishButton(p, n) /\ Send(p, "products", "publish", n, Blank)
       \/ WithdrawButton(p, n) /\ Send(p, "products", "withdraw", n, Blank)

SaveButton(p) ==
    \/ \E n \in Products, body \in Filled(page[p].form) :
         Editor(p, n) /\ Send(p, "products", "update", n, body)
    \/ \E body \in Filled(Blank) :
         Editor(p, NewProduct) /\ Send(p, "products", "create", 0, body)
DeleteButton(p) == \E n \in Products : Editor(p, n) /\ Send(p, "products", "delete", n, Blank)
PhotoButtons(p) == \E n \in Products : Editor(p, n) /\ Send(p, "products", "photo", n, Blank)
SaveOptions(p) ==
    \E n \in Products, rows \in OptionRows(page[p].form) :
       Editor(p, n) /\ Send(p, "products", "options", n, rows)

On == [Blank EXCEPT !.on = TRUE]
PressReplied(p) == RepliedButton(p) /\ Send(p, "enquiries", "replied", 0, Blank)
PressSaveShop(p) == ShopForm(p) /\ Send(p, "shop", "shop", 0, Blank)
PressInOrders(p) ==
    \/ \E op \in OrderOps : OrderCard(p, op) /\ Send(p, "orders", op, 0, Blank)
    \/ ProblemReply(p) /\ Send(p, "orders", "reply", 0, Blank)
    \/ PayoutForm(p) /\ Send(p, "orders", "payout", 0, On)
    \/ StopButton(p) /\ Send(p, "orders", "payout", 0, Blank)
PressInGrowth(p) ==
    \/ BoostCard(p) /\ Send(p, "grow", "boost", 0, On)
    \/ BannerCard(p, TRUE) /\ Send(p, "grow", "banner", 0, On)
    \/ BannerCard(p, FALSE) /\ Send(p, "grow", "banner", 0, Blank)
    \/ \E on \in BOOLEAN : CodesCard(p, on) /\ Send(p, "grow", "code", 0, [Blank EXCEPT !.on = on])
PressInBundles(p) ==
    \/ BundleForm(p) /\ Send(p, "bundles", "bundle", 0, On)
    \/ BundleList(p) /\ Send(p, "bundles", "bundle", 0, Blank)
PressInQuotes(p) == QuotesCard(p) /\ Send(p, "quotes", "lead", 0, On)

-----------------------------------------------------------------------------
\* The server: what each handler does to the shelf.

\* Nothing else of a product changes with what a buyer or the seller does here.
Put(n, product) == shelf' = [shelf EXCEPT ![n] = product]
Owned(n) == shelf[n].status \notin {"none", "deleted"}

\* Back from sold out: everybody waiting for it is texted.
OnlyReadyNow(was, now) == was = "sold_out" /\ now = "available"
BackFromSoldOut(was, now) == was = "sold_out" /\ now # was
Saved(n, availability, stock) ==
    /\ Put(n, [shelf[n] EXCEPT !.availability = availability, !.stock = stock])
    /\ waiting' = IF BackFromSoldOut(shelf[n].availability, availability)
                  THEN waiting \ {n} ELSE waiting
    /\ UNCHANGED <<shop, order, kept, options, carts>>

Added(product) ==
    /\ \E n \in Products :
         /\ shelf[n].status = "none" /\ \A m \in 1..(n - 1) : shelf[m].status # "none"
         /\ Put(n, product)
    /\ UNCHANGED <<shop, order, kept, carts, waiting>>

\* Options are found again by name; the others get ids of their own.
Named(product) == {l \in Labels : product.option[l] # 0}
AllOfThem(product, labels) == labels
New(product, labels) == labels \ Named(product)
NewIds(new) == {ids \in [new -> options + 1..options + Cardinality(new)] :
                  \A l, m \in new : l # m => ids[l] # ids[m]}
WithOptions(product, labels, ids) ==
    [product EXCEPT !.option =
       [l \in Labels |-> CASE l \notin labels -> 0
                           [] l \in DOMAIN ids -> ids[l]
                           [] OTHER -> product.option[l]]]
ReplaceOptions(n, labels) ==
    LET new == New(shelf[n], labels) IN
    /\ options + Cardinality(new) <= MaxOptions
    /\ \E ids \in NewIds(new) : Put(n, WithOptions(shelf[n], labels, ids))
    /\ options' = options + Cardinality(new)
    /\ UNCHANGED <<shop, order, kept, carts, waiting>>

Create(body) ==
    /\ Added([NoProduct EXCEPT !.status = "draft", !.availability = body.availability,
                               !.stock = body.stock])
    /\ UNCHANGED options
Copy(n) ==
    LET labels == Named(shelf[n]) IN
    /\ options + Cardinality(labels) <= MaxOptions
    /\ \E ids \in NewIds(labels) :
         Added(WithOptions([NoProduct EXCEPT !.status = "draft",
                              !.availability = shelf[n].availability], labels, ids))
    /\ options' = options + Cardinality(labels)
Toggle(n, body) ==
    Saved(n, body.availability, IF body.on THEN Uncounted ELSE shelf[n].stock)
SetStatus(n, status) ==
    /\ shelf[n].status # "suspended"
    /\ Put(n, [shelf[n] EXCEPT !.status = status])
    /\ UNCHANGED <<shop, order, kept, options, carts, waiting>>
Delete(n) ==
    /\ Put(n, [NoProduct EXCEPT !.status = "deleted"])
    /\ waiting' = waiting \ {n} /\ carts' = carts \ {n}
    /\ UNCHANGED <<shop, order, kept, options>>

ServeShelf(c) ==
    \/ c.op = "create" /\ Create(c.body)
    \/ /\ c.op \in ShelfOps \ {"create"} /\ Owned(c.product)
       /\ \/ c.op = "copy" /\ Copy(c.product)
          \/ c.op = "update" /\ Saved(c.product, c.body.availability, c.body.stock)
          \/ c.op = "toggle" /\ Toggle(c.product, c.body)
          \/ c.op = "publish" /\ MaySell(shop) /\ SetStatus(c.product, "published")
          \/ c.op = "withdraw" /\ SetStatus(c.product, "draft")
          \/ c.op = "options" /\ ReplaceOptions(c.product, c.body.labels)
          \/ c.op = "delete" /\ Delete(c.product)
          \/ c.op = "photo" /\ UNCHANGED server

ServeOrder(c) ==
    /\ \/ /\ c.op = "ready" /\ order.balance = "waiting"
          /\ order' = [order EXCEPT !.balance = "due"]
       \/ /\ c.op = "delivered" /\ order.balance \notin {"waiting", "due"}
          /\ order' = [order EXCEPT !.stage = IF @ = "new" THEN "delivered" ELSE @]
       \/ /\ c.op = "reply" /\ order.stage = "problem"
          /\ order' = [order EXCEPT !.reply = TRUE]
    /\ UNCHANGED <<shelf, shop, kept, options, carts, waiting>>

ServeShop(c) ==
    \/ /\ c.op = "shop" /\ shop' = [shop EXCEPT !.named = TRUE]
       /\ UNCHANGED <<shelf, order, kept, options, carts, waiting>>
    \/ c.op = "replied" /\ UNCHANGED server
    \/ /\ c.op \in Cards
       /\ kept' = IF c.body.on THEN kept \cup {c.op} ELSE kept \ {c.op}
       /\ UNCHANGED <<shelf, shop, order, options, carts, waiting>>

Become(p, c, next) == calls' = [calls EXCEPT ![p] = (@ \ {c}) \cup {next}]

Serve(p, c) ==
    /\ c.phase = "sent"
    /\ ServeShelf(c) \/ ServeOrder(c) \/ ServeShop(c)
    /\ Become(p, c, [c EXCEPT !.phase = "served", !.body = Blank])
    /\ done' = [done EXCEPT ![p] = @ \cup {c.op}]
    /\ UNCHANGED <<page, presses, others>>

\* A check, a rate limit, Paystack or the network may refuse any of them.
Refuse(p, c) ==
    /\ c.phase = "sent"
    /\ Become(p, c, [c EXCEPT !.phase = "refused", !.body = Blank])
    /\ UNCHANGED <<server, page, presses, others, done>>

-----------------------------------------------------------------------------
\* The answers.

\* The dashboard reads the shelf and the shop, the tabs what is theirs.
Refreshed(seen, part, read) ==
    IF part = "desk" THEN [seen EXCEPT !.shelf = read.shelf, !.shop = read.shop]
                     ELSE [seen EXCEPT !.order = read.order, !.kept = read.kept]

ReadBack(p, c) ==
    /\ c.phase = "served"
    /\ Become(p, c, [c EXCEPT !.phase = "read", !.seen = Refreshed(Unread, PartOf(c.op), Current)])
    /\ UNCHANGED <<server, page, presses, others, done>>

Mounted(p, c) == PartOf(c.op) = "desk" \/ PartOf(c.op) \in page[p].busy
Closes(c) == c.op \in {"create", "update", "delete"}
Over(p, c) == calls' = [calls EXCEPT ![p] = @ \ {c}]

\* The list is shown, and what was done is said; of a reply nothing is said.
AnyAnswer(c) == c.phase \in {"read", "refused"}
Succeeded(c) == c.phase = "read"
Show(p, c) ==
    /\ Succeeded(c)
    /\ page' = IF ~ Mounted(p, c) THEN page
               ELSE [page EXCEPT ![p].seen = Refreshed(@, PartOf(c.op), c.seen),
                                 ![p].busy = @ \ {PartOf(c.op)},
                                 ![p].notice = IF c.op = "replied" THEN @ ELSE c.op,
                                 ![p].editing = IF Closes(c) THEN NoEditor ELSE @,
                                 ![p].form = IF Closes(c) THEN Blank ELSE @]
    /\ Over(p, c)
    /\ UNCHANGED <<server, presses, others, done>>

\* The editor closes whether its save was done or not.
Fail(p, c) ==
    /\ c.phase \in {"refused", "served"}
    /\ page' = IF ~ Mounted(p, c) THEN page
               ELSE [page EXCEPT ![p].busy = @ \ {PartOf(c.op)}, ![p].notice = "error",
                                 ![p].editing = IF Closes(c) THEN NoEditor ELSE @,
                                 ![p].form = IF Closes(c) THEN Blank ELSE @]
    /\ Over(p, c)
    /\ UNCHANGED <<server, presses, others, done>>

-----------------------------------------------------------------------------
\* Buyers and staff.

Buyable(product) ==
    /\ Visible(product, shop) /\ "payout" \in kept
    /\ product.availability # "sold_out" /\ product.stock # 0
StartOrder ==
    \E n \in Products \ carts :
       /\ Buyable(shelf[n]) /\ carts' = carts \cup {n}
       /\ UNCHANGED <<shelf, shop, order, kept, options, waiting, page, calls, presses, done>>

Less(stock) == IF stock \in {0, Uncounted} THEN stock ELSE stock - 1
Pay ==
    \E n \in carts :
       LET left == Less(shelf[n].stock) IN
       /\ Put(n, [shelf[n] EXCEPT !.stock = left,
                                  !.availability = IF left = 0 THEN "sold_out" ELSE @])
       /\ carts' = carts \ {n}
       /\ UNCHANGED <<shop, order, kept, options, waiting, page, calls, presses, done>>

Wait ==
    \E n \in Products \ waiting :
       /\ Visible(shelf[n], shop) /\ shelf[n].availability = "sold_out"
       /\ waiting' = waiting \cup {n}
       /\ UNCHANGED <<shelf, shop, order, kept, options, carts, page, calls, presses, done>>

BuyerOfOrder ==
    /\ \/ order.balance = "due" /\ order' = [order EXCEPT !.balance = "paid"]
       \/ order.stage # "problem" /\ order' = [order EXCEPT !.stage = "problem"]
    /\ UNCHANGED <<shelf, shop, kept, options, carts, waiting, page, calls, presses, done>>

Staff ==
    /\ \/ /\ \E n \in Products :
               \/ /\ Owned(n) /\ shelf[n].status # "suspended"
                  /\ Put(n, [shelf[n] EXCEPT !.status = "suspended"])
               \/ /\ shelf[n].status = "suspended"
                  /\ Put(n, [shelf[n] EXCEPT !.status = "published"])
          /\ UNCHANGED shop
       \/ /\ \E approval \in {"confirmed", "declined"} \ {shop.approval} :
               shop' = [shop EXCEPT !.approval = approval]
          /\ UNCHANGED shelf
    /\ UNCHANGED <<order, kept, options, carts, waiting, page, calls, presses, done>>

\* The shop is new; or has been selling for a while, and somebody is paying for
\* the last of its product, or waits for it.
OldShop == [named |-> TRUE, approval |-> "confirmed"]
OnSale(availability) ==
    [status |-> "published", availability |-> availability,
     stock |-> IF availability = "sold_out" THEN 0 ELSE 1,
     option |-> [NoOptions EXCEPT ![CHOOSE l \in Labels : TRUE] = 1]]
Shelf(product) == [n \in Products |-> IF n = 1 THEN product ELSE NoProduct]
DeskInit ==
    /\ \/ /\ shop = Unread.shop /\ shelf = Shelf([NoProduct EXCEPT !.status = "draft"])
          /\ carts = {} /\ waiting = {} /\ order = Unread.order
       \/ /\ shop = OldShop /\ shelf = Shelf(OnSale("available"))
          /\ carts = {1} /\ waiting = {} /\ order = [Unread.order EXCEPT !.balance = "waiting"]
       \/ /\ shop = OldShop /\ shelf = Shelf(OnSale("sold_out"))
          /\ carts = {} /\ waiting = {1} /\ order = Unread.order
    /\ kept = {"payout"} /\ options = 1
    /\ page = [p \in Pages |-> [loaded |-> FALSE, seen |-> Unread, editing |-> NoEditor,
                                form |-> Blank, busy |-> {}, notice |-> ""]]
    /\ calls = [p \in Pages |-> {}] /\ presses = 0 /\ others = 0 /\ done = [p \in Pages |-> {}]

DeskNext ==
    \/ \E p \in Pages :
         \/ Load(p) \/ Edit(p) \/ Close(p)
         \/ PressOnList(p) \/ SaveButton(p) \/ DeleteButton(p) \/ PhotoButtons(p) \/ SaveOptions(p)
         \/ PressReplied(p) \/ PressSaveShop(p) \/ PressInOrders(p)
         \/ PressInGrowth(p) \/ PressInBundles(p) \/ PressInQuotes(p)
         \/ \E c \in calls[p] :
              Serve(p, c) \/ Refuse(p, c) \/ ReadBack(p, c) \/ Show(p, c) \/ Fail(p, c)
    \/ /\ others < MaxOthers /\ others' = others + 1
       /\ StartOrder \/ Pay \/ Wait \/ BuyerOfOrder \/ Staff

DeskSpec == DeskInit /\ [][DeskNext]_deskVars

-----------------------------------------------------------------------------
\* A bag and a cached page keep pointing at the choice they were made with: an
\* option keeps its id however often, and from however old a page, the options
\* are saved, as long as its name is among them.
\* SellerProductOptionsView: matched by name, so an option keeps its id.
OptionsKeepTheirIds ==
    [][\A n \in Products, l \in Labels :
         (shelf[n].option[l] # 0 /\ shelf'[n].option[l] # 0)
            => shelf'[n].option[l] = shelf[n].option[l]]_deskVars

\* A page never says that something was done which the server refused, whatever
\* other answers arrive in between.  run() of SellerDashboard.tsx and act() of
\* its tabs.
NoticeIsTrue ==
    \A p \in Pages : page[p].notice \in {"", "error"} \cup done[p]

\* Nobody is told to wait for what can be had: whoever waits for a product is
\* texted when it is on sale again, however the sale, the seller's two pages and
\* the wait follow one another.  after_availability_change and StockAlertView.
NobodyWaitsForWhatIsThere ==
    \A n \in waiting : shelf[n].availability = "sold_out"
=============================================================================

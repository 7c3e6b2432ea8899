----------------------------- MODULE CourseStudio -----------------------------
(***************************************************************************)
(* A trainer's own screens: the dashboard (TrainerDashboard.tsx), the      *)
(* price and the payout account (TrainerCourseSales.tsx) and the course    *)
(* studio (studio/CourseStudio.tsx, StudioLessons.tsx, ToolProducts.tsx),  *)
(* with the server's side of them (courses/views.py, courses/studio.py).   *)
(*                                                                         *)
(* Most forms write the one row that is the course's offer, each its own   *)
(* columns of it; a paid boost writes it too, when Paystack says so.  No   *)
(* day passes here: how long a course is featured is a number of days.     *)
(***************************************************************************)
EXTENDS Naturals, FiniteSets, Sequences, FiniteSetsExt, SequencesExt, Functions

CONSTANTS
    Lessons,     \* numbered; one of them is not uploaded yet
    TopPrice,    \* prices are 1..TopPrice, and 0 is free
    MaxBoosts,   \* bound: boosts started
    MaxCalls,    \* bound: requests under way
    MaxPresses   \* bound: what the trainer and the learners do

ASSUME StudioAssumption ==
    /\ Lessons # {} /\ Lessons \subseteq Nat \ {0} /\ IsFiniteSet(Lessons)
    /\ TopPrice \in Nat \ {0}
    /\ MaxBoosts \in Nat /\ MaxCalls \in Nat /\ MaxPresses \in Nat

VARIABLES
    offer,      \* the course's price, page and featuring, and where its money goes
    boosts,     \* featuring asked to be paid for
    places,     \* each lesson's place in the course, 0 for one not there
    course,     \* what else is kept: captions, a code, a question, a review, ...
    signedIn,   \* the browser's session
    page,       \* the screen the trainer has open
    calls,      \* requests under way
    presses

kept == <<offer, boosts, places, course>>
screen == <<signedIn, page>>
vars == <<kept, screen, calls, presses>>

-----------------------------------------------------------------------------
(* The shapes *)

Offer == [price : 0..TopPrice, sale : 0..TopPrice, page : BOOLEAN, tools : BOOLEAN,
          featured : Nat, payout : BOOLEAN]
NoOffer == [price |-> 0, sale |-> 0, page |-> FALSE, tools |-> FALSE, featured |-> 0, payout |-> FALSE]
Boost == [days : {1, 4}, status : {"pending", "paid", "failed"},
          charge : {"none", "success", "failed", "refused"}, told : BOOLEAN]
Course == [captions : BOOLEAN, code : {"none", "on", "off"}, question : {"none", "asked", "answered"},
           review : {"none", "given", "replied"}, enquiry : {"waiting", "replied"}, fresh : BOOLEAN,
           email : {"none", "asked", "proved"}]

Tabs == {"overview", "enquiries", "listing", "videos", "account"}  \* of the dashboard
Studio == {"studio", "lessons", "page", "selling", "learners"}
\* `list` is the lessons as they are on the screen, `answering` the open answer form,
\* `boost` the one the trainer went to Paystack for.
Page == [at : Tabs \cup Studio \cup {"paystack", "away"}, list : Seq(Lessons), dirty : BOOLEAN,
         payable : BOOLEAN, price : 0..TopPrice, answering : BOOLEAN, boost : 0..MaxBoosts]

Call(op, value) == [op |-> op, value |-> value, list |-> <<>>, row |-> NoOffer, stage |-> "asked",
                    ok |-> FALSE, shown |-> TRUE]

-----------------------------------------------------------------------------
(* Requests: a form is shut while its own is under way *)

Room == Cardinality(DOMAIN calls) < MaxCalls
Free == CHOOSE id \in 1..MaxCalls : id \notin DOMAIN calls
Press == presses < MaxPresses /\ presses' = presses + 1
Busy(ops) == \E id \in DOMAIN calls : calls[id].shown /\ calls[id].op \in ops
Ask(call) ==
    /\ Room /\ Press /\ ~Busy({call.op})
    /\ calls' = [id \in DOMAIN calls \cup {Free} |-> IF id \in DOMAIN calls THEN calls[id] ELSE call]
    /\ UNCHANGED <<kept, screen>>
Drop(id) == Restrict(calls, DOMAIN calls \ {id})
At(id, ops, stage) == id \in DOMAIN calls /\ calls[id].op \in ops /\ calls[id].stage = stage
Reply(id, ok) ==
    calls' = IF calls[id].shown THEN [calls EXCEPT ![id].stage = "answered", ![id].ok = ok] ELSE Drop(id)
\* A screen that is left shows no answer; what was asked is done all the same.
Unshown == [id \in {n \in DOMAIN calls : calls[n].stage # "answered"} |-> [calls[id] EXCEPT !.shown = FALSE]]

-----------------------------------------------------------------------------
(* The server: the offer's row *)

Uploaded == {l \in Lessons : places[l] > 0}
InOrder == SetToSortSeq(Uploaded, LAMBDA a, b : places[a] < places[b])

\* The row is read and what is asked checked against it: a price needs somewhere for
\* the money to go, a launch price a higher price.
Allowed(call) ==
    CASE call.op = "price" -> call.value = 0 \/ offer.payout
      [] call.op = "sale" -> call.value = 0 \/ call.value < offer.price
      [] OTHER -> TRUE
ReadOffer(id) ==
    /\ At(id, {"price", "sale"}, "asked")
    /\ IF signedIn /\ Allowed(calls[id]) THEN calls' = [calls EXCEPT ![id].stage = "read"] ELSE Reply(id, FALSE)
    /\ UNCHANGED <<kept, screen, presses>>

\* Then its own columns are written.
WriteOffer(id) ==
    /\ At(id, {"price", "sale"}, "read")
    /\ offer' = IF calls[id].op = "price" THEN [offer EXCEPT !.price = calls[id].value]
                ELSE [offer EXCEPT !.sale = calls[id].value]
    /\ Reply(id, TRUE)
    /\ UNCHANGED <<boosts, places, course, screen, presses>>

\* The page's words, or the tools linked to it: nothing of the row is looked at.
ServePage(id) ==
    /\ At(id, {"page", "tools"}, "asked")
    /\ IF signedIn
       THEN /\ offer' = IF calls[id].op = "page" THEN [offer EXCEPT !.page = TRUE]
                        ELSE [offer EXCEPT !.tools = ~@]
            /\ Reply(id, TRUE)
       ELSE Reply(id, FALSE) /\ UNCHANGED offer
    /\ UNCHANGED <<boosts, places, course, screen, presses>>

\* The payout account: the row is read, Paystack is asked to keep the account, and
\* the whole row is written.
ForgetsFirst(id) ==  \* mutant of AskPaystack
    offer' = [offer EXCEPT !.payout = FALSE] /\ calls' = [calls EXCEPT ![id].stage = "read", ![id].row = offer]
AskPaystack(id) ==
    calls' = [calls EXCEPT ![id].stage = "read", ![id].row = offer] /\ UNCHANGED offer
ReadPayout(id) ==
    /\ At(id, {"payout"}, "asked")
    /\ IF signedIn THEN AskPaystack(id) ELSE Reply(id, FALSE) /\ UNCHANGED offer
    /\ UNCHANGED <<boosts, places, course, screen, presses>>
WritePayout(id) ==
    /\ At(id, {"payout"}, "read")
    /\ \/ offer' = [calls[id].row EXCEPT !.payout = TRUE] /\ Reply(id, TRUE)
       \/ UNCHANGED offer /\ Reply(id, FALSE)
    /\ UNCHANGED <<boosts, places, course, screen, presses>>

-----------------------------------------------------------------------------
(* The server: boosts *)

ServeBoost(id) ==
    /\ At(id, {"boost"}, "asked")
    /\ IF signedIn /\ Uploaded # {} /\ Len(boosts) < MaxBoosts
       THEN \E opened \in BOOLEAN :
              /\ boosts' = Append(boosts, [days |-> calls[id].value, told |-> FALSE,
                               status |-> IF opened THEN "pending" ELSE "failed",
                               charge |-> IF opened THEN "none" ELSE "refused"])
              /\ IF opened /\ calls[id].shown
                 THEN calls' = [calls EXCEPT ![id].stage = "answered", ![id].ok = TRUE, ![id].value = Len(boosts) + 1]
                 ELSE Reply(id, FALSE)
       ELSE Reply(id, FALSE) /\ UNCHANGED boosts
    /\ UNCHANGED <<offer, places, course, screen, presses>>

\* With both rows locked: the days come after those already running.
GrantsAgain(n, charge) ==  \* mutant of ConfirmBoost
    IF charge = "success"
    THEN /\ offer' = [offer EXCEPT !.featured = @ + boosts[n].days]
         /\ boosts' = [boosts EXCEPT ![n].status = "paid", ![n].told = TRUE]
    ELSE UNCHANGED <<offer, boosts>>
ConfirmBoost(n, charge) ==
    CASE boosts[n].status = "paid" -> UNCHANGED <<offer, boosts>>
      [] boosts[n].status # "paid" /\ charge = "success" ->
            /\ offer' = [offer EXCEPT !.featured = @ + boosts[n].days]
            /\ boosts' = [boosts EXCEPT ![n].status = "paid"]
      [] boosts[n].status # "paid" /\ charge = "failed" ->
            boosts' = [boosts EXCEPT ![n].status = "failed"] /\ UNCHANGED offer
      [] OTHER -> UNCHANGED <<offer, boosts>>

\* Paystack is asked about a payment that is pending, and answers as things are then.
ServeVerify(id) ==
    /\ At(id, {"verify"}, "asked")
    /\ LET n == calls[id].value
       IN IF signedIn /\ boosts[n].status = "pending"
          THEN calls' = [calls EXCEPT ![id].stage = boosts[n].charge]
          ELSE Reply(id, boosts[n].status = "paid")
    /\ UNCHANGED <<kept, screen, presses>>
Verified(id) ==
    /\ id \in DOMAIN calls /\ calls[id].op = "verify" /\ calls[id].stage \in {"none", "success", "failed"}
    /\ LET n == calls[id].value IN ConfirmBoost(n, calls[id].stage) /\ Reply(id, boosts'[n].status = "paid")
    /\ UNCHANGED <<places, course, screen, presses>>

\* Paystack's own message, until the server has taken it.
Webhook(n) ==
    /\ n \in DOMAIN boosts /\ boosts[n].charge = "success" /\ ~boosts[n].told
    /\ \/ ConfirmBoost(n, "success")                                      \* and it comes again
       \/ boosts[n].status = "paid" /\ boosts' = [boosts EXCEPT ![n].told = TRUE] /\ UNCHANGED offer
    /\ UNCHANGED <<places, course, screen, calls, presses>>

Pay(n) ==
    /\ n \in DOMAIN boosts /\ boosts[n].charge = "none"
    /\ \E charge \in {"success", "failed"} : boosts' = [boosts EXCEPT ![n].charge = charge]
    /\ UNCHANGED <<offer, places, course, screen, calls, presses>>

-----------------------------------------------------------------------------
(* The server: lessons, codes, learners *)

\* The lessons there are, read before the new order is written.
ReadLessons(id) ==
    /\ At(id, {"order"}, "asked")
    /\ IF signedIn /\ Range(calls[id].list) \subseteq Uploaded
       THEN calls' = [calls EXCEPT ![id].stage = "read",
                          ![id].list = @ \o SelectSeq(InOrder, LAMBDA l : l \notin Range(calls[id].list))]
       ELSE Reply(id, FALSE)
    /\ UNCHANGED <<kept, screen, presses>>

\* First to last; those that were left out keep their order after them.
WriteLessons(id) ==
    /\ At(id, {"order"}, "read")
    /\ LET list == calls[id].list
       IN places' = [l \in Lessons |-> IF l \in Range(list) THEN CHOOSE n \in DOMAIN list : list[n] = l
                                       ELSE places[l]]
    /\ Reply(id, TRUE)
    /\ UNCHANGED <<offer, boosts, course, screen, presses>>

\* A new lesson comes last.
Upload ==
    /\ Press
    /\ \E l \in Lessons \ Uploaded :
          places' = [places EXCEPT ![l] = Max({places[k] : k \in Lessons}) + 1]
    /\ UNCHANGED <<offer, boosts, course, screen, calls>>

\* What the rest of the forms write, each a row of its own.
Becomes(call) ==
    CASE call.op = "text" -> course
      [] call.op = "captions" -> [course EXCEPT !.captions = call.value = 1]
      [] call.op = "code" -> [course EXCEPT !.code = IF @ = "none" THEN "on" ELSE @]
      [] call.op = "code on" -> [course EXCEPT !.code = IF @ = "none" THEN @ ELSE IF call.value = 1 THEN "on" ELSE "off"]
      [] call.op = "code gone" -> [course EXCEPT !.code = "none"]
      [] call.op = "answer" -> [course EXCEPT !.question = "answered"]
      [] call.op = "reply" -> [course EXCEPT !.review = "replied"]
      [] call.op = "replied" -> [course EXCEPT !.enquiry = IF call.value = 1 THEN "replied" ELSE "waiting"]
      [] call.op = "current" -> [course EXCEPT !.fresh = TRUE]
      [] call.op = "email" -> [course EXCEPT !.email = IF @ = "none" THEN "asked" ELSE @]
      [] call.op = "prove" -> [course EXCEPT !.email = "proved"]
Rest == {"text", "captions", "code", "code on", "code gone", "answer", "reply", "replied", "current",
         "email", "prove"}
MayBeWrong == {"captions", "code", "prove"}  \* no times, a word already used, another code
ServeRest(id) ==
    /\ At(id, Rest, "asked")
    /\ \/ signedIn /\ course' = Becomes(calls[id]) /\ Reply(id, TRUE)
       \/ (signedIn => calls[id].op \in MayBeWrong) /\ UNCHANGED course /\ Reply(id, FALSE)
    /\ UNCHANGED <<offer, boosts, places, screen, presses>>

\* A learner asks under a lesson, or says what the course was like; a reply to an
\* earlier review stays.
AskForm == course.question = "none"
LearnerAsks ==
    /\ AskForm /\ Press
    /\ course' = [course EXCEPT !.question = "asked"]
    /\ UNCHANGED <<offer, boosts, places, screen, calls>>
ReviewForm == course.review = "none"
LearnerReviews ==
    /\ ReviewForm /\ Press
    /\ course' = [course EXCEPT !.review = "given"]
    /\ UNCHANGED <<offer, boosts, places, screen, calls>>

-----------------------------------------------------------------------------
(* The trainer's screens *)

\* A screen shows nothing until it has read what it is about.
Loaded(at) ==
    [at |-> at, list |-> InOrder, dirty |-> FALSE, payable |-> offer.payout, price |-> offer.price,
     answering |-> course.question = "asked", boost |-> 0]
Away == [Loaded("away") EXCEPT !.list = <<>>, !.payable = FALSE, !.price = 0, !.answering = FALSE]

Open(at) ==
    /\ signedIn /\ page.at # at /\ Press
    /\ page' = Loaded(at) /\ calls' = Unshown
    /\ UNCHANGED <<kept, signedIn>>
OpenTab == \E tab \in Tabs : Open(tab)
OpenStudio == \E tab \in Studio : Open(tab)

\* Back from Paystack, and the boost is looked into.
Return ==
    /\ page.at = "paystack" /\ boosts[page.boost].charge # "none" /\ Room
    /\ page' = Loaded("selling")
    /\ calls' = [id \in DOMAIN calls \cup {Free} |->
                    IF id \in DOMAIN calls THEN calls[id] ELSE Call("verify", page.boost)]
    /\ UNCHANGED <<kept, signedIn, presses>>

SignOut ==
    /\ page.at \in Tabs /\ Press
    /\ signedIn' = FALSE /\ page' = Away /\ calls' = Unshown
    /\ UNCHANGED kept
SignIn ==
    /\ ~signedIn /\ Press
    /\ signedIn' = TRUE /\ page' = Loaded("overview")
    /\ UNCHANGED <<kept, calls>>

\* The dashboard: what each tab lets the trainer do.
EnquiryRow == page.at = "enquiries"
MarkReplied == EnquiryRow /\ \E v \in 0..1 : Ask(Call("replied", v))
StillCurrent == page.at = "overview"
ConfirmStillCurrent == StillCurrent /\ Ask(Call("current", 1))
EmailForm == page.at = "account" /\ course.email = "none"
AddEmail == EmailForm /\ Ask(Call("email", 1))
CodeForm == page.at = "account" /\ course.email = "asked"
ProveEmail == CodeForm /\ Ask(Call("prove", 1))
\* To the wizard the listing was written in (TrainerJoin).
EditListing ==
    /\ page.at = "listing" /\ Press
    /\ page' = Away /\ calls' = Unshown
    /\ UNCHANGED <<kept, signedIn>>

\* The price and the account it is paid to: one form at a time.
PayoutForm == page.at = "videos" /\ ~Busy({"price"})
SavePayout == PayoutForm /\ Ask(Call("payout", 1))
PriceForm == page.at = "videos" /\ page.payable /\ ~Busy({"payout"})
SavePrice == PriceForm /\ \E p \in 0..TopPrice : Ask(Call("price", p))

\* The studio: a question waiting is a press away; the course's page and its tools.
GoAnswer == page.at = "studio" /\ course.question = "asked" /\ Open("learners")
PageForm == page.at = "page"
SavePage == PageForm /\ Ask(Call("page", 1))
ToolsForm == page.at = "page"
SaveTools == ToolsForm /\ Ask(Call("tools", 1))

\* The studio: selling the course.
SaleForm == page.at = "selling" /\ page.price > 0
SaveSale == SaleForm /\ \E s \in 0..TopPrice : Ask(Call("sale", s))
Selling == page.at = "selling"
CreateCode == Selling /\ Ask(Call("code", 1))
CodeRow == Selling /\ course.code # "none"
SetCode == CodeRow /\ \E v \in 0..1 : Ask(Call("code on", v))
DeleteCode == CodeRow /\ Ask(Call("code gone", 1))
BoostOptions == Selling
BuyBoost == BoostOptions /\ \E days \in {1, 4} : Ask(Call("boost", days))

\* The studio: lessons moved about on the screen, or put under a heading, then saved
\* as they are there.
LessonRows == page.at = "lessons" /\ page.list # <<>>
Moved(list, from, to) == InsertAt(RemoveAt(list, from), to, list[from])
Move ==
    /\ LessonRows /\ Press
    /\ \E from, to \in DOMAIN page.list :
          from # to /\ page' = [page EXCEPT !.list = Moved(@, from, to), !.dirty = TRUE]
    /\ UNCHANGED <<kept, signedIn, calls>>
SetSection ==
    /\ LessonRows /\ Press
    /\ page' = [page EXCEPT !.dirty = TRUE]
    /\ UNCHANGED <<kept, signedIn, calls>>
SaveBar == LessonRows /\ page.dirty
SaveOrder == SaveBar /\ Ask([Call("order", 1) EXCEPT !.list = page.list])
TextForm == LessonRows
SaveText == TextForm /\ Ask(Call("text", 1))
CaptionsForm == LessonRows
SendCaptions == CaptionsForm /\ \E v \in 0..1 : Ask(Call("captions", v))

\* The studio: what learners ask and say.
Learners == page.at = "learners"
AnswerQuestion == Learners /\ page.answering /\ Ask(Call("answer", 1))
ReplyToReview == Learners /\ course.review # "none" /\ Ask(Call("reply", 1))

\* An answer comes: the forms show the row it brought, the lessons the order that was
\* kept, whatever was moved meanwhile; a boost is paid for at Paystack.
Answered(id) ==
    /\ id \in DOMAIN calls /\ calls[id].stage = "answered"
    /\ LET call == calls[id]
       IN IF call.op = "boost" /\ call.ok
          THEN page' = [Away EXCEPT !.at = "paystack", !.boost = call.value] /\ calls' = [n \in DOMAIN Unshown \ {id} |-> Unshown[n]]
          ELSE /\ page' = CASE ~call.ok -> page
                            [] call.ok /\ call.op = "payout" -> [page EXCEPT !.payable = TRUE]
                            [] call.ok /\ call.op = "price" -> [page EXCEPT !.price = call.value]
                            [] call.ok /\ call.op = "order" -> [page EXCEPT !.list = InOrder, !.dirty = FALSE]
                            [] call.ok /\ call.op = "answer" -> [page EXCEPT !.answering = FALSE]
                            [] OTHER -> page
               /\ calls' = Drop(id)
    /\ UNCHANGED <<kept, signedIn, presses>>

-----------------------------------------------------------------------------
TypeOK ==
    /\ offer \in Offer /\ course \in Course
    /\ \A n \in DOMAIN boosts : boosts[n] \in Boost
    /\ places \in [Lessons -> Nat]
    /\ page \in Page /\ signedIn \in BOOLEAN
    /\ DOMAIN calls \subseteq 1..MaxCalls /\ presses \in 0..MaxPresses

\* A course whose last lesson is yet to be uploaded, with or without somewhere for
\* its money to go, priced or not, its trainer on the screen of either.
Init ==
    /\ \E payout \in BOOLEAN : \E price \in IF payout THEN {0, TopPrice} ELSE {0} :
          offer = [NoOffer EXCEPT !.payout = payout, !.price = price]
    /\ boosts = <<>>
    /\ places = [l \in Lessons |-> IF l = Max(Lessons) THEN 0 ELSE l]
    /\ course \in {[captions |-> FALSE, code |-> "none", question |-> q, review |-> "none",
                    enquiry |-> "waiting", fresh |-> FALSE, email |-> "none"] : q \in {"none", "asked"}}
    /\ signedIn = TRUE
    /\ page \in {Loaded("overview"), Loaded("videos"), Loaded("selling"), Loaded("lessons")}
    /\ calls = <<>> /\ presses = 0

Serve(id) ==
    \/ ReadOffer(id) \/ WriteOffer(id) \/ ServePage(id) \/ ReadPayout(id) \/ WritePayout(id)
    \/ ServeBoost(id) \/ ServeVerify(id) \/ Verified(id)
    \/ ReadLessons(id) \/ WriteLessons(id) \/ ServeRest(id)
Dashboard ==
    \/ OpenTab \/ SignOut \/ SignIn \/ MarkReplied \/ ConfirmStillCurrent \/ AddEmail \/ ProveEmail
    \/ EditListing \/ SavePayout \/ SavePrice
InTheStudio ==
    \/ OpenStudio \/ GoAnswer \/ Return \/ SavePage \/ SaveTools \/ SaveSale \/ CreateCode \/ SetCode \/ DeleteCode
    \/ BuyBoost \/ Move \/ SetSection \/ SaveOrder \/ SaveText \/ SendCaptions \/ AnswerQuestion \/ ReplyToReview
Next ==
    \/ \E id \in 1..MaxCalls : Serve(id) \/ Answered(id)
    \/ \E n \in 1..MaxBoosts : Webhook(n) \/ Pay(n)
    \/ Upload \/ LearnerAsks \/ LearnerReviews \/ Dashboard \/ InTheStudio

Spec == Init /\ [][Next]_vars

-----------------------------------------------------------------------------
(* Properties *)

\* Every day that was paid for, of every boost.
DaysOf(paid) == UNION {{n} \X (1..boosts[n].days) : n \in paid}
PaidDays == Cardinality(DaysOf({n \in DOMAIN boosts : boosts[n].status = "paid"}))

\* No course is featured for longer than was paid for, however often the trainer's
\* return and Paystack tell of a boost (confirm_boost).
FeaturedIsPaidFor == offer.featured <= PaidDays

\* A course with a price has somewhere for its money to go, whatever the payout form
\* and the price's were doing when either was saved (TrainerCourseSales.tsx).
PricedMeansPayable == offer.price > 0 => offer.payout
=============================================================================

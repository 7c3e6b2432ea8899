------------------------------ MODULE Classroom ------------------------------
(***************************************************************************)
(* A course and one learner of it: the website's classroom (Classroom.tsx, *)
(* LessonPlayer.tsx), the app's course screen, and the server that keeps   *)
(* progress, gives certificates and sells the course (courses/).           *)
(*                                                                         *)
(* Both devices report where the learner is while requests are under way;  *)
(* a report is kept, counted and answered at different moments, a payment  *)
(* is told of by the buyer's return and by Paystack, and the page shows    *)
(* what the last answer said.  A lesson is new, begun or finished: the     *)
(* seconds between are left out, but for whose seconds a player opens at.  *)
(***************************************************************************)
EXTENDS Naturals, FiniteSets, Sequences, FiniteSetsExt

CONSTANTS
    LessonCount,   \* lessons, numbered in course order
    MaxCalls,      \* bound: requests under way
    MaxPresses,    \* bound: what the learner and the trainer do
    CodeUses,      \* what the promo code's max_uses allows
    MaxPurchases   \* bound: payments started

ASSUME ClassroomAssumption ==
    /\ LessonCount \in Nat \ {0, 1} /\ MaxCalls \in Nat \ {0}
    /\ MaxPresses \in Nat /\ MaxPurchases \in Nat /\ CodeUses \in Nat

VARIABLES
    shown,        \* the lessons that are approved and shown
    paid,         \* the course has a price
    rows,         \* the account's progress
    named,        \* the account has a name to print
    certificate,  \* the lessons the certificate was given for; {} before
    purchases,    \* the account's payments for the course
    uses,         \* payments the promo code is counted for
    signedIn,     \* this browser has the account's session
    local,        \* progress kept in this browser
    kept,         \* lessons in this browser's cache
    listed,       \* lessons in its list of saved ones
    page,         \* the classroom in the browser
    app,          \* the course screen of the app
    calls,        \* requests under way
    presses,      \* what the learner and the trainer did so far
    changed       \* history: other lessons are shown than at first

course == <<shown, paid, changed>>
account == <<rows, named, certificate>>
money == <<purchases, uses>>
browser == <<signedIn, local, kept, listed>>
vars == <<course, account, money, browser, page, app, calls, presses>>

Lessons == 1..LessonCount
None == 0

-----------------------------------------------------------------------------
(* The shapes *)

Row == {"new", "begun", "finished"}
Rows == [Lessons -> Row]
Fresh == [lesson \in Lessons |-> "new"]

Access == [signed_in : BOOLEAN, owned : BOOLEAN, sources : SUBSET Lessons,
           certificate : BOOLEAN]
NoAccess == [signed_in |-> FALSE, owned |-> FALSE, sources |-> {},
             certificate |-> FALSE]

Purchase == [status : {"pending", "paid", "failed"}, coded : BOOLEAN,
             charge : {"none", "success", "failed", "refused"}, told : BOOLEAN]

\* The still before a tap, a lesson from the cache or from the network, its end.
Player == {"still", "offline", "online", "ended"}

Page == [on : {"away", "open", "paying"}, lessons : SUBSET Lessons, at : Lessons,
         loaded : BOOLEAN, access : Access, rows : Rows, celebrated : BOOLEAN,
         done : {"no", "certificate", "name", "sign_in"},
         busy : {"no", "buying", "checking"}, code : BOOLEAN, seek : 0..LessonCount,
         player : Player, saving : BOOLEAN, reference : 0..MaxPurchases]
Blank == [on |-> "away", lessons |-> {}, at |-> 1, loaded |-> FALSE, access |-> NoAccess,
          rows |-> Fresh, celebrated |-> FALSE, done |-> "no", busy |-> "no", code |-> FALSE,
          seek |-> None, player |-> "still", saving |-> FALSE, reference |-> 0]

App == [access : Access, buying : BOOLEAN, reference : 0..MaxPurchases,
        files : SUBSET Lessons]

\* What a request is answered with; fields an answer does not have keep these values.
NoReply == [ok |-> FALSE, access |-> NoAccess, rows |-> Fresh, finished |-> FALSE,
            certificate |-> FALSE, lessons |-> {}, reference |-> 0, charge |-> "none"]

\* `lesson` is what the request is about, `flag` what it says: that the lesson is
\* over, that a code was typed, that this is the page's first reading.
Call(op, by, lesson, flag) ==
    [op |-> op, by |-> by, lesson |-> lesson, flag |-> flag, stage |-> "asked", reply |-> NoReply]

-----------------------------------------------------------------------------
(* Requests *)

Free == CHOOSE id \in 1..MaxCalls : id \notin DOMAIN calls
With(pool, id, call) == [n \in DOMAIN pool \cup {id} |-> IF n = id THEN call ELSE pool[n]]
Without(pool, id) == [n \in DOMAIN pool \ {id} |-> pool[n]]
Send(call) == calls' = With(calls, Free, call)
At(id, op, stage) == id \in DOMAIN calls /\ calls[id].op = op /\ calls[id].stage = stage
\* What a page that is gone asked for is still served; nobody reads the answer.
Answer(id, reply) ==
    calls' = IF calls[id].by = "nobody" THEN Without(calls, id)
             ELSE [calls EXCEPT ![id].stage = "answered", ![id].reply = reply]
Refuse(id) == Answer(id, NoReply)
Move(id, stage) == calls' = [calls EXCEPT ![id].stage = stage]
\* An answer read by the page or the app, and the request that follows it, if any.
Read(id) == calls' = Without(calls, id)
ReadThenSend(id, call) == calls' = With(Without(calls, id), id, call)
\* The page is gone: what it was saving is too, and what it asked is nobody's.
Orphaned ==
    [id \in {n \in DOMAIN calls : ~(calls[n].op \in {"save", "remove"} \/ (calls[n].by = "page" /\ calls[n].stage = "answered"))} |->
        IF calls[id].by = "page" THEN [calls[id] EXCEPT !.by = "nobody"] ELSE calls[id]]

Press == presses < MaxPresses /\ presses' = presses + 1 /\ Cardinality(DOMAIN calls) < MaxCalls

-----------------------------------------------------------------------------
(* The server: who may watch, progress, certificates *)

Preview == Min(shown)
Owned == \E n \in DOMAIN purchases : purchases[n].status = "paid"
MayWatch(lesson) == ~paid \/ Owned \/ lesson = Preview
Session(call) == IF call.by = "app" THEN TRUE ELSE signedIn

FinishedOf(lessons) == {lesson \in lessons : rows[lesson] = "finished"}
\* Mutant of AllFinished: lessons finished before they were taken down count too.
CountAnyFinished(lessons) == Cardinality(FinishedOf(Lessons)) = Cardinality(lessons)
AllFinished(lessons) == Cardinality(FinishedOf(lessons)) = Cardinality(lessons)
CourseAccess(session) ==
    [signed_in |-> session, owned |-> paid /\ session /\ Owned,
     sources |-> {lesson \in shown : ~paid \/ lesson = Preview \/ (session /\ Owned)},
     certificate |-> session /\ certificate # {}]

ServeAccess(id) ==
    /\ At(id, "access", "asked")
    /\ Answer(id, [NoReply EXCEPT !.ok = TRUE, !.access = CourseAccess(Session(calls[id])),
                                  !.rows = IF Session(calls[id]) THEN rows ELSE Fresh])
    /\ UNCHANGED <<course, account, money, browser, page, app, presses>>

\* The row's position is the last writer's; that it is finished is never undone.
Advanced(row, over) == IF row = "finished" \/ over THEN "finished" ELSE "begun"

\* Mutant of ServeProgress: the lessons are counted before the row is committed.
CountBeforeCommit(id) ==
    /\ At(id, "progress", "asked")
    /\ LET call == calls[id]
       IN IF ~call.reply.ok
          THEN /\ Session(call) /\ call.lesson \in shown /\ MayWatch(call.lesson)
               /\ calls' = [calls EXCEPT ![id].reply.ok = TRUE,
                                         ![id].reply.lessons = FinishedOf(Lessons) \cup {call.lesson}]
               /\ UNCHANGED rows
          ELSE /\ rows' = [rows EXCEPT ![call.lesson] = Advanced(@, call.flag)]
               /\ IF shown \subseteq call.reply.lessons THEN Move(id, "kept")
                  ELSE Answer(id, [NoReply EXCEPT !.ok = TRUE])
    /\ UNCHANGED <<course, named, certificate, money, browser, page, app, presses>>

\* The row is locked, read and saved; what is in it after the commit counts.
ServeProgress(id) ==
    /\ At(id, "progress", "asked")
    /\ LET call == calls[id]
       IN IF Session(call) /\ call.lesson \in shown /\ MayWatch(call.lesson)
          THEN /\ rows' = [rows EXCEPT ![call.lesson] = Advanced(@, call.flag)]
               /\ Move(id, "kept")
          ELSE Refuse(id) /\ UNCHANGED rows
    /\ UNCHANGED <<course, named, certificate, money, browser, page, app, presses>>

Given == [NoReply EXCEPT !.ok = TRUE, !.finished = TRUE, !.certificate = TRUE]
NoName(op) == [NoReply EXCEPT !.ok = op = "progress", !.finished = op = "progress"]

\* After the commit: the certificate there is, when every lesson shown now is
\* finished; else a new one, for an account with a name to print.
Judge(id) ==
    /\ At(id, "progress", "kept") \/ At(id, "claim", "kept")
    /\ IF AllFinished(shown) /\ certificate = {} /\ named
       THEN calls' = [calls EXCEPT ![id].stage = "earned", ![id].reply.lessons = shown]
       ELSE Answer(id, IF certificate # {} /\ (AllFinished(shown) \/ calls[id].op = "claim") THEN Given
                       ELSE IF AllFinished(shown) THEN NoName(calls[id].op)
                       ELSE [NoReply EXCEPT !.ok = calls[id].op = "progress"])
    /\ UNCHANGED <<course, account, money, browser, page, app, presses>>

\* One certificate for a learner and a course: a second insert finds the first.
Award(id) ==
    /\ At(id, "progress", "earned") \/ At(id, "claim", "earned")
    /\ certificate' = IF certificate = {} THEN calls[id].reply.lessons ELSE certificate
    /\ Answer(id, Given)
    /\ UNCHANGED <<course, rows, named, money, browser, page, app, presses>>

ServeClaim(id) ==
    /\ At(id, "claim", "asked")
    /\ IF Session(calls[id]) THEN named' = TRUE /\ Move(id, "kept")
       ELSE Refuse(id) /\ UNCHANGED named
    /\ UNCHANGED <<course, rows, certificate, money, browser, page, app, presses>>

-----------------------------------------------------------------------------
(* The server: payments *)

CodeUsable == uses < CodeUses

ServeCode(id) ==
    /\ At(id, "code", "asked")
    /\ IF paid /\ CodeUsable THEN Answer(id, [NoReply EXCEPT !.ok = TRUE]) ELSE Refuse(id)
    /\ UNCHANGED <<course, account, money, browser, page, app, presses>>

\* A purchase is kept, then Paystack is asked for its page, and may not answer.
ServeBuy(id) ==
    /\ At(id, "buy", "asked")
    /\ IF /\ Session(calls[id]) /\ paid /\ ~Owned
          /\ calls[id].flag => CodeUsable
          /\ Len(purchases) < MaxPurchases
       THEN \E opened \in BOOLEAN :
               /\ purchases' = Append(purchases,
                     [status |-> IF opened THEN "pending" ELSE "failed", coded |-> calls[id].flag,
                      charge |-> IF opened THEN "none" ELSE "refused", told |-> FALSE])
               /\ IF opened THEN Answer(id, [NoReply EXCEPT !.ok = TRUE, !.reference = Len(purchases) + 1])
                  ELSE Refuse(id)
       ELSE Refuse(id) /\ UNCHANGED purchases
    /\ UNCHANGED <<course, account, uses, browser, page, app, presses>>

\* Applies what Paystack says of a payment, under the row's lock.  Only a payment
\* that is paid is final: one that failed may still be paid on Paystack's page.
PendingOnly(purchase, charge) ==  \* mutant of Confirmed
    IF purchase.status # "pending" THEN purchase
    ELSE [purchase EXCEPT !.status = IF charge = "success" THEN "paid" ELSE "failed"]
Confirmed(purchase, charge) ==
    IF purchase.status = "paid" THEN purchase
    ELSE [purchase EXCEPT !.status = IF charge = "success" THEN "paid" ELSE "failed"]
Counted(purchase, charge) ==
    IF purchase.status # "paid" /\ charge = "success" /\ purchase.coded THEN uses + 1 ELSE uses

\* A payment that is not pending is answered from the row; a pending one is asked
\* after, and Paystack calls one nobody has paid yet abandoned.
ServeVerify(id) ==
    /\ At(id, "verify", "asked")
    /\ LET n == calls[id].reply.reference
       IN IF ~Session(calls[id]) THEN Refuse(id)
          ELSE IF purchases[n].status # "pending"
          THEN Answer(id, [NoReply EXCEPT !.ok = purchases[n].status = "paid"])
          ELSE \/ calls' = [calls EXCEPT ![id].stage = "heard", ![id].reply.charge = purchases[n].charge]
               \/ Refuse(id)
    /\ UNCHANGED <<course, account, money, browser, page, app, presses>>

ConfirmVerified(id) ==
    /\ At(id, "verify", "heard")
    /\ LET n == calls[id].reply.reference
           charge == calls[id].reply.charge
       IN /\ purchases' = [purchases EXCEPT ![n] = Confirmed(@, charge)]
          /\ uses' = Counted(purchases[n], charge)
          /\ Answer(id, [NoReply EXCEPT !.ok = purchases'[n].status = "paid"])
    /\ UNCHANGED <<course, account, browser, page, app, presses>>

\* Paystack's own message of a payment, sent until the server has taken it.
Webhook(n) ==
    /\ n \in DOMAIN purchases /\ purchases[n].charge = "success" /\ ~purchases[n].told
    /\ purchases' = [purchases EXCEPT ![n] = [Confirmed(@, "success") EXCEPT !.told = TRUE]]
    /\ uses' = Counted(purchases[n], "success")
    /\ UNCHANGED <<course, account, browser, page, app, calls, presses>>

\* On Paystack's page, or on the phone it sent a prompt to, and that may be after
\* the learner came back from it: the learner pays, or the payment fails.
Pay(n) ==
    /\ n \in DOMAIN purchases /\ purchases[n].charge = "none"
    /\ \E charge \in {"success", "failed"} : purchases' = [purchases EXCEPT ![n].charge = charge]
    /\ UNCHANGED <<course, account, uses, browser, page, app, calls, presses>>

\* The trainer, or staff, take a lesson down or let one in.
ChangeLessons ==
    /\ presses < MaxPresses /\ presses' = presses + 1
    /\ changed' = TRUE
    /\ \E lessons \in (SUBSET Lessons) \ {{}, shown} : shown' = lessons
    /\ UNCHANGED <<paid, account, money, browser, page, app, calls>>

-----------------------------------------------------------------------------
(* The page in the browser: arriving, and what it may show *)

Opened == [Blank EXCEPT !.on = "open", !.lessons = shown, !.at = Preview]

SignedIn == page.loaded /\ page.access.signed_in
Locked(lesson) == paid /\ lesson # Min(page.lessons) /\ lesson \notin page.access.sources
Following(lesson) == {other \in page.lessons : other > lesson}

\* The page is loaded; back from Paystack, the payment is looked into before
\* anything else is read.  An address that names a lesson is as good as choosing it.
Arrive ==
    /\ page.on # "open" /\ Cardinality(DOMAIN calls) < MaxCalls
    /\ IF page.on = "paying" /\ purchases[page.reference].charge = "success"
       THEN /\ page' = [Opened EXCEPT !.busy = "checking"]
            /\ Send([Call("verify", "page", Preview, TRUE) EXCEPT !.reply.reference = page.reference])
       ELSE /\ page' = Opened
            /\ Send(Call("access", "page", Preview, TRUE))
    /\ UNCHANGED <<course, account, money, browser, app, presses>>

\* Whatever the answer, what may be watched is read next.
Verified(id) ==
    /\ At(id, "verify", "answered") /\ calls[id].by = "page"
    /\ page' = [page EXCEPT !.busy = "no"]
    /\ ReadThenSend(id, Call("access", "page", calls[id].lesson, TRUE))
    /\ UNCHANGED <<course, account, money, browser, app, presses>>

\* On arrival: the first lesson not finished, after any started.
CarryOn(p) ==
    LET unfinished == {lesson \in p.lessons : p.rows[lesson] # "finished"}
        started == \E lesson \in p.lessons : p.rows[lesson] # "new"
    IN IF started /\ unfinished # {} THEN [p EXCEPT !.at = Min(unfinished), !.player = "still"] ELSE p

\* The player is made anew when the lesson it is for is another, or opens up.
Shown(old, new) ==
    LET opens(p) == ~(paid /\ p.at # Min(p.lessons) /\ p.at \notin p.access.sources)
    IN IF old.at # new.at \/ opens(old) # opens(new) THEN [new EXCEPT !.player = "still"] ELSE new

\* The answer, or no answer, replaces the progress that is shown.
Accessed(id) ==
    /\ At(id, "access", "answered") /\ calls[id].by = "page"
    /\ LET reply == calls[id].reply
           read == [page EXCEPT !.loaded = TRUE, !.access = reply.access,
                                !.rows = IF reply.access.signed_in THEN reply.rows ELSE local,
                                !.celebrated = @ \/ reply.access.certificate]
           new == IF reply.ok THEN read ELSE [page EXCEPT !.rows = local]
       IN page' = Shown(page, IF calls[id].flag THEN CarryOn(new) ELSE new)
    /\ Read(id)
    /\ UNCHANGED <<course, account, money, browser, app, presses>>

\* A request that gets no answer at all.
Unanswered(id) ==
    /\ id \in DOMAIN calls /\ calls[id].stage = "asked"
    /\ Refuse(id)
    /\ UNCHANGED <<course, account, money, browser, page, app, presses>>

\* The page is closed, or left to sign in.
Leave ==
    /\ page.on = "open" /\ Press
    /\ page' = Blank
    /\ calls' = Orphaned
    /\ signedIn' \in {signedIn, TRUE}
    /\ UNCHANGED <<course, account, money, local, kept, listed, app>>

-----------------------------------------------------------------------------
(* What the player tells the page *)

Active == page.on = "open" /\ ~Locked(page.at) /\ page.player \in {"offline", "online"}
Ended == page.on = "open" /\ page.player = "ended"

\* The page keeps where the learner is at once: in this browser for somebody not
\* signed in, who is told when all is finished; on the server for the others.
Reported(p, over) ==
    LET updated == [p.rows EXCEPT ![page.at] = Advanced(@, over)]
        all == ~SignedIn /\ \A lesson \in p.lessons : updated[lesson] = "finished"
    IN [p EXCEPT !.rows = updated, !.celebrated = @ \/ all,
                 !.done = IF all /\ ~p.celebrated THEN "sign_in" ELSE @]

Report(p, over) ==
    /\ page' = Reported(p, over)
    /\ local' = IF SignedIn THEN local ELSE Reported(p, over).rows
    /\ IF SignedIn THEN Send(Call("progress", "page", page.at, over)) ELSE UNCHANGED calls

\* From the still, a tap; from the last lesson, at once.  What is kept in the cache
\* plays from there.  A place somebody asked for is jumped to when there is a player.
StartPlayer ==
    /\ page.on = "open" /\ ~Locked(page.at) /\ page.player = "still"
    /\ page' = [page EXCEPT !.player = IF page.at \in kept THEN "offline" ELSE "online"]
    /\ UNCHANGED <<course, account, money, browser, app, calls, presses>>

\* Ten seconds played, a pause, the page hidden: a report in passing, which is of a
\* lesson that is over when it is near enough to its end.
Tick ==
    /\ Active /\ Press
    /\ \E over \in BOOLEAN : Report(page, over)
    /\ UNCHANGED <<course, account, money, signedIn, kept, listed, app>>

End ==
    /\ Active /\ Press
    /\ Report([page EXCEPT !.player = "ended"], TRUE)
    /\ UNCHANGED <<course, account, money, signedIn, kept, listed, app>>

\* Played again, or what is next called off: the same lesson, as it was.
Replay ==
    /\ Ended
    /\ page' = [page EXCEPT !.player = IF page.at \in kept THEN "offline" ELSE "online"]
    /\ UNCHANGED <<course, account, money, browser, app, calls, presses>>

-----------------------------------------------------------------------------
(* The page in the browser: its lessons, its tabs, its dialog *)

Chosen(lesson) == [page EXCEPT !.at = lesson, !.player = "still"]

\* The seconds run out under a lesson that ended, or its button is pressed.
UpNext ==
    /\ Ended /\ Following(page.at) # {}
    /\ page' = Chosen(Min(Following(page.at)))
    /\ UNCHANGED <<course, account, money, browser, app, calls, presses>>

\* A row of the contents, or the buttons beside the title.  A player taken away
\* reports once more, unless its video is gone before it can be asked.
ChooseLesson ==
    /\ page.on = "open" /\ Press
    /\ \E lesson \in page.lessons \ {page.at} :
          \/ Active /\ Report(Chosen(lesson), FALSE)
          \/ page' = Chosen(lesson) /\ UNCHANGED <<local, calls>>
    /\ UNCHANGED <<course, account, money, signedIn, kept, listed, app>>

\* A question's time, pressed: a place to jump to, kept with the page.
SeekTo ==
    /\ page.on = "open" /\ page.seek # page.at /\ Press
    /\ page' = [page EXCEPT !.seek = page.at]
    /\ UNCHANGED <<course, account, money, browser, app, calls>>

\* The first answer that says the course is finished opens the dialog.
Progressed(id) ==
    /\ At(id, "progress", "answered") /\ calls[id].by = "page"
    /\ LET reply == calls[id].reply
       IN IF reply.ok /\ reply.finished /\ ~page.celebrated
          THEN /\ page' = [page EXCEPT !.celebrated = TRUE,
                                       !.done = IF reply.certificate THEN "certificate" ELSE "name"]
               /\ ReadThenSend(id, Call("access", "page", page.at, FALSE))
          ELSE Read(id) /\ UNCHANGED page
    /\ UNCHANGED <<course, account, money, browser, app, presses>>

ClaimCertificate ==
    /\ page.on = "open" /\ page.done = "name" /\ Press
    /\ ~\E id \in DOMAIN calls : calls[id].op = "claim" /\ calls[id].by = "page"
    /\ Send(Call("claim", "page", page.at, FALSE))
    /\ UNCHANGED <<course, account, money, browser, page, app>>

Claimed(id) ==
    /\ At(id, "claim", "answered") /\ calls[id].by = "page"
    /\ page' = IF calls[id].reply.ok /\ page.done = "name" THEN [page EXCEPT !.done = "certificate"] ELSE page
    /\ Read(id)
    /\ UNCHANGED <<course, account, money, browser, app, presses>>

CloseDone ==
    /\ page.on = "open" /\ page.done # "no"
    /\ page' = [page EXCEPT !.done = "no"]
    /\ UNCHANGED <<course, account, money, browser, app, calls, presses>>

-----------------------------------------------------------------------------
(* The page in the browser: buying, and lessons kept for later *)

\* The panel with the price, and whether its button can be pressed.
PanelShown == page.on = "open" /\ page.loaded /\ paid /\ ~page.access.owned
MayBuy == PanelShown /\ SignedIn /\ page.busy = "no"

ApplyCode ==
    /\ PanelShown /\ Press
    /\ Send(Call("code", "page", page.at, TRUE))
    /\ UNCHANGED <<course, account, money, browser, page, app>>

CodeAnswered(id) ==
    /\ At(id, "code", "answered") /\ calls[id].by = "page"
    /\ page' = [page EXCEPT !.code = @ \/ calls[id].reply.ok]
    /\ Read(id)
    /\ UNCHANGED <<course, account, money, browser, app, presses>>

\* The panel beside the lessons sends the code that was applied; the button where
\* a locked lesson would play sends none.
BuyPanel == MayBuy /\ Send(Call("buy", "page", page.at, page.code))
LockedLesson == MayBuy /\ Locked(page.at) /\ Send(Call("buy", "page", page.at, FALSE))

Buy ==
    /\ BuyPanel \/ LockedLesson
    /\ Press
    /\ page' = [page EXCEPT !.busy = "buying"]
    /\ UNCHANGED <<course, account, money, browser, app>>

\* On to Paystack's page, and this one is gone; or what may be watched is read again.
BuyAnswered(id) ==
    /\ At(id, "buy", "answered") /\ calls[id].by = "page"
    /\ IF calls[id].reply.ok
       THEN /\ page' = [Blank EXCEPT !.on = "paying", !.reference = calls[id].reply.reference]
            /\ calls' = Without(Orphaned, id)
       ELSE /\ page' = [page EXCEPT !.busy = "no"]
            /\ ReadThenSend(id, Call("access", "page", page.at, FALSE))
    /\ UNCHANGED <<course, account, money, browser, app, presses>>

SaveOffline ==
    /\ page.on = "open" /\ ~Locked(page.at) /\ page.at \notin listed /\ ~page.saving /\ Press
    /\ page' = [page EXCEPT !.saving = TRUE]
    /\ Send(Call("save", "page", page.at, FALSE))
    /\ UNCHANGED <<course, account, money, browser, app>>

Fetched(id) ==
    /\ At(id, "save", "asked")
    /\ LET lesson == calls[id].lesson
       IN IF lesson \in shown /\ (~paid \/ lesson = Preview \/ (signedIn /\ Owned))
          THEN kept' = kept \cup {lesson} /\ Move(id, "put")
          ELSE Refuse(id) /\ UNCHANGED kept
    /\ UNCHANGED <<course, account, money, signedIn, local, listed, page, app, presses>>

\* The list is read when it is written; with no room for it the lesson stays kept.
Listed(id) ==
    /\ At(id, "save", "put")
    /\ listed' \in {listed, listed \cup {calls[id].lesson}}
    /\ Answer(id, [NoReply EXCEPT !.ok = TRUE])
    /\ UNCHANGED <<course, account, money, signedIn, local, kept, page, app, presses>>

Saved(id) ==
    /\ At(id, "save", "answered")
    /\ page' = [page EXCEPT !.saving = FALSE]
    /\ Read(id)
    /\ UNCHANGED <<course, account, money, browser, app, presses>>

RemoveSaved ==
    /\ page.on = "open" /\ page.at \in listed /\ Press
    /\ kept' = kept \ {page.at}
    /\ Send([Call("remove", "page", page.at, FALSE) EXCEPT !.stage = "gone"])
    /\ UNCHANGED <<course, account, money, signedIn, local, listed, page, app>>

Removed(id) ==
    /\ At(id, "remove", "gone")
    /\ listed' = listed \ {calls[id].lesson}
    /\ Read(id)
    /\ UNCHANGED <<course, account, money, signedIn, local, kept, page, app, presses>>

\* The list of saved lessons: one that is not there any more goes off it.
PlaySaved ==
    /\ page.on = "away" /\ listed \ kept # {}
    /\ \E lesson \in listed \ kept : listed' = listed \ {lesson}
    /\ UNCHANGED <<course, account, money, signedIn, local, kept, page, app, calls, presses>>

-----------------------------------------------------------------------------
(* The app's course screen *)

Playable(lesson) == lesson \in app.files \cup app.access.sources

AppAccessed(id) ==
    /\ At(id, "access", "answered") /\ calls[id].by = "app"
    /\ app' = IF calls[id].reply.ok
              THEN [app EXCEPT !.access = calls[id].reply.access] ELSE app
    /\ Read(id)
    /\ UNCHANGED <<course, account, money, browser, page, presses>>

\* Every few seconds of a lesson; at its end too, and then everything is read again.
AppReport ==
    /\ Press
    /\ \E lesson \in {l \in shown : Playable(l)}, over \in BOOLEAN :
          Send(Call("progress", "app", lesson, over))
    /\ UNCHANGED <<course, account, money, browser, page, app>>

AppReported(id) ==
    /\ At(id, "progress", "answered") /\ calls[id].by = "app"
    /\ IF calls[id].reply.ok /\ calls[id].flag
       THEN ReadThenSend(id, Call("access", "app", 1, FALSE)) ELSE Read(id)
    /\ UNCHANGED <<course, account, money, browser, page, app, presses>>

\* The card with the price, there while a lesson is still locked.
BuyCard == paid /\ ~app.access.owned /\ ~app.buying /\ ~(shown \subseteq app.access.sources)
AppBuys ==
    /\ BuyCard /\ Press
    /\ app' = [app EXCEPT !.buying = TRUE]
    /\ Send(Call("buy", "app", 1, FALSE))
    /\ UNCHANGED <<course, account, money, browser, page>>

AppBuyAnswered(id) ==
    /\ At(id, "buy", "answered") /\ calls[id].by = "app"
    /\ app' = [app EXCEPT !.reference = calls[id].reply.reference, !.buying = calls[id].reply.ok]
    /\ Read(id)
    /\ UNCHANGED <<course, account, money, browser, page, presses>>

\* Paystack's page is closed, paid or not, and the payment is looked into.
AppComesBack ==
    /\ app.reference # 0 /\ Cardinality(DOMAIN calls) < MaxCalls
    /\ Send([Call("verify", "app", 1, FALSE) EXCEPT !.reply.reference = app.reference])
    /\ app' = [app EXCEPT !.reference = 0]
    /\ UNCHANGED <<course, account, money, browser, page, presses>>

AppVerified(id) ==
    /\ At(id, "verify", "answered") /\ calls[id].by = "app"
    /\ app' = [app EXCEPT !.buying = FALSE]
    /\ ReadThenSend(id, Call("access", "app", 1, FALSE))
    /\ UNCHANGED <<course, account, money, browser, page, presses>>

\* A row of the lessons: it plays, offers to keep or to forget, or is locked.
OffersToKeep(lesson) == lesson \in app.access.sources \ app.files

AppSaves ==
    /\ Press
    /\ \E lesson \in Lessons :
          /\ OffersToKeep(lesson) /\ lesson \in shown /\ MayWatch(lesson)
          /\ app' = [app EXCEPT !.files = @ \cup {lesson}]
    /\ UNCHANGED <<course, account, money, browser, page, calls>>

AppForgets ==
    /\ Press
    /\ \E lesson \in app.files : app' = [app EXCEPT !.files = @ \ {lesson}]
    /\ UNCHANGED <<course, account, money, browser, page, calls>>

-----------------------------------------------------------------------------
TypeOK ==
    /\ shown \in (SUBSET Lessons) \ {{}} /\ paid \in BOOLEAN /\ rows \in Rows /\ named \in BOOLEAN
    /\ certificate \subseteq Lessons
    /\ \A n \in DOMAIN purchases : purchases[n] \in Purchase
    /\ uses \in 0..MaxPurchases /\ signedIn \in BOOLEAN /\ local \in Rows
    /\ kept \subseteq Lessons /\ listed \subseteq Lessons
    /\ page \in Page /\ app \in App
    /\ DOMAIN calls \subseteq 1..MaxCalls /\ presses \in 0..MaxPresses /\ changed \in BOOLEAN

\* Somebody part of the way through a course, with no certificate for it yet, whose
\* browser may have thrown away what it kept.
Init ==
    /\ shown = 1..(LessonCount - 1)
    /\ paid \in BOOLEAN /\ named \in BOOLEAN /\ signedIn \in BOOLEAN
    /\ rows \in [Lessons -> {"new", "finished"}]
    /\ ~AllFinished(shown)
    /\ \A lesson \in Lessons : rows[lesson] = "finished" => lesson = Preview
    /\ certificate = {} /\ purchases = <<>> /\ uses = 0
    /\ local = Fresh /\ kept = {} /\ listed \in {{}, {Preview}}
    /\ page = Blank
    /\ app = [access |-> CourseAccess(TRUE), buying |-> FALSE, reference |-> 0, files |-> {}]
    /\ calls = <<>> /\ presses = 0 /\ changed = FALSE

Serve(id) ==
    \/ ServeAccess(id) \/ ServeProgress(id) \/ Judge(id) \/ Award(id)
    \/ ServeClaim(id) \/ ServeCode(id) \/ ServeBuy(id)
    \/ ServeVerify(id) \/ ConfirmVerified(id) \/ Unanswered(id)
Answered(id) ==
    \/ Verified(id) \/ Accessed(id) \/ Progressed(id) \/ Claimed(id) \/ CodeAnswered(id)
    \/ BuyAnswered(id) \/ Fetched(id) \/ Listed(id) \/ Saved(id) \/ Removed(id)
    \/ AppAccessed(id) \/ AppReported(id) \/ AppBuyAnswered(id) \/ AppVerified(id)
Watching == StartPlayer \/ Tick \/ End \/ Replay \/ UpNext \/ ChooseLesson \/ SeekTo
Using ==
    \/ Arrive \/ Leave \/ ClaimCertificate \/ CloseDone \/ ApplyCode \/ Buy
    \/ SaveOffline \/ RemoveSaved \/ PlaySaved
    \/ AppReport \/ AppBuys \/ AppComesBack \/ AppSaves \/ AppForgets

Next ==
    \/ \E id \in 1..MaxCalls : Serve(id) \/ Answered(id)
    \/ \E n \in 1..MaxPurchases : Webhook(n) \/ Pay(n)
    \/ ChangeLessons \/ Watching \/ Using

Spec == Init /\ [][Next]_vars

-----------------------------------------------------------------------------
(* Properties *)

\* A certificate is only ever given for lessons the learner has finished, though the
\* trainer takes lessons down and puts others up between the count and the insert
\* (courses/learner.py, issue_certificate).
CertificateIsEarned == FinishedOf(certificate) = certificate

\* Whichever two devices report the last lessons at the same time, the later commit
\* sees both: once all lessons are finished there is a certificate for an account
\* with a name, or a request that is about to give it (LessonProgressView.post).
EarnedMeansGiven ==
    ~changed /\ AllFinished(shown) /\ named
        => \/ certificate # {}
           \/ \E id \in DOMAIN calls : /\ calls[id].op \in {"progress", "claim"}
                                       /\ calls[id].stage \in {"kept", "earned"}

\* A payment Paystack told of has unlocked the course, even one that was looked into
\* too early and written down as failed; nothing else is unlocked; and a promo code's
\* count is the number of paid purchases made with it, however often the return, the
\* app and Paystack tell of each (views.confirm).
ChargedMeansUnlocked ==
    /\ \A n \in DOMAIN purchases :
           /\ purchases[n].told => purchases[n].status = "paid"
           /\ purchases[n].status = "paid" => purchases[n].charge = "success"
    /\ uses = Cardinality({n \in DOMAIN purchases : purchases[n].coded /\ purchases[n].status = "paid"})
=============================================================================

--------------------------- MODULE TraineeAccount ---------------------------
(***************************************************************************)
(* A trainee's account: proving the number or an address, the dashboard,   *)
(* the enquiry form of a workshop's page, the one account page, and staff  *)
(* looking at the dashboard in a support session; the app's own way in and *)
(* its enquiry form (backend/trainees, backend/accounts,                   *)
(* enquiries/views.py, components/trainee, EnquiryForm.tsx,                *)
(* account/AccountPage.tsx, mobile/src/app).                               *)
(*                                                                         *)
(* One phone number is followed.  The reader looks at one screen at a      *)
(* time, the trainee's or the member of staff's; what the other had asked  *)
(* for is still served.  A code is a thing that was sent and may be        *)
(* entered once (OneTimeCodes has the rest of it).                         *)
(***************************************************************************)
EXTENDS Naturals, FiniteSets, Sequences

CONSTANTS
    Emails,        \* addresses somebody may type
    NoEmail,
    MaxEnquiries,  \* bound: enquiries made with the number
    MaxCalls,      \* bound: requests under way
    MaxPresses     \* bound: what the people involved do

ASSUME TraineeAssumption ==
    /\ NoEmail \notin Emails
    /\ MaxEnquiries \in Nat /\ MaxCalls \in Nat /\ MaxPresses \in Nat

VARIABLES
    acct,       \* the account with the number; its `no` is 0 when there is none
    made,       \* accounts made so far
    shop,       \* the login is a shop's or a workshop's too
    other,      \* the address on somebody else's account
    enq,        \* enquiries made with the number, the account each is linked to
    due,        \* history: the ones made before the number was last proved
    proved,     \* history: addresses a code sent there alone was entered for
    codes,      \* codes sent and not entered yet
    saved,      \* the workshop is on the account's list
    perms,      \* what the member of staff may do
    support,    \* their support session
    log,        \* the requests its log tells of
    changes,    \* history: the requests of theirs that changed something
    session,    \* the trainee's browser, and the token on their phone
    page,       \* the screen that is looked at
    calls, presses

rows == <<acct, made, other, enq, due, proved, codes, saved>>
desk == <<perms, support, log, changes>>
vars == <<rows, shop, desk, session, page, calls, presses>>

-----------------------------------------------------------------------------
(* The shapes *)

Typed == Emails \cup {NoEmail}
Account == [no : Nat, active : BOOLEAN, email : Typed, proven : BOOLEAN,
            photo : BOOLEAN, background : BOOLEAN]
NoAccount == [no |-> 0, active |-> FALSE, email |-> NoEmail, proven |-> FALSE,
              photo |-> FALSE, background |-> FALSE]
Enquiry == [of : Nat]
Code == {"phone", "account", "enquiry", "enter", "add"} \X Typed
PhoneCode == <<"phone", NoEmail>>
AccountCode == <<"account", NoEmail>>
EnquiryCode == <<"enquiry", NoEmail>>
SupportSession == [on : BOOLEAN, of : Nat, edit : BOOLEAN]
Session == [signedIn : BOOLEAN, trusted : BOOLEAN, token : BOOLEAN]

\* `step` is how far the form on the screen is, `email` what was typed in it.
Page == [who : {"trainee", "staff"}, at : {"dashboard", "sign in", "workshop", "account", "home",
                                              "app", "app sign in", "app enquiry"},
         step : {"form", "phone code", "email code", "outcome"}, email : Typed,
         known : BOOLEAN, saved : BOOLEAN, readOnly : BOOLEAN, filtered : BOOLEAN]

Request == [op : {"code", "account code", "email code", "verify", "account verify", "email verify", "app verify",
                  "role", "app role", "out", "app out", "settings", "photo", "no photo", "save", "unsave",
                  "add", "confirm", "close", "request", "check", "send", "app send"},
            email : Typed, who : {"trainee", "staff"}, nr : Nat,
            stage : {"asked", "let in", "entered", "found", "answered"},
            row : Account, ok : BOOLEAN, held : BOOLEAN, shown : BOOLEAN]
Call(op, email) ==
    [op |-> op, email |-> email, who |-> page.who, nr |-> presses, stage |-> "asked",
     row |-> NoAccount, ok |-> FALSE, held |-> FALSE, shown |-> TRUE]

-----------------------------------------------------------------------------
(* Requests: a group of buttons is shut while one of its own is under way *)

Room == Cardinality(DOMAIN calls) < MaxCalls
Free == CHOOSE id \in 1..MaxCalls : id \notin DOMAIN calls
Press == presses < MaxPresses /\ presses' = presses + 1
Busy(ops) == \E id \in DOMAIN calls : calls[id].shown /\ calls[id].op \in ops
Ask(group, call) ==
    /\ Room /\ Press /\ ~Busy(group \cup {call.op})
    /\ calls' = [id \in DOMAIN calls \cup {Free} |-> IF id \in DOMAIN calls THEN calls[id] ELSE call]
    /\ UNCHANGED <<rows, shop, desk, session, page>>
Drop(id) == [n \in DOMAIN calls \ {id} |-> calls[n]]
At(id, op, stage) == id \in DOMAIN calls /\ calls[id].op = op /\ calls[id].stage = stage
Answer(id, ok, held) ==
    calls' = IF calls[id].shown THEN [calls EXCEPT ![id].stage = "answered", ![id].ok = ok, ![id].held = held]
             ELSE Drop(id)
Reply(id, ok) == Answer(id, ok, calls[id].held)
\* A screen that is left shows no answer; what was asked is done all the same.
Unshown == [id \in {n \in DOMAIN calls : calls[n].stage # "answered"} |-> [calls[id] EXCEPT !.shown = FALSE]]

-----------------------------------------------------------------------------
(* Who a request acts for (access.py, support.py) *)

LoggedOut == [session EXCEPT !.signedIn = FALSE, !.trusted = FALSE]
OwnAccount == session.signedIn /\ acct.no # 0 /\ acct.active

\* The support session as it is after a request has looked at it.
Checked(expired) ==
    CASE ~support.on -> support
      [] support.on /\ (perms = "none" \/ expired) -> [support EXCEPT !.on = FALSE]
      [] support.on /\ perms # "none" /\ ~expired /\ support.of = 0 -> support  \* the look fails
      [] support.on /\ perms # "none" /\ ~expired /\ support.of # 0 /\ ~acct.active ->
            [support EXCEPT !.on = FALSE]
      [] OTHER -> [support EXCEPT !.edit = @ /\ perms = "edit"]
ForSupport(checked) == checked.on /\ checked.of # 0

\* Every request of a support session is told of in its log before it is served, and
\* a change goes no further without the right to edit.
OnlySettings(id) ==  \* mutant of Told
    calls[id].op = "settings"
Told(id) == calls[id].op \in {"settings", "photo", "no photo", "save", "unsave", "close", "add", "confirm"}
Admit(id) ==
    /\ id \in DOMAIN calls /\ calls[id].stage = "asked"
    /\ calls[id].op \in {"settings", "photo", "no photo", "save", "unsave", "close", "add", "confirm"}
    /\ IF calls[id].who = "trainee"
       THEN /\ IF OwnAccount THEN calls' = [calls EXCEPT ![id].stage = "let in", ![id].row = acct]
               ELSE Reply(id, FALSE)
            /\ UNCHANGED desk
       ELSE \E expired \in BOOLEAN :
            LET now == Checked(expired)
            IN /\ support' = now
               /\ log' = IF ForSupport(now) /\ Told(id) THEN log \cup {calls[id].nr} ELSE log
               /\ IF ForSupport(now) /\ now.edit /\ calls[id].op # "close"
                  THEN calls' = [calls EXCEPT ![id].stage = "let in", ![id].row = acct]
                  ELSE Reply(id, FALSE)
               /\ UNCHANGED <<perms, changes>>
    /\ UNCHANGED <<rows, shop, session, page, presses>>

\* What a request of the member of staff changed.
Traced(id) == changes' = IF calls[id].who = "staff" THEN changes \cup {calls[id].nr} ELSE changes
StillThere(id) == acct.no = calls[id].row.no

-----------------------------------------------------------------------------
(* A screen as it is when it has loaded *)

MayLook(who) == IF who = "trainee" THEN OwnAccount ELSE ForSupport(Checked(FALSE))
Blank(who, at) ==
    [who |-> who, at |-> at, step |-> "form", email |-> NoEmail, known |-> FALSE, saved |-> FALSE,
     readOnly |-> FALSE, filtered |-> FALSE]
\* The dashboard and the workshop's save button ask who is there first; who is signed in
\* has no business at the sign-in.
Screen(who, at) ==
    CASE at \in {"dashboard", "workshop"} /\ MayLook(who) ->
            [Blank(who, at) EXCEPT !.known = TRUE, !.saved = saved,
                                   !.readOnly = who = "staff" /\ ~Checked(FALSE).edit]
      [] at = "dashboard" /\ ~MayLook(who) -> Blank(who, "sign in")
      [] at = "sign in" /\ MayLook(who) -> [Blank(who, "dashboard") EXCEPT !.known = TRUE, !.saved = saved]
      [] at = "account" -> [Blank(who, at) EXCEPT !.known = session.signedIn]
      [] OTHER -> Blank(who, at)

-----------------------------------------------------------------------------
(* The server: proving the number (auth.py) *)

\* An address typed at sign-up is put on an account that has none, unless somebody
\* else has it; a code that went to the number does not prove it.
ClaimProves(row, email) ==  \* mutant of ClaimEmail
    IF email # NoEmail /\ row.email = NoEmail /\ email # other
    THEN [row EXCEPT !.email = email, !.proven = TRUE] ELSE row
ClaimEmail(row, email) ==
    IF email # NoEmail /\ row.email = NoEmail /\ email # other THEN [row EXCEPT !.email = email] ELSE row
Held(row, email) == email # NoEmail /\ ClaimEmail(row, email) = row

\* Earlier enquiries made with the number become the account's, every time.
LinkTheFirstTime(no) ==  \* mutant of LinkHistory
    IF acct.no = 0 THEN [n \in DOMAIN enq |-> IF enq[n].of = 0 THEN [enq[n] EXCEPT !.of = no] ELSE enq[n]] ELSE enq
LinkHistory(no) == [n \in DOMAIN enq |-> IF enq[n].of = 0 THEN [enq[n] EXCEPT !.of = no] ELSE enq[n]]

\* Who asks is told by the browser's session, or by the phone's token.
Known(id) == IF calls[id].op \in {"app role", "app send"} THEN session.token ELSE session.signedIn
Disabled == acct.no # 0 /\ ~acct.active
FirstUse == [NoAccount EXCEPT !.no = made + 1, !.active = TRUE]
Found == IF acct.no = 0 THEN FirstUse ELSE acct
AccountForVerifiedPhone(row) ==
    /\ acct' = row /\ made' = IF acct.no = 0 THEN made + 1 ELSE made
    /\ enq' = LinkHistory(row.no) /\ due' = DOMAIN enq
    /\ UNCHANGED <<other, proved, saved>>

\* A code is sent, to a number or to an address; whoever asks is told the same.
SendsCode(id, op, code) ==
    /\ At(id, op, "asked")
    /\ codes' = codes \cup {code} /\ Reply(id, TRUE)
    /\ UNCHANGED <<acct, made, other, enq, due, proved, saved, shop, desk, session, page, presses>>
CodeRequest(id) == SendsCode(id, "code", PhoneCode)
AccountCodeRequest(id) == SendsCode(id, "account code", AccountCode)
EmailCodeRequest(id) == At(id, "email code", "asked") /\ SendsCode(id, "email code", <<"enter", calls[id].email>>)

\* A code entered: the account, made on first use, and the browser is signed in.  A
\* picture chosen at sign-up is sent next.
CodeVerify(id) ==
    /\ At(id, "verify", "asked")
    /\ IF PhoneCode \in codes
       THEN /\ codes' = codes \ {PhoneCode}
            /\ IF Disabled
               THEN Reply(id, FALSE) /\ UNCHANGED <<acct, made, other, enq, due, proved, saved, session>>
               ELSE /\ AccountForVerifiedPhone(ClaimEmail(Found, calls[id].email))
                    /\ session' = [session EXCEPT !.signedIn = TRUE]
                    /\ \/ Answer(id, TRUE, Held(Found, calls[id].email))
                       \/ calls' = [calls EXCEPT ![id].op = "photo", ![id].held = Held(Found, calls[id].email)]
       ELSE Reply(id, FALSE) /\ UNCHANGED <<rows, session>>
    /\ UNCHANGED <<shop, desk, page, presses>>

\* An address is a second door to an account that has it, and never makes one; one on
\* somebody else's account opens theirs.
EmailVerify(id) ==
    /\ At(id, "email verify", "asked")
    /\ LET email == calls[id].email
       IN IF <<"enter", email>> \in codes
          THEN /\ codes' = codes \ {<<"enter", email>>} /\ proved' = proved \cup {email}
               /\ IF acct.no # 0 /\ acct.email = email /\ acct.active
                  THEN /\ acct' = [acct EXCEPT !.proven = TRUE]
                       /\ enq' = LinkHistory(acct.no) /\ due' = DOMAIN enq
                       /\ session' = [session EXCEPT !.signedIn = TRUE] /\ Reply(id, TRUE)
                  ELSE /\ session' = IF email = other THEN LoggedOut ELSE session
                       /\ Reply(id, FALSE) /\ UNCHANGED <<acct, enq, due>>
          ELSE Reply(id, FALSE) /\ UNCHANGED <<acct, enq, due, proved, codes, session>>
    /\ UNCHANGED <<made, other, saved, shop, desk, page, presses>>

\* The one account, and the app: signing in there makes no trainee of anybody ...
AccountVerify(id) ==
    /\ At(id, "account verify", "asked") \/ At(id, "app verify", "asked")
    /\ IF AccountCode \in codes
       THEN /\ codes' = codes \ {AccountCode} /\ Reply(id, TRUE)
            /\ session' = IF calls[id].op = "app verify" THEN [session EXCEPT !.token = TRUE]
                          ELSE [session EXCEPT !.signedIn = TRUE]
       ELSE Reply(id, FALSE) /\ UNCHANGED <<codes, session>>
    /\ UNCHANGED <<acct, made, other, enq, due, proved, saved, shop, desk, page, presses>>
\* The phone's token is forgotten, on the phone and by the server.
AppSignOut(id) ==
    /\ At(id, "app out", "asked")
    /\ session' = [session EXCEPT !.token = FALSE] /\ Reply(id, TRUE)
    /\ UNCHANGED <<rows, shop, desk, page, presses>>
\* ... until they ask to be one.
AddRole(id) ==
    /\ At(id, "role", "asked") \/ At(id, "app role", "asked")
    /\ IF Known(id) /\ ~Disabled
       THEN AccountForVerifiedPhone(Found) /\ Reply(id, TRUE) /\ UNCHANGED codes
       ELSE Reply(id, FALSE) /\ UNCHANGED rows
    /\ UNCHANGED <<shop, desk, session, page, presses>>

-----------------------------------------------------------------------------
(* The server: the account's own requests, with the row they were let in with *)

\* The settings: the whole row is written as it was read, and inserted again when it
\* has gone and its login has not.
SaveSettings(id) ==
    /\ At(id, "settings", "let in")
    /\ IF StillThere(id) \/ (acct.no = 0 /\ shop)
       THEN acct' = [calls[id].row EXCEPT !.background = TRUE] /\ Reply(id, TRUE) /\ Traced(id)
       ELSE Reply(id, FALSE) /\ UNCHANGED <<acct, changes>>
    /\ UNCHANGED <<made, other, enq, due, proved, codes, saved, shop, perms, support, log, session, page, presses>>

\* The picture: its own column; one that cannot be read is taken off again, with the
\* whole row as it was read.
SavePhoto(id) ==
    /\ At(id, "photo", "let in") \/ At(id, "no photo", "let in")
    /\ IF StillThere(id)
       THEN /\ \/ acct' = [acct EXCEPT !.photo = calls[id].op = "photo"] /\ Reply(id, TRUE)
               \/ calls[id].op = "photo" /\ acct' = [calls[id].row EXCEPT !.photo = FALSE] /\ Reply(id, FALSE)
            /\ Traced(id)
       ELSE Reply(id, FALSE) /\ UNCHANGED <<acct, changes>>
    /\ UNCHANGED <<made, other, enq, due, proved, codes, saved, shop, perms, support, log, session, page, presses>>

SaveList(id) ==
    /\ At(id, "save", "let in") \/ At(id, "unsave", "let in")
    /\ IF StillThere(id) /\ (calls[id].op = "unsave" => saved)
       THEN saved' = (calls[id].op = "save") /\ Reply(id, TRUE) /\ Traced(id)
       ELSE Reply(id, FALSE) /\ UNCHANGED <<saved, changes>>
    /\ UNCHANGED <<acct, made, other, enq, due, proved, codes, shop, perms, support, log, session, page, presses>>

\* An address to be added: not one of somebody else's account.
AddEmailRequest(id) ==
    /\ At(id, "add", "let in")
    /\ IF calls[id].email # other
       THEN codes' = codes \cup {<<"add", calls[id].email>>} /\ Reply(id, TRUE)
       ELSE Reply(id, FALSE) /\ UNCHANGED codes
    /\ UNCHANGED <<acct, made, other, enq, due, proved, saved, shop, desk, session, page, presses>>
\* The code is spent first; then the address is written, unless it was taken meanwhile.
AddEmailVerify(id) ==
    /\ At(id, "confirm", "let in")
    /\ IF <<"add", calls[id].email>> \in codes
       THEN /\ codes' = codes \ {<<"add", calls[id].email>>} /\ proved' = proved \cup {calls[id].email}
            /\ calls' = [calls EXCEPT ![id].stage = "entered"]
       ELSE Reply(id, FALSE) /\ UNCHANGED <<codes, proved>>
    /\ UNCHANGED <<acct, made, other, enq, due, saved, shop, desk, session, page, presses>>
AddEmailConfirm(id) ==
    /\ At(id, "confirm", "entered")
    /\ IF StillThere(id) /\ calls[id].email # other
       THEN acct' = [acct EXCEPT !.email = calls[id].email, !.proven = TRUE] /\ Reply(id, TRUE) /\ Traced(id)
       ELSE Reply(id, FALSE) /\ UNCHANGED <<acct, changes>>
    /\ UNCHANGED <<made, other, enq, due, proved, codes, saved, shop, perms, support, log, session, page, presses>>

\* Closing: what was sent stays with the workshops, unlinked; the list goes, and the
\* login too unless something else is done with it.
Closed ==
    /\ acct' = NoAccount /\ enq' = [n \in DOMAIN enq |-> [enq[n] EXCEPT !.of = 0]] /\ due' = {}
    /\ saved' = FALSE /\ support' = [support EXCEPT !.of = 0]
    /\ UNCHANGED <<made, other, proved>>
CloseAccount(id) ==
    /\ At(id, "close", "let in")
    /\ session' = [LoggedOut EXCEPT !.token = @ /\ (shop \/ ~StillThere(id))] /\ Reply(id, StillThere(id) \/ shop)
    /\ IF StillThere(id) THEN Closed /\ UNCHANGED codes ELSE UNCHANGED <<rows, support>>
    /\ UNCHANGED <<shop, perms, log, changes, page, presses>>

\* Out of the account, or for staff out of the support session only.
Logout(id) ==
    /\ At(id, "out", "asked")
    /\ IF calls[id].who = "trainee"
       THEN session' = LoggedOut /\ Reply(id, TRUE) /\ UNCHANGED support
       ELSE LET now == Checked(FALSE)
            IN /\ support' = IF ForSupport(now) THEN [now EXCEPT !.on = FALSE] ELSE now
               /\ Reply(id, ~(now.on /\ now.of = 0)) /\ UNCHANGED session
    /\ UNCHANGED <<rows, shop, perms, log, changes, page, presses>>

-----------------------------------------------------------------------------
(* The server: an enquiry (enquiries/views.py) *)

\* No second code for a number proved in this browser lately, or signed in with: the
\* form sends at once.
Onward(id) == [calls EXCEPT ![id].op = "send", ![id].stage = "asked"]
OTPRequest(id) ==
    /\ At(id, "request", "asked")
    /\ IF session.signedIn \/ session.trusted THEN calls' = Onward(id) /\ UNCHANGED codes
       ELSE codes' = codes \cup {EnquiryCode} /\ Reply(id, TRUE)
    /\ UNCHANGED <<acct, made, other, enq, due, proved, saved, shop, desk, session, page, presses>>

\* The number is proved, and so has an account from now on, a switched off one apart.
OTPVerify(id) ==
    /\ At(id, "check", "asked")
    /\ IF EnquiryCode \in codes
       THEN /\ codes' = codes \ {EnquiryCode} /\ calls' = Onward(id)
            /\ IF Disabled
               THEN /\ session' = [session EXCEPT !.trusted = TRUE]
                    /\ UNCHANGED <<acct, made, other, enq, due, proved, saved>>
               ELSE AccountForVerifiedPhone(Found) /\ session' = [session EXCEPT !.signedIn = TRUE, !.trusted = TRUE]
       ELSE Reply(id, FALSE) /\ UNCHANGED <<rows, session>>
    /\ UNCHANGED <<shop, desk, page, presses>>

\* The account it is linked to is looked up, then the enquiry is written: an account
\* made in between is not seen, one closed in between refuses the row.
FindTrainee(id) ==
    /\ At(id, "send", "asked") \/ At(id, "app send", "asked")
    /\ IF Known(id) \/ (calls[id].op = "send" /\ session.trusted)
       THEN calls' = [calls EXCEPT ![id].stage = "found", ![id].row = IF acct.active THEN acct ELSE NoAccount]
       ELSE Reply(id, FALSE)
    /\ UNCHANGED <<rows, shop, desk, session, page, presses>>
CreateEnquiry(id) ==
    /\ At(id, "send", "found") \/ At(id, "app send", "found")
    /\ IF calls[id].row.no \in {0, acct.no}
       THEN Len(enq) < MaxEnquiries /\ enq' = Append(enq, [of |-> calls[id].row.no]) /\ Reply(id, TRUE)
       ELSE Reply(id, FALSE) /\ UNCHANGED enq
    /\ UNCHANGED <<acct, made, other, due, proved, codes, saved, shop, desk, session, page, presses>>

-----------------------------------------------------------------------------
(* The others: staff at the back office, another trainee *)

\* A session is opened on an account that is on, for a reason; any earlier one ends.
StartSupportSession ==
    /\ perms # "none" /\ acct.no # 0 /\ acct.active /\ page.who = "trainee" /\ Press
    /\ support' = [on |-> TRUE, of |-> acct.no, edit |-> perms = "edit"]
    /\ page' = Screen("staff", "dashboard") /\ calls' = Unshown
    /\ UNCHANGED <<rows, shop, perms, log, changes, session>>
StaffSignOut ==
    /\ support.on /\ Press
    /\ support' = [support EXCEPT !.on = FALSE]
    /\ UNCHANGED <<rows, shop, perms, log, changes, session, page, calls>>
Revoke ==
    /\ perms # "none" /\ Press
    /\ perms' = IF perms = "edit" THEN "view" ELSE "none"
    /\ UNCHANGED <<rows, shop, support, log, changes, session, page, calls>>
SwitchOff ==
    /\ acct.active /\ Press
    /\ acct' = [acct EXCEPT !.active = FALSE]
    /\ UNCHANGED <<made, other, enq, due, proved, codes, saved, shop, desk, session, page, calls>>
\* On a formal request: the words go, the codes, and the account with them.
ErasePersonalData ==
    /\ acct.no # 0 /\ Press
    /\ Closed /\ codes' = codes \ {PhoneCode, EnquiryCode}
    /\ session' = [session EXCEPT !.signedIn = @ /\ shop, !.token = @ /\ shop]
    /\ UNCHANGED <<shop, perms, log, changes, page, calls>>
OtherClaims ==
    /\ other = NoEmail /\ Press
    /\ other' \in Emails \ {acct.email}
    /\ UNCHANGED <<acct, made, enq, due, proved, codes, saved, shop, desk, session, page, calls>>

-----------------------------------------------------------------------------
(* The screens *)

Trainee == page.who = "trainee"
Show(next) == page' = next /\ calls' = Unshown
Visit ==
    /\ Trainee /\ Press
    /\ \E at \in {"dashboard", "sign in", "workshop", "account", "app"} : page.at # at /\ Show(Screen("trainee", at))
    /\ UNCHANGED <<rows, shop, desk, session>>
LookAtTheOther ==
    /\ support.on /\ Press
    /\ Show(IF Trainee THEN Screen("staff", "dashboard") ELSE Screen("trainee", "home"))
    /\ UNCHANGED <<rows, shop, desk, session>>

\* Signing in, or up: the number, and what else somebody who signs up may tell.
PhoneForm == page.at = "sign in" /\ Trainee /\ page.step = "form"
SendCode == PhoneForm /\ \E email \in Typed : Ask({"email code"}, Call("code", email))
EmailForm == PhoneForm
SendEmailCode == EmailForm /\ \E email \in Emails : Ask({"code"}, Call("email code", email))
CodeForm == page.at = "sign in" /\ page.step \in {"phone code", "email code"}
CheckCode ==
    /\ CodeForm
    /\ Ask({"photo"}, Call(IF page.step = "phone code" THEN "verify" ELSE "email verify", page.email))
Back ==
    /\ CodeForm /\ Press
    /\ page' = [page EXCEPT !.step = "form", !.email = NoEmail]
    /\ UNCHANGED <<rows, shop, desk, session, calls>>
OutcomeScreen == page.at = "sign in" /\ page.step = "outcome"
GoToAccount ==
    /\ OutcomeScreen
    /\ Show(Screen("trainee", "dashboard"))
    /\ UNCHANGED <<rows, shop, desk, session, presses>>

\* The dashboard: one button of a group at a time; a support view that is read only
\* has its forms shut.
Dashboard == page.at = "dashboard"
Run == {"settings", "unsave", "close", "out"}
LeaveSupport == Dashboard /\ ~Trainee
SignOutButton == Dashboard /\ Trainee
SignOut == (LeaveSupport \/ SignOutButton) /\ Ask(Run, Call("out", NoEmail))
Mine == {n \in DOMAIN enq : enq[n].of = acct.no}
Overview == Dashboard /\ Trainee
NothingYet == Overview /\ Mine = {} /\ ~page.saved
FindTraining ==
    /\ NothingYet /\ Press
    /\ Show(Screen("trainee", "workshop"))
    /\ UNCHANGED <<rows, shop, desk, session>>
EnquiriesTab == Dashboard /\ Mine # {}
Filter ==
    /\ EnquiriesTab /\ ~page.filtered /\ Press
    /\ page' = [page EXCEPT !.filtered = TRUE]
    /\ UNCHANGED <<rows, shop, desk, session, calls>>
NoMatches == Dashboard /\ page.filtered
ClearFilters ==
    /\ NoMatches
    /\ page' = [page EXCEPT !.filtered = FALSE]
    /\ UNCHANGED <<rows, shop, desk, session, calls, presses>>
SavedTab == Dashboard /\ page.saved
Unsave == SavedTab /\ ~page.readOnly /\ Ask(Run, Call("unsave", NoEmail))
PhotoForm == Dashboard /\ ~page.readOnly
ChangePhoto == PhotoForm /\ Ask({"no photo"}, Call("photo", NoEmail))
DropPhoto == PhotoForm /\ acct.photo /\ Ask({"photo"}, Call("no photo", NoEmail))
DetailsForm == Dashboard /\ ~page.readOnly
BackgroundForm == DetailsForm
ChangeSettings == BackgroundForm /\ Ask(Run, Call("settings", NoEmail))
AddressForm == Dashboard /\ ~page.readOnly
AskToAdd == AddressForm /\ page.step = "form" /\ \E email \in Emails : Ask({"confirm"}, Call("add", email))
ConfirmEmail == AddressForm /\ page.step = "email code" /\ Ask({"add"}, Call("confirm", page.email))
CloseForm == Dashboard /\ Trainee
AskToClose == CloseForm /\ Ask(Run, Call("close", NoEmail))

\* A workshop's page: keeping it, and asking it something.
SaveButton == page.at = "workshop" /\ page.known /\ ~page.readOnly
Toggle == SaveButton /\ Ask({"save", "unsave"}, Call(IF page.saved THEN "unsave" ELSE "save", NoEmail))
DetailsStep == page.at = "workshop" /\ page.step = "form" /\ Len(enq) < MaxEnquiries
RequestCode == DetailsStep /\ Ask({"send"}, Call("request", NoEmail))
CodeStep == page.at = "workshop" /\ page.step = "phone code" /\ Len(enq) < MaxEnquiries
VerifyThenSend == CodeStep /\ Ask({"send"}, Call("check", NoEmail))

\* The one account.
AccountSignIn == page.at = "account" /\ ~page.known
AccountSend == AccountSignIn /\ page.step = "form" /\ Ask({}, Call("account code", NoEmail))
AccountConfirm == AccountSignIn /\ page.step = "phone code" /\ Ask({}, Call("account verify", NoEmail))
SignedIn == page.at = "account" /\ page.known
RoleCards == SignedIn
Become == RoleCards /\ Ask({"out"}, Call("role", NoEmail))
SignOutAccount == SignedIn /\ Ask({"role"}, Call("out", NoEmail))

\* The app: what needs somebody signed in sends them to sign in first; the courses make
\* a trainee of them once.
Me == page.at = "app"
OpenRow ==
    /\ Me /\ Press
    /\ Show(Screen("trainee", IF session.token THEN "app enquiry" ELSE "app sign in"))
    /\ UNCHANGED <<rows, shop, desk, session>>
EnsureTrainee == Me /\ session.token /\ Ask({"app out"}, Call("app role", NoEmail))
AppOut == Me /\ session.token /\ Ask({"app role"}, Call("app out", NoEmail))
AppPhoneForm == page.at = "app sign in" /\ page.step = "form"
AppSendCode == AppPhoneForm /\ Ask({}, Call("account code", NoEmail))
AppCodeForm == page.at = "app sign in" /\ page.step = "phone code"
AppCheckCode == AppCodeForm /\ Ask({}, Call("app verify", NoEmail))
AppEnquiryForm == page.at = "app enquiry" /\ page.step = "form" /\ Len(enq) < MaxEnquiries
AppEnquire == AppEnquiryForm /\ Ask({}, Call("app send", NoEmail))

\* An answer comes to the screen that asked.
After(call) ==
    CASE call.op \in {"code", "account code", "request"} -> [page EXCEPT !.step = "phone code", !.email = call.email]
      [] call.op \in {"email code", "add"} -> [page EXCEPT !.step = "email code", !.email = call.email]
      [] call.op \in {"verify", "photo"} /\ page.at = "sign in" /\ call.held -> [page EXCEPT !.step = "outcome"]
      [] call.op \in {"verify", "photo"} /\ page.at = "sign in" /\ ~call.held -> Screen("trainee", "dashboard")
      [] call.op \in {"email verify", "role"} -> Screen("trainee", "dashboard")
      [] call.op = "account verify" -> Screen("trainee", "account")
      [] call.op = "confirm" -> [page EXCEPT !.step = "form", !.email = NoEmail]
      [] call.op \in {"save", "unsave"} -> [page EXCEPT !.saved = call.op = "save"]
      [] call.op = "app verify" -> Screen("trainee", "app")
      [] call.op \in {"send", "app send"} -> [page EXCEPT !.step = "outcome"]
      [] call.op = "out" /\ page.at = "account" -> [page EXCEPT !.known = FALSE, !.step = "form"]
      [] call.op \in {"out", "close"} /\ page.at # "account" -> Screen("trainee", "home")
      [] OTHER -> page
Stands(call) == call.ok \/ (call.op = "photo" /\ page.at = "sign in")  \* a picture that fails is stepped over
Answered(id) ==
    /\ id \in DOMAIN calls /\ calls[id].stage = "answered"
    /\ page' = IF Stands(calls[id]) THEN After(calls[id]) ELSE page
    /\ calls' = IF page'.at = page.at /\ page'.who = page.who THEN Drop(id) ELSE [n \in DOMAIN Unshown \ {id} |-> Unshown[n]]
    /\ UNCHANGED <<rows, shop, desk, session, presses>>

-----------------------------------------------------------------------------
TypeOK ==
    /\ acct \in Account /\ made \in Nat /\ acct.no <= made /\ shop \in BOOLEAN /\ other \in Typed
    /\ enq \in Seq(Enquiry) /\ due \subseteq DOMAIN enq
    /\ proved \subseteq Emails /\ codes \subseteq Code /\ saved \in BOOLEAN
    /\ perms \in {"none", "view", "edit"} /\ support \in SupportSession
    /\ log \subseteq Nat /\ changes \subseteq Nat
    /\ session \in Session /\ page \in Page
    /\ DOMAIN calls \subseteq 1..MaxCalls /\ \A id \in DOMAIN calls : calls[id] \in Request
    /\ presses \in 0..MaxPresses

\* Somebody who asked a workshop something with a number that has no account, or an
\* account on the dashboard of whom it is, or of the staff who may look at it.
Init ==
    /\ \/ acct = NoAccount /\ made = 0 /\ enq = <<[of |-> 0]>> /\ session = [signedIn |-> FALSE, trusted |-> FALSE, token |-> FALSE]
       \/ /\ acct = [NoAccount EXCEPT !.no = 1, !.active = TRUE] /\ made = 1 /\ enq = <<[of |-> 0]>>
          /\ \E token \in BOOLEAN : session = [signedIn |-> TRUE, trusted |-> FALSE, token |-> token]
    /\ shop \in BOOLEAN /\ other = NoEmail
    /\ due = {} /\ proved = {} /\ codes = {} /\ saved = FALSE
    /\ perms \in {"none", "edit"} /\ support = [on |-> FALSE, of |-> 0, edit |-> FALSE]
    /\ log = {} /\ changes = {}
    /\ page \in {Screen("trainee", at) : at \in {"dashboard", "workshop", "app"}}
    /\ calls = <<>> /\ presses = 0

Serve(id) ==
    \/ Admit(id) \/ CodeRequest(id) \/ EmailCodeRequest(id) \/ CodeVerify(id) \/ EmailVerify(id)
    \/ AccountCodeRequest(id) \/ AccountVerify(id) \/ AppSignOut(id) \/ AddRole(id) \/ SaveSettings(id) \/ SavePhoto(id) \/ SaveList(id)
    \/ AddEmailRequest(id) \/ AddEmailVerify(id) \/ AddEmailConfirm(id) \/ CloseAccount(id) \/ Logout(id)
    \/ OTPRequest(id) \/ OTPVerify(id) \/ FindTrainee(id) \/ CreateEnquiry(id)
BackOffice == StartSupportSession \/ StaffSignOut \/ Revoke \/ SwitchOff \/ ErasePersonalData
AtTheSignIn == SendCode \/ SendEmailCode \/ CheckCode \/ Back \/ GoToAccount
OnTheDashboard ==
    \/ SignOut \/ FindTraining \/ Filter \/ ClearFilters \/ Unsave \/ ChangePhoto \/ DropPhoto \/ ChangeSettings
    \/ AskToAdd \/ ConfirmEmail \/ AskToClose
Elsewhere ==
    \/ Visit \/ LookAtTheOther \/ Toggle \/ RequestCode \/ VerifyThenSend
    \/ AccountSend \/ AccountConfirm \/ Become \/ SignOutAccount
InTheApp == OpenRow \/ EnsureTrainee \/ AppOut \/ AppSendCode \/ AppCheckCode \/ AppEnquire
Next ==
    \/ \E id \in 1..MaxCalls : Serve(id) \/ Answered(id)
    \/ BackOffice \/ OtherClaims \/ AtTheSignIn \/ OnTheDashboard \/ Elsewhere \/ InTheApp

Spec == Init /\ [][Next]_vars

-----------------------------------------------------------------------------
(* Properties *)

\* Every enquiry made with a number before the number was last proved is the account's
\* from then on, whichever door it was proved at, until the account is closed
\* (auth.py, link_history).
EarlierEnquiriesAreFound == acct.no # 0 => \A n \in due : enq[n].of = acct.no

\* An address counts as proved only when a code that went nowhere else was entered, and
\* writing a row back that was read before does not change that (auth.py, _claim_email).
ProvenMeansProved == acct.proven => acct.email \in proved

\* What staff changed in a support session its log tells of, also when the session ended
\* or the right to edit went while the change was under way (access.py, support.py).
StaffLeaveATrace == changes \subseteq log
=============================================================================

------------------------ MODULE TraineeAccountProofs ------------------------
(***************************************************************************)
(* What a trainee's account keeps true, for any addresses, any number of   *)
(* enquiries and requests, and people who may do anything any number of    *)
(* times.                                                                  *)
(***************************************************************************)
EXTENDS TraineeAccount, FiniteSetTheorems, TLAPS

-----------------------------------------------------------------------------
(* The inductive invariant *)

\* What a request under way relies on: the row it was let in with is an account that
\* was made, whose address was proved if the row says so; an address asked about is
\* one; a code that was entered proved its address; and the log tells of a request of
\* the member of staff before it is served.
Fits(c, number, addresses, told) ==
    /\ c.row.no <= number
    /\ c.op \in {"email code", "add"} => c.email \in Emails
    /\ c.row.proven => c.row.email \in addresses
    /\ c.op = "confirm" /\ c.stage = "entered" => c.email \in addresses
    /\ c.who = "staff" /\ c.stage \in {"let in", "entered"} => c.nr \in told
CallsFit == \A id \in DOMAIN calls : Fits(calls[id], made, proved, log)

\* A code that went to an address went to one.
CodesName == \A e \in Typed : <<"enter", e>> \in codes \/ <<"add", e>> \in codes => e \in Emails

\* An enquiry is the account's or nobody's; where nobody has proved the number since
\* the account went, none is due.
Linked ==
    /\ \A n \in DOMAIN enq : enq[n].of \in {0, acct.no}
    /\ acct.no = 0 => due = {}

\* TypeOK, in the parts that steps disturb together.
RowsTyped ==
    /\ acct \in Account /\ made \in Nat /\ acct.no <= made /\ other \in Typed
    /\ enq \in Seq(Enquiry) /\ due \subseteq DOMAIN enq
    /\ proved \subseteq Emails /\ codes \subseteq Code /\ saved \in BOOLEAN
DeskTyped ==
    /\ perms \in {"none", "view", "edit"} /\ support \in SupportSession
    /\ log \subseteq Nat /\ changes \subseteq Nat
CallsTyped == DOMAIN calls \subseteq 1..MaxCalls /\ \A id \in DOMAIN calls : calls[id] \in Request

Kept == CodesName /\ Linked /\ EarlierEnquiriesAreFound /\ ProvenMeansProved
IInv == TypeOK /\ CallsFit /\ Kept /\ StaffLeaveATrace

LEMMA TypeParts ==
    TypeOK <=> /\ RowsTyped /\ DeskTyped /\ CallsTyped /\ shop \in BOOLEAN
               /\ session \in Session /\ page \in Page /\ presses \in 0..MaxPresses
BY DEF TypeOK, RowsTyped, DeskTyped, CallsTyped

-----------------------------------------------------------------------------
(* Requests *)

\* What may become of a request that is not let in, found or entered.
Follows(c, d) ==
    /\ d \in Request
    /\ d.row = c.row /\ d.email = c.email /\ d.who = c.who /\ d.nr = c.nr
    /\ d.op \in {c.op, "photo", "send"}
    /\ d.stage \in {c.stage, "asked", "answered"}
CallsFollow == \A n \in DOMAIN calls' : n \in DOMAIN calls /\ Follows(calls[n], calls'[n])

LEMMA FieldsFollow ==
    ASSUME NEW c \in Request, NEW ok \in BOOLEAN, NEW held \in BOOLEAN
    PROVE  /\ Follows(c, c)
           /\ Follows(c, [c EXCEPT !.stage = "answered", !.ok = ok, !.held = held])
           /\ Follows(c, [c EXCEPT !.shown = FALSE])
           /\ Follows(c, [c EXCEPT !.op = "send", !.stage = "asked"])
           /\ Follows(c, [c EXCEPT !.op = "photo", !.held = held])
<1>1. Follows(c, c)
    BY DEF Follows, Request
<1>2. Follows(c, [c EXCEPT !.stage = "answered", !.ok = ok, !.held = held])
    BY DEF Follows, Request
<1>3. Follows(c, [c EXCEPT !.shown = FALSE])
    BY DEF Follows, Request
<1>4. Follows(c, [c EXCEPT !.op = "send", !.stage = "asked"])
    BY DEF Follows, Request
<1>5. Follows(c, [c EXCEPT !.op = "photo", !.held = held])
    BY DEF Follows, Request
<1>. QED BY <1>1, <1>2, <1>3, <1>4, <1>5

\* One request becomes another, the others stay.
LEMMA OneFollows ==
    ASSUME TypeOK, NEW id \in DOMAIN calls, NEW d, Follows(calls[id], d), calls' = [calls EXCEPT ![id] = d]
    PROVE  CallsFollow
<1>1. \A n \in DOMAIN calls : Follows(calls[n], calls[n])
    BY FieldsFollow DEF TypeOK
<1>. QED BY <1>1 DEF CallsFollow

LEMMA AnswerFollows ==
    ASSUME TypeOK, NEW id \in DOMAIN calls, NEW ok \in BOOLEAN, NEW held \in BOOLEAN, Answer(id, ok, held)
    PROVE  CallsFollow
<1>1. \A n \in DOMAIN calls : calls[n] \in Request
    BY DEF TypeOK
<1>2. CASE calls[id].shown
    <2>. DEFINE d == [calls[id] EXCEPT !.stage = "answered", !.ok = ok, !.held = held]
    <2>1. calls' = [calls EXCEPT ![id] = d]
        BY <1>2 DEF Answer
    <2>2. Follows(calls[id], d)
        BY <1>1, FieldsFollow
    <2>. HIDE DEF d
    <2>. QED BY <2>1, <2>2, OneFollows
<1>3. CASE ~calls[id].shown
    <2>1. calls' = Drop(id)
        BY <1>3 DEF Answer
    <2>. QED BY <1>1, <2>1, FieldsFollow DEF CallsFollow, Drop
<1>. QED BY <1>2, <1>3

LEMMA ReplyFollows ==
    ASSUME TypeOK, NEW id \in DOMAIN calls, NEW ok \in BOOLEAN, Reply(id, ok)
    PROVE  CallsFollow
<1>1. calls[id].held \in BOOLEAN
    BY DEF TypeOK, Request
<1>. QED BY <1>1, AnswerFollows DEF Reply

LEMMA SameFollows ==
    ASSUME TypeOK, UNCHANGED calls
    PROVE  CallsFollow
BY FieldsFollow DEF TypeOK, CallsFollow

LEMMA UnshownFollows ==
    ASSUME TypeOK, NEW S, calls' = [n \in DOMAIN Unshown \ S |-> Unshown[n]]
    PROVE  CallsFollow
<1>1. \A n \in DOMAIN calls : Follows(calls[n], [calls[n] EXCEPT !.shown = FALSE])
    BY FieldsFollow DEF TypeOK
<1>. QED BY <1>1 DEF CallsFollow, Unshown

LEMMA OnwardFollows ==
    ASSUME TypeOK, NEW id \in DOMAIN calls, calls' = Onward(id)
    PROVE  CallsFollow
<1>. DEFINE d == [calls[id] EXCEPT !.op = "send", !.stage = "asked"]
<1>1. calls' = [calls EXCEPT ![id] = d]
    BY DEF Onward
<1>2. Follows(calls[id], d)
    BY FieldsFollow DEF TypeOK
<1>. HIDE DEF d
<1>. QED BY <1>1, <1>2, OneFollows

\* A request goes on fitting while what it relies on only grows.
LEMMA FollowerFits ==
    ASSUME NEW c \in Request, NEW d, Follows(c, d), NEW number \in Nat, NEW later \in Nat, number <= later,
           NEW addresses, NEW more, addresses \subseteq more, NEW told, NEW toldNow, told \subseteq toldNow,
           Fits(c, number, addresses, told)
    PROVE  Fits(d, later, more, toldNow)
<1>1. c.row.no \in Nat /\ c.row.no <= number /\ d.row = c.row
    BY DEF Request, Account, Follows, Fits
<1>2. d.row.no <= later
    BY <1>1
<1>3. d.email = c.email /\ d.who = c.who /\ d.nr = c.nr /\ d.op \in {c.op, "photo", "send"}
      /\ d.stage \in {c.stage, "asked", "answered"}
    BY DEF Follows
<1>4. /\ d.op \in {"email code", "add"} => d.email \in Emails
      /\ d.row.proven => d.row.email \in more
      /\ d.op = "confirm" /\ d.stage = "entered" => d.email \in more
      /\ d.who = "staff" /\ d.stage \in {"let in", "entered"} => d.nr \in toldNow
    BY <1>1, <1>3 DEF Fits
<1>. QED BY <1>2, <1>4 DEF Fits

LEMMA FollowersFit ==
    ASSUME TypeOK, CallsFit, CallsFollow, made' \in Nat, made <= made',
           proved \subseteq proved', log \subseteq log'
    PROVE  CallsTyped' /\ CallsFit'
<1>1. CallsTyped'
    BY DEF TypeOK, CallsTyped, CallsFollow, Follows
<1>2. ASSUME NEW n \in DOMAIN calls' PROVE Fits(calls'[n], made', proved', log')
    <2>1. n \in DOMAIN calls /\ Follows(calls[n], calls'[n]) /\ calls[n] \in Request /\ made \in Nat
        BY <1>2 DEF CallsFollow, TypeOK
    <2>2. Fits(calls[n], made, proved, log)
        BY <2>1 DEF CallsFit
    <2>. QED BY <2>1, <2>2, FollowerFits
<1>. QED BY <1>1, <1>2 DEF CallsFit

-----------------------------------------------------------------------------
(* What a step that leaves something alone keeps *)

LEMMA RowsSame ==
    ASSUME IInv, UNCHANGED rows
    PROVE  RowsTyped' /\ Kept' /\ made' \in Nat /\ made <= made' /\ proved \subseteq proved'
<1>1. acct' = acct /\ made' = made /\ other' = other /\ enq' = enq /\ due' = due /\ proved' = proved
      /\ codes' = codes /\ saved' = saved
    BY DEF rows
<1>2. RowsTyped /\ Kept /\ made \in Nat
    BY TypeParts DEF IInv, RowsTyped
<1>. QED BY <1>1, <1>2 DEF RowsTyped, Kept, CodesName, Linked, EarlierEnquiriesAreFound, ProvenMeansProved

LEMMA DeskSame ==
    ASSUME IInv, UNCHANGED desk
    PROVE  DeskTyped' /\ StaffLeaveATrace' /\ log \subseteq log'
<1>1. perms' = perms /\ support' = support /\ log' = log /\ changes' = changes
    BY DEF desk
<1>2. DeskTyped /\ StaffLeaveATrace
    BY TypeParts DEF IInv
<1>. QED BY <1>1, <1>2 DEF DeskTyped, StaffLeaveATrace

\* The parts together.
LEMMA Together ==
    ASSUME IInv, CallsFollow, RowsTyped', Kept', made <= made', proved \subseteq proved',
           DeskTyped', StaffLeaveATrace', log \subseteq log',
           shop' = shop, session' \in Session, page' \in Page, presses' \in 0..MaxPresses
    PROVE  IInv'
<1>1. made' \in Nat
    BY DEF RowsTyped
<1>2. CallsTyped' /\ CallsFit'
    BY <1>1, FollowersFit DEF IInv
<1>3. shop' \in BOOLEAN
    BY DEF IInv, TypeOK
<1>4. TypeOK'
    BY <1>2, <1>3 DEF TypeOK, RowsTyped, DeskTyped, CallsTyped
<1>. QED BY <1>2, <1>4 DEF IInv

LEMMA SameTyped ==
    ASSUME IInv
    PROVE  /\ TypeOK /\ session \in Session /\ page \in Page /\ presses \in 0..MaxPresses
           /\ Press => presses' \in 0..MaxPresses
BY TraineeAssumption DEF IInv, TypeOK, Press

\* A step of the screen, which asks for nothing.
LEMMA ScreenStep ==
    ASSUME IInv, UNCHANGED <<rows, shop, desk, session>>, page' \in Page, CallsFollow,
           Press \/ presses' = presses
    PROVE  IInv'
<1>1. UNCHANGED rows /\ shop' = shop /\ UNCHANGED desk /\ session' = session
    OBVIOUS
<1>2. session' \in Session /\ presses' \in 0..MaxPresses
    BY <1>1, SameTyped
<1>. QED BY <1>1, <1>2, RowsSame, DeskSame, Together

-----------------------------------------------------------------------------
(* A new request *)

Ops == {"code", "account code", "email code", "verify", "account verify", "email verify", "app verify",
        "role", "app role", "out", "app out", "settings", "photo", "no photo", "save", "unsave",
        "add", "confirm", "close", "request", "check", "send", "app send"}

LEMMA SomeoneIsThere ==
    ASSUME IInv
    PROVE  page.who \in {"trainee", "staff"} /\ presses \in Nat /\ made \in Nat /\ 0 <= made
<1>1. page \in Page /\ presses \in 0..MaxPresses /\ made \in Nat
    BY DEF IInv, TypeOK
<1>2. page.who \in {"trainee", "staff"}
    BY <1>1 DEF Page
<1>3. presses \in Nat
    BY <1>1, TraineeAssumption
<1>. QED BY <1>1, <1>2, <1>3

LEMMA CallFits ==
    ASSUME IInv, NEW op \in Ops, NEW email \in Typed, op \in {"email code", "add"} => email \in Emails
    PROVE  Call(op, email) \in Request /\ Fits(Call(op, email), made, proved, log)
<1>1. NoAccount \in Account /\ NoAccount.no = 0 /\ ~NoAccount.proven
    BY DEF NoAccount, Account, Typed
<1>2. page.who \in {"trainee", "staff"} /\ presses \in Nat /\ made \in Nat /\ 0 <= made
    BY SomeoneIsThere
<1>3. Call(op, email) \in Request
    BY <1>1, <1>2 DEF Call, Request, Ops
<1>. DEFINE c == Call(op, email)
<1>4. c.row = NoAccount /\ c.op = op /\ c.email = email /\ c.stage = "asked"
    BY DEF Call
<1>. HIDE DEF c
<1>5. c.row.no <= made
    BY <1>1, <1>2, <1>4
<1>6. c.row.proven = NoAccount.proven
    BY <1>4
<1>7. Fits(c, made, proved, log)
    BY <1>1, <1>4, <1>5, <1>6 DEF Fits
<1>. QED BY <1>3, <1>7 DEF c

\* There is a number left for a request while there is room for one.
LEMMA FreeIsNew ==
    ASSUME TypeOK, Room
    PROVE  Free \in 1..MaxCalls
<1>1. \E id \in 1..MaxCalls : id \notin DOMAIN calls
    <2>1. SUFFICES ASSUME 1..MaxCalls \subseteq DOMAIN calls PROVE FALSE
        OBVIOUS
    <2>2. DOMAIN calls = 1..MaxCalls
        BY <2>1 DEF TypeOK
    <2>3. Cardinality(1..MaxCalls) = MaxCalls
        BY FS_Interval, TraineeAssumption
    <2>. QED BY <2>2, <2>3, TraineeAssumption DEF Room
<1>. QED BY <1>1 DEF Free

LEMMA AskStep ==
    ASSUME IInv, NEW op \in Ops, NEW email \in Typed, op \in {"email code", "add"} => email \in Emails,
           NEW group, Ask(group, Call(op, email))
    PROVE  IInv'
<1>. DEFINE c == Call(op, email)
<1>1. c \in Request /\ Fits(c, made, proved, log)
    BY CallFits
<1>. HIDE DEF c
<1>2. UNCHANGED rows /\ shop' = shop /\ UNCHANGED desk /\ session' = session /\ page' = page /\ Room /\ Press
    BY DEF Ask
<1>3. Free \in 1..MaxCalls
    BY <1>2, FreeIsNew DEF IInv
<1>4. calls' = [id \in DOMAIN calls \cup {Free} |-> IF id \in DOMAIN calls THEN calls[id] ELSE c]
    BY DEF Ask, c
<1>5. made' = made /\ proved' = proved /\ log' = log
    BY <1>2 DEF rows, desk
<1>6. CallsTyped' /\ CallsFit'
    BY <1>1, <1>3, <1>4, <1>5 DEF IInv, TypeOK, CallsTyped, CallsFit
<1>7. RowsTyped' /\ Kept' /\ DeskTyped' /\ StaffLeaveATrace'
    BY <1>2, RowsSame, DeskSame
<1>8. shop' \in BOOLEAN /\ session' \in Session /\ page' \in Page /\ presses' \in 0..MaxPresses
    BY <1>2, SameTyped DEF IInv, TypeOK
<1>9. TypeOK'
    BY <1>6, <1>7, <1>8 DEF TypeOK, RowsTyped, DeskTyped, CallsTyped
<1>. QED BY <1>6, <1>7, <1>9 DEF IInv

-----------------------------------------------------------------------------
(* Screens and support sessions keep their shape *)

LEMMA CheckedTyped ==
    ASSUME IInv, NEW expired \in BOOLEAN
    PROVE  Checked(expired) \in SupportSession
<1>1. support \in SupportSession
    BY DEF IInv, TypeOK
<1>2. [support EXCEPT !.on = FALSE] \in SupportSession
    BY <1>1 DEF SupportSession
<1>3. [support EXCEPT !.edit = @ /\ perms = "edit"] \in SupportSession
    BY <1>1 DEF SupportSession
<1>. QED BY <1>1, <1>2, <1>3 DEF Checked

Whos == {"trainee", "staff"}
Places == {"dashboard", "sign in", "workshop", "account", "home", "app", "app sign in", "app enquiry"}

LEMMA ScreenShape ==
    ASSUME saved \in BOOLEAN, session \in Session, NEW who \in Whos, NEW at \in Places
    PROVE  Screen(who, at) \in Page
<1>1. saved \in BOOLEAN /\ session.signedIn \in BOOLEAN
    BY DEF Session
<1>2. \A a \in Places : Blank(who, a) \in Page
    BY DEF Blank, Page, Places, Whos, Typed
<1>3. \A b \in Page, k \in BOOLEAN : [b EXCEPT !.known = k] \in Page
    BY DEF Page
<1>4. \A b \in Page, k \in BOOLEAN, l \in BOOLEAN : [b EXCEPT !.known = k, !.saved = l] \in Page
    BY DEF Page
<1>5. \A b \in Page, k \in BOOLEAN, l \in BOOLEAN, m \in BOOLEAN :
          [b EXCEPT !.known = k, !.saved = l, !.readOnly = m] \in Page
    BY DEF Page
<1>6. "dashboard" \in Places /\ "sign in" \in Places
    BY DEF Places
<1>7. Blank(who, at) \in Page /\ Blank(who, "dashboard") \in Page /\ Blank(who, "sign in") \in Page
    BY <1>2, <1>6
<1>8. (who = "staff" /\ ~Checked(FALSE).edit) \in BOOLEAN
    OBVIOUS
<1>9. /\ [Blank(who, at) EXCEPT !.known = TRUE, !.saved = saved,
                                !.readOnly = who = "staff" /\ ~Checked(FALSE).edit] \in Page
      /\ [Blank(who, "dashboard") EXCEPT !.known = TRUE, !.saved = saved] \in Page
      /\ [Blank(who, at) EXCEPT !.known = session.signedIn] \in Page
    BY <1>1, <1>3, <1>4, <1>5, <1>7, <1>8
<1>. QED BY <1>7, <1>9 DEF Screen

LEMMA ScreenTyped ==
    ASSUME IInv, NEW who \in Whos, NEW at \in Places
    PROVE  Screen(who, at) \in Page
BY ScreenShape DEF IInv, TypeOK

-----------------------------------------------------------------------------
(* The account's rows *)

\* Enquiries linked to an account, whatever they were linked to before, are enquiries.
LEMMA Relinked ==
    ASSUME RowsTyped, NEW f, DOMAIN f = DOMAIN enq, \A n \in DOMAIN enq : f[n] \in Enquiry,
           f = [n \in DOMAIN enq |-> f[n]]
    PROVE  f \in Seq(Enquiry)
<1>1. enq \in Seq(Enquiry) /\ Len(enq) \in Nat /\ DOMAIN enq = 1..Len(enq)
    BY DEF RowsTyped
<1>2. f \in [1..Len(enq) -> Enquiry]
    BY <1>1
<1>. QED BY <1>1, <1>2

\* link_history, where enquiries are the account's or nobody's: all become the account's.
LEMMA LinkHistoryLinks ==
    ASSUME RowsTyped, NEW no \in Nat, \A n \in DOMAIN enq : enq[n].of \in {0, no}
    PROVE  /\ LinkHistory(no) \in Seq(Enquiry) /\ DOMAIN LinkHistory(no) = DOMAIN enq
           /\ \A n \in DOMAIN enq : LinkHistory(no)[n].of = no
<1>. DEFINE f == LinkHistory(no)
<1>1. DOMAIN f = DOMAIN enq /\ f = [n \in DOMAIN enq |-> f[n]]
    BY DEF LinkHistory
<1>2. \A n \in DOMAIN enq : enq[n] \in Enquiry
    BY DEF RowsTyped
<1>3. ASSUME NEW n \in DOMAIN enq PROVE f[n] \in Enquiry /\ f[n].of = no
    <2>1. f[n] = IF enq[n].of = 0 THEN [enq[n] EXCEPT !.of = no] ELSE enq[n]
        BY DEF LinkHistory
    <2>2. enq[n] \in Enquiry /\ enq[n].of \in {0, no}
        BY <1>2
    <2>. QED BY <2>1, <2>2 DEF Enquiry
<1>. HIDE DEF f
<1>4. f \in Seq(Enquiry)
    BY <1>1, <1>3, Relinked
<1>. QED BY <1>1, <1>3, <1>4 DEF f

\* The account that is found or made for a number that was proved.
LEMMA FoundTyped ==
    ASSUME IInv
    PROVE  /\ Found \in Account /\ Found.no \in Nat \ {0}
           /\ Found.no = (IF acct.no = 0 THEN made + 1 ELSE acct.no)
           /\ Found.proven => Found.email \in proved
<1>1. acct \in Account /\ made \in Nat /\ acct.no \in Nat
    BY DEF IInv, TypeOK, Account
<1>2. CASE acct.no = 0
    <2>1. Found = [NoAccount EXCEPT !.no = made + 1, !.active = TRUE]
        BY <1>2 DEF Found, FirstUse
    <2>2. NoAccount \in Account /\ NoAccount.proven = FALSE
        BY DEF NoAccount, Account, Typed
    <2>3. made + 1 \in Nat \ {0}
        BY <1>1
    <2>4. \A k \in Nat : LET a == [NoAccount EXCEPT !.no = k, !.active = TRUE]
                         IN a \in Account /\ a.no = k /\ a.proven = NoAccount.proven
        BY <2>2 DEF Account
    <2>5. Found \in Account /\ Found.no = made + 1 /\ Found.proven = FALSE
        BY <2>1, <2>2, <2>3, <2>4
    <2>. QED BY <1>2, <2>3, <2>5
<1>3. CASE acct.no # 0
    BY <1>1, <1>3 DEF Found, IInv, Kept, ProvenMeansProved
<1>. QED BY <1>2, <1>3

\* _claim_email puts an address on a row that has none, which does not prove it.
LEMMA ClaimTyped ==
    ASSUME IInv, NEW row \in Account, row.proven => row.email \in proved, NEW email \in Typed
    PROVE  /\ ClaimEmail(row, email) \in Account /\ ClaimEmail(row, email).no = row.no
           /\ ClaimEmail(row, email).proven => ClaimEmail(row, email).email \in proved
<1>. DEFINE claimed == [row EXCEPT !.email = email]
<1>1. NoEmail \notin proved
    BY TraineeAssumption DEF IInv, TypeOK
<1>2. claimed \in Account /\ claimed.no = row.no /\ claimed.proven = row.proven
    BY DEF Account
<1>3. row.email = NoEmail => ~row.proven
    BY <1>1
<1>. QED BY <1>2, <1>3 DEF ClaimEmail

\* account_for_verified_phone: from here on the number's enquiries are the account's.
LEMMA ProvedNumber ==
    ASSUME IInv, NEW row \in Account, row.no = Found.no, row.proven => row.email \in proved,
           AccountForVerifiedPhone(row), codes' \subseteq codes
    PROVE  RowsTyped' /\ Kept' /\ made' \in Nat /\ made <= made' /\ proved \subseteq proved'
<1>1. RowsTyped /\ Kept
    BY TypeParts DEF IInv
<1>2. acct.no \in Nat /\ made \in Nat /\ acct.no <= made /\ row.no \in Nat \ {0}
      /\ row.no = (IF acct.no = 0 THEN made + 1 ELSE acct.no)
    BY <1>1, FoundTyped DEF RowsTyped, Account
<1>3. /\ acct' = row /\ made' = (IF acct.no = 0 THEN made + 1 ELSE made)
      /\ enq' = LinkHistory(row.no) /\ due' = DOMAIN enq
      /\ other' = other /\ proved' = proved /\ saved' = saved
    BY DEF AccountForVerifiedPhone
<1>4. \A n \in DOMAIN enq : enq[n].of \in {0, row.no}
    BY <1>1, <1>2 DEF Kept, Linked
<1>5. /\ enq' \in Seq(Enquiry) /\ DOMAIN enq' = DOMAIN enq
      /\ \A n \in DOMAIN enq' : enq'[n].of = row.no
    BY <1>1, <1>2, <1>3, <1>4, LinkHistoryLinks
<1>6. made' \in Nat /\ made <= made' /\ row.no <= made'
    BY <1>2, <1>3
<1>7. RowsTyped'
    BY <1>1, <1>3, <1>5, <1>6 DEF RowsTyped
<1>8. CodesName'
    BY <1>1 DEF Kept, CodesName
<1>9. Linked'
    BY <1>2, <1>3, <1>5 DEF Linked
<1>10. EarlierEnquiriesAreFound'
    BY <1>3, <1>5 DEF EarlierEnquiriesAreFound
<1>11. ProvenMeansProved'
    BY <1>3 DEF ProvenMeansProved
<1>12. Kept'
    BY <1>8, <1>9, <1>10, <1>11 DEF Kept
<1>. QED BY <1>3, <1>6, <1>7, <1>12

\* Codes are sent and spent; nothing else of the rows is touched.
LEMMA CodesOnly ==
    ASSUME IInv, UNCHANGED <<acct, made, other, enq, due, proved, saved>>, codes' \subseteq Code, CodesName'
    PROVE  RowsTyped' /\ Kept' /\ made' \in Nat /\ made <= made' /\ proved \subseteq proved'
<1>1. RowsTyped /\ Kept
    BY TypeParts DEF IInv
<1>2. made' \in Nat /\ made <= made'
    BY <1>1 DEF RowsTyped
<1>3. RowsTyped'
    BY <1>1 DEF RowsTyped
<1>4. Linked' /\ EarlierEnquiriesAreFound' /\ ProvenMeansProved'
    BY <1>1 DEF Kept, Linked, EarlierEnquiriesAreFound, ProvenMeansProved
<1>. QED BY <1>2, <1>3, <1>4 DEF Kept

\* The account's row is written whole, with what a request was let in with or with
\* what the row says itself; addresses may have been proved, codes spent, a list kept.
LEMMA AccountWritten ==
    ASSUME IInv, NEW row \in Account, row.no <= made, acct.no \in {0, row.no},
           row.proven => row.email \in proved', acct' = row,
           UNCHANGED <<made, other, enq, due>>, saved' \in BOOLEAN,
           proved \subseteq proved', proved' \subseteq Emails, codes' \subseteq codes
    PROVE  RowsTyped' /\ Kept' /\ made' \in Nat /\ made <= made' /\ proved \subseteq proved'
<1>1. RowsTyped /\ Kept
    BY TypeParts DEF IInv
<1>2. made' \in Nat /\ made <= made'
    BY <1>1 DEF RowsTyped
<1>3. RowsTyped'
    BY <1>1 DEF RowsTyped
<1>4. CodesName'
    BY <1>1 DEF Kept, CodesName
<1>5. Linked'
    BY <1>1 DEF Kept, Linked
<1>6. EarlierEnquiriesAreFound'
    BY <1>1 DEF Kept, Linked, EarlierEnquiriesAreFound
<1>7. ProvenMeansProved'
    BY DEF ProvenMeansProved
<1>. QED BY <1>2, <1>3, <1>4, <1>5, <1>6, <1>7 DEF Kept

\* An account that is closed or erased leaves its enquiries to nobody.
LEMMA ClosedRows ==
    ASSUME IInv, Closed, codes' \subseteq codes
    PROVE  /\ RowsTyped' /\ Kept' /\ made' \in Nat /\ made <= made' /\ proved \subseteq proved'
           /\ support' \in SupportSession
<1>1. RowsTyped /\ Kept /\ support \in SupportSession
    BY TypeParts DEF IInv, DeskTyped
<1>2. /\ acct' = NoAccount /\ due' = {} /\ saved' = FALSE /\ support' = [support EXCEPT !.of = 0]
      /\ enq' = [n \in DOMAIN enq |-> [enq[n] EXCEPT !.of = 0]]
      /\ made' = made /\ other' = other /\ proved' = proved
    BY DEF Closed
<1>3. NoAccount \in Account /\ NoAccount.no = 0 /\ NoAccount.proven = FALSE
    BY DEF NoAccount, Account, Typed
<1>4. \A n \in DOMAIN enq : enq[n] \in Enquiry
    BY <1>1 DEF RowsTyped
<1>5. DOMAIN enq' = DOMAIN enq /\ \A n \in DOMAIN enq : enq'[n] \in Enquiry /\ enq'[n].of = 0
    BY <1>2, <1>4 DEF Enquiry
<1>6. enq' = [n \in DOMAIN enq |-> enq'[n]]
    BY <1>2
<1>7. enq' \in Seq(Enquiry)
    BY <1>1, <1>5, <1>6, Relinked
<1>8. made' \in Nat /\ made <= made' /\ acct'.no <= made'
    BY <1>1, <1>2, <1>3 DEF RowsTyped
<1>9. RowsTyped'
    BY <1>1, <1>2, <1>3, <1>7, <1>8 DEF RowsTyped
<1>10. CodesName'
    BY <1>1 DEF Kept, CodesName
<1>11. Linked' /\ EarlierEnquiriesAreFound'
    BY <1>2, <1>3, <1>5 DEF Linked, EarlierEnquiriesAreFound
<1>12. ProvenMeansProved'
    BY <1>2, <1>3 DEF ProvenMeansProved
<1>13. support' \in SupportSession
    BY <1>1, <1>2 DEF SupportSession
<1>. QED BY <1>2, <1>8, <1>9, <1>10, <1>11, <1>12, <1>13 DEF Kept

\* What is changed by a request that was let in, the log tells of.
LEMMA TracedDesk ==
    ASSUME IInv, NEW id \in DOMAIN calls, calls[id].stage \in {"let in", "entered"},
           Traced(id) \/ changes' = changes, UNCHANGED <<perms, support, log>>
    PROVE  DeskTyped' /\ StaffLeaveATrace' /\ log \subseteq log'
<1>1. DeskTyped /\ StaffLeaveATrace /\ calls[id] \in Request
    BY TypeParts DEF IInv, CallsTyped
<1>2. calls[id].who = "staff" => calls[id].nr \in log
    BY DEF IInv, CallsFit, Fits
<1>3. calls[id].nr \in Nat
    BY <1>1 DEF Request
<1>4. changes' \subseteq Nat /\ changes' \subseteq log'
    BY <1>1, <1>2, <1>3 DEF Traced, DeskTyped, StaffLeaveATrace
<1>. QED BY <1>1, <1>4 DEF DeskTyped, StaffLeaveATrace

\* One request goes a stage further, on what is so now.
LEMMA GoesFurther ==
    ASSUME IInv, NEW id \in DOMAIN calls, NEW d \in Request, Fits(d, made', proved', log'),
           calls' = [calls EXCEPT ![id] = d], made' \in Nat, made <= made',
           proved \subseteq proved', log \subseteq log'
    PROVE  CallsTyped' /\ CallsFit'
<1>1. DOMAIN calls' = DOMAIN calls /\ \A n \in DOMAIN calls : calls'[n] = IF n = id THEN d ELSE calls[n]
    OBVIOUS
<1>2. CallsTyped /\ CallsFit /\ made \in Nat
    BY TypeParts DEF IInv, RowsTyped
<1>3. CallsTyped'
    BY <1>1, <1>2 DEF CallsTyped
<1>4. ASSUME NEW n \in DOMAIN calls PROVE Fits(calls'[n], made', proved', log')
    <2>1. calls[n] \in Request /\ Fits(calls[n], made, proved, log)
        BY <1>2 DEF CallsTyped, CallsFit
    <2>2. Fits(calls[n], made', proved', log')
        BY <1>2, <2>1, FieldsFollow, FollowerFits
    <2>. QED BY <1>1, <2>2
<1>. QED BY <1>1, <1>3, <1>4 DEF CallsFit

LEMMA TogetherFurther ==
    ASSUME IInv, CallsTyped', CallsFit', RowsTyped', Kept', DeskTyped', StaffLeaveATrace',
           shop' = shop, session' \in Session, page' \in Page, presses' \in 0..MaxPresses
    PROVE  IInv'
<1>1. shop' \in BOOLEAN
    BY DEF IInv, TypeOK
<1>2. TypeOK'
    BY <1>1 DEF TypeOK, RowsTyped, DeskTyped, CallsTyped
<1>. QED BY <1>2 DEF IInv

-----------------------------------------------------------------------------
(* The server's steps *)

LEMMA Asked ==
    ASSUME IInv, NEW id \in DOMAIN calls
    PROVE  /\ calls[id] \in Request /\ Fits(calls[id], made, proved, log)
           /\ calls[id].email \in Typed /\ calls[id].row \in Account /\ calls[id].held \in BOOLEAN
BY DEF IInv, TypeOK, CallsFit, Request

LEMMA SessionsTyped ==
    ASSUME IInv
    PROVE  /\ session \in Session /\ LoggedOut \in Session
           /\ [session EXCEPT !.signedIn = TRUE] \in Session
           /\ [session EXCEPT !.token = TRUE] \in Session
           /\ [session EXCEPT !.token = FALSE] \in Session
           /\ [session EXCEPT !.trusted = TRUE] \in Session
           /\ [session EXCEPT !.signedIn = TRUE, !.trusted = TRUE] \in Session
           /\ \A b \in BOOLEAN : [LoggedOut EXCEPT !.token = b] \in Session
           /\ \A b, c \in BOOLEAN : [session EXCEPT !.signedIn = b, !.token = c] \in Session
           /\ session.token \in BOOLEAN /\ session.signedIn \in BOOLEAN
<1>1. session \in Session
    BY DEF IInv, TypeOK
<1>. QED BY <1>1 DEF Session, LoggedOut

LEMMA PageTyped ==
    ASSUME IInv
    PROVE  page \in Page /\ presses \in 0..MaxPresses
BY DEF IInv, TypeOK

\* A code is sent: one that goes to an address goes to one that was asked about.
LEMMA SendsCodeStep ==
    ASSUME IInv, NEW id, NEW op, NEW code, SendsCode(id, op, code),
           code \in Code, \A e \in Typed : code \in {<<"enter", e>>, <<"add", e>>} => e \in Emails
    PROVE  IInv'
<1>1. id \in DOMAIN calls /\ Reply(id, TRUE) /\ codes' = codes \cup {code}
      /\ UNCHANGED <<acct, made, other, enq, due, proved, saved>> /\ UNCHANGED desk
      /\ shop' = shop /\ session' = session /\ page' = page /\ presses' = presses
    BY DEF SendsCode, At
<1>2. CallsFollow
    BY <1>1, ReplyFollows DEF IInv
<1>3. codes' \subseteq Code /\ CodesName'
    BY <1>1 DEF IInv, TypeOK, Kept, CodesName
<1>4. RowsTyped' /\ Kept' /\ made <= made' /\ proved \subseteq proved'
    BY <1>1, <1>3, CodesOnly
<1>5. DeskTyped' /\ StaffLeaveATrace' /\ log \subseteq log'
    BY <1>1, DeskSame
<1>6. session' \in Session /\ page' \in Page /\ presses' \in 0..MaxPresses
    BY <1>1, SessionsTyped, PageTyped
<1>. QED BY <1>1, <1>2, <1>4, <1>5, <1>6, Together

LEMMA CodeRequestStep ==
    ASSUME IInv, NEW id, CodeRequest(id) \/ AccountCodeRequest(id)
    PROVE  IInv'
<1>1. PhoneCode \in Code /\ AccountCode \in Code
    BY DEF PhoneCode, AccountCode, Code, Typed
<1>2. \A e \in Typed : PhoneCode \notin {<<"enter", e>>, <<"add", e>>} /\ AccountCode \notin {<<"enter", e>>, <<"add", e>>}
    BY DEF PhoneCode, AccountCode
<1>. QED BY <1>1, <1>2, SendsCodeStep DEF CodeRequest, AccountCodeRequest

LEMMA EmailCodeRequestStep ==
    ASSUME IInv, NEW id, EmailCodeRequest(id)
    PROVE  IInv'
<1>. DEFINE email == calls[id].email
<1>1. id \in DOMAIN calls /\ calls[id].op = "email code"
    BY DEF EmailCodeRequest, At
<1>2. email \in Emails
    BY <1>1, Asked DEF Fits
<1>3. <<"enter", email>> \in Code
    BY <1>2 DEF Code, Typed
<1>4. \A e \in Typed : <<"enter", email>> \in {<<"enter", e>>, <<"add", e>>} => e \in Emails
    BY <1>2
<1>. QED BY <1>3, <1>4, SendsCodeStep DEF EmailCodeRequest

\* A step that answers and touches no rows.
LEMMA AnswerOnly ==
    ASSUME IInv, CallsFollow, UNCHANGED <<rows, shop, desk, page, presses>>, session' \in Session
    PROVE  IInv'
<1>1. UNCHANGED rows /\ shop' = shop /\ UNCHANGED desk /\ page' = page /\ presses' = presses
    OBVIOUS
<1>. QED BY <1>1, RowsSame, DeskSame, PageTyped, Together

\* A step that proves the number.
LEMMA NumberStep ==
    ASSUME IInv, CallsFollow, NEW row \in Account, row.no = Found.no, row.proven => row.email \in proved,
           AccountForVerifiedPhone(row), codes' \subseteq codes,
           UNCHANGED <<shop, desk, page, presses>>, session' \in Session
    PROVE  IInv'
<1>1. shop' = shop /\ UNCHANGED desk /\ page' = page /\ presses' = presses
    OBVIOUS
<1>2. RowsTyped' /\ Kept' /\ made <= made' /\ proved \subseteq proved'
    BY ProvedNumber
<1>. QED BY <1>1, <1>2, DeskSame, PageTyped, Together

\* A step that spends a code and touches no other row.
LEMMA SpendStep ==
    ASSUME IInv, CallsFollow, codes' \subseteq codes, UNCHANGED <<acct, made, other, enq, due, proved, saved>>,
           UNCHANGED <<shop, desk, page, presses>>, session' \in Session
    PROVE  IInv'
<1>1. shop' = shop /\ UNCHANGED desk /\ page' = page /\ presses' = presses
    OBVIOUS
<1>2. codes' \subseteq Code /\ CodesName'
    BY DEF IInv, TypeOK, Kept, CodesName
<1>3. RowsTyped' /\ Kept' /\ made <= made' /\ proved \subseteq proved'
    BY <1>2, CodesOnly
<1>. QED BY <1>1, <1>3, DeskSame, PageTyped, Together

LEMMA CodeVerifyStep ==
    ASSUME IInv, NEW id, CodeVerify(id)
    PROVE  IInv'
<1>. DEFINE email == calls[id].email
            row == ClaimEmail(Found, email)
<1>1. id \in DOMAIN calls /\ UNCHANGED <<shop, desk, page, presses>> /\ TypeOK
    BY DEF CodeVerify, At, IInv
<1>2. Held(Found, email) \in BOOLEAN
    BY DEF Held
<1>3. CASE PhoneCode \notin codes
    <2>1. Reply(id, FALSE) /\ UNCHANGED <<rows, session>>
        BY <1>3 DEF CodeVerify
    <2>2. CallsFollow
        BY <1>1, <2>1, ReplyFollows
    <2>. QED BY <1>1, <2>1, <2>2, SessionsTyped, AnswerOnly
<1>4. CASE PhoneCode \in codes /\ Disabled
    <2>1. Reply(id, FALSE) /\ codes' = codes \ {PhoneCode} /\ session' = session
          /\ UNCHANGED <<acct, made, other, enq, due, proved, saved>>
        BY <1>4 DEF CodeVerify
    <2>2. CallsFollow
        BY <1>1, <2>1, ReplyFollows
    <2>. QED BY <1>1, <2>1, <2>2, SessionsTyped, SpendStep
<1>5. CASE PhoneCode \in codes /\ ~Disabled
    <2>1. /\ codes' = codes \ {PhoneCode} /\ AccountForVerifiedPhone(row)
          /\ session' = [session EXCEPT !.signedIn = TRUE]
          /\ \/ Answer(id, TRUE, Held(Found, email))
             \/ calls' = [calls EXCEPT ![id].op = "photo", ![id].held = Held(Found, email)]
        BY <1>5 DEF CodeVerify
    <2>2. row \in Account /\ row.no = Found.no /\ (row.proven => row.email \in proved)
        BY <1>1, Asked, FoundTyped, ClaimTyped
    <2>3. CASE Answer(id, TRUE, Held(Found, email))
        BY <1>1, <1>2, <2>1, <2>2, <2>3, AnswerFollows, SessionsTyped, NumberStep
    <2>4. CASE calls' = [calls EXCEPT ![id].op = "photo", ![id].held = Held(Found, email)]
        <3>. DEFINE d == [calls[id] EXCEPT !.op = "photo", !.held = Held(Found, email)]
        <3>1. Follows(calls[id], d)
            BY <1>1, <1>2, Asked, FieldsFollow
        <3>2. calls' = [calls EXCEPT ![id] = d]
            BY <2>4
        <3>. HIDE DEF d
        <3>3. CallsFollow
            BY <1>1, <3>1, <3>2, OneFollows
        <3>. QED BY <1>1, <2>1, <2>2, <3>3, SessionsTyped, NumberStep
    <2>. QED BY <2>1, <2>3, <2>4
<1>. QED BY <1>3, <1>4, <1>5

\* An address that is entered is an address, and links what the number's account has.
LEMMA EmailVerifyStep ==
    ASSUME IInv, NEW id, EmailVerify(id)
    PROVE  IInv'
<1>. DEFINE email == calls[id].email
            row == [acct EXCEPT !.proven = TRUE]
<1>1. /\ id \in DOMAIN calls /\ UNCHANGED <<made, other, saved, shop, desk, page, presses>> /\ TypeOK
      /\ email \in Typed /\ RowsTyped /\ Kept /\ made \in Nat
    BY TypeParts, Asked DEF EmailVerify, At, IInv, RowsTyped
<1>2. shop' = shop /\ UNCHANGED desk /\ page' = page /\ presses' = presses
    BY <1>1
<1>3. CASE <<"enter", email>> \notin codes
    <2>1. Reply(id, FALSE) /\ UNCHANGED <<acct, enq, due, proved, codes, session>>
        BY <1>3 DEF EmailVerify
    <2>2. CallsFollow
        BY <1>1, <2>1, ReplyFollows
    <2>3. UNCHANGED rows
        BY <1>1, <2>1 DEF rows
    <2>. QED BY <1>1, <2>1, <2>2, <2>3, SessionsTyped, AnswerOnly
<1>4. CASE <<"enter", email>> \in codes
    <2>1. /\ codes' = codes \ {<<"enter", email>>} /\ proved' = proved \cup {email}
          /\ IF acct.no # 0 /\ acct.email = email /\ acct.active
             THEN /\ acct' = row /\ enq' = LinkHistory(acct.no) /\ due' = DOMAIN enq
                  /\ session' = [session EXCEPT !.signedIn = TRUE] /\ Reply(id, TRUE)
             ELSE /\ session' = (IF email = other THEN LoggedOut ELSE session)
                  /\ Reply(id, FALSE) /\ UNCHANGED <<acct, enq, due>>
        BY <1>4 DEF EmailVerify
    <2>2. email \in Emails
        BY <1>1, <1>4 DEF Kept, CodesName
    <2>3. proved \subseteq proved' /\ proved' \subseteq Emails /\ codes' \subseteq codes
        BY <1>1, <2>1, <2>2 DEF RowsTyped
    <2>4. CallsFollow
        BY <1>1, <2>1, ReplyFollows
    <2>5. session' \in Session
        BY <2>1, SessionsTyped
    <2>6. made' = made /\ made <= made' /\ other' = other /\ saved' = saved
        BY <1>1
    <2>7. CASE acct.no # 0 /\ acct.email = email /\ acct.active
        <3>1. /\ acct' = row /\ enq' = LinkHistory(acct.no) /\ due' = DOMAIN enq
            BY <2>1, <2>7
        <3>2. row \in Account /\ row.no = acct.no /\ row.email = email /\ acct.no \in Nat
            BY <1>1, <2>7 DEF RowsTyped, Account
        <3>3. \A n \in DOMAIN enq : enq[n].of \in {0, acct.no}
            BY <1>1 DEF Kept, Linked
        <3>4. /\ enq' \in Seq(Enquiry) /\ DOMAIN enq' = DOMAIN enq
              /\ \A n \in DOMAIN enq' : enq'[n].of = acct.no
            BY <1>1, <3>1, <3>2, <3>3, LinkHistoryLinks
        <3>5. RowsTyped'
            BY <1>1, <2>3, <2>6, <3>1, <3>2, <3>4 DEF RowsTyped
        <3>6. CodesName'
            BY <1>1, <2>3 DEF Kept, CodesName
        <3>7. Linked' /\ EarlierEnquiriesAreFound'
            BY <2>7, <3>1, <3>2, <3>4 DEF Linked, EarlierEnquiriesAreFound
        <3>8. ProvenMeansProved'
            BY <2>1, <3>1, <3>2 DEF ProvenMeansProved
        <3>9. Kept'
            BY <3>6, <3>7, <3>8 DEF Kept
        <3>. QED BY <1>2, <2>3, <2>4, <2>5, <2>6, <3>5, <3>9, DeskSame, PageTyped, Together
    <2>8. CASE ~(acct.no # 0 /\ acct.email = email /\ acct.active)
        <3>1. acct' = acct /\ UNCHANGED <<made, other, enq, due>> /\ saved' \in BOOLEAN
            BY <1>1, <2>1, <2>8 DEF RowsTyped
        <3>2. acct \in Account /\ acct.no <= made /\ acct.no \in {0, acct.no} /\ (acct.proven => acct.email \in proved')
            BY <1>1, <2>3 DEF RowsTyped, Kept, ProvenMeansProved
        <3>3. RowsTyped' /\ Kept'
            BY <2>3, <3>1, <3>2, AccountWritten
        <3>. QED BY <1>2, <2>3, <2>4, <2>5, <2>6, <3>3, DeskSame, PageTyped, Together
    <2>. QED BY <2>7, <2>8
<1>. QED BY <1>3, <1>4

LEMMA AccountVerifyStep ==
    ASSUME IInv, NEW id, AccountVerify(id)
    PROVE  IInv'
<1>1. /\ id \in DOMAIN calls /\ TypeOK
      /\ UNCHANGED <<acct, made, other, enq, due, proved, saved>> /\ UNCHANGED <<shop, desk, page, presses>>
    BY DEF AccountVerify, At, IInv
<1>2. \E ok \in BOOLEAN : Reply(id, ok)
    BY DEF AccountVerify
<1>3. CallsFollow
    BY <1>1, <1>2, ReplyFollows
<1>4. codes' \subseteq codes
    BY DEF AccountVerify
<1>5. session' \in Session
    BY SessionsTyped DEF AccountVerify
<1>. QED BY <1>1, <1>3, <1>4, <1>5, SpendStep

LEMMA AppSignOutStep ==
    ASSUME IInv, NEW id, AppSignOut(id)
    PROVE  IInv'
<1>1. /\ id \in DOMAIN calls /\ TypeOK /\ Reply(id, TRUE) /\ session' = [session EXCEPT !.token = FALSE]
      /\ UNCHANGED <<rows, shop, desk, page, presses>>
    BY DEF AppSignOut, At, IInv
<1>2. CallsFollow
    BY <1>1, ReplyFollows
<1>. QED BY <1>1, <1>2, SessionsTyped, AnswerOnly

LEMMA AddRoleStep ==
    ASSUME IInv, NEW id, AddRole(id)
    PROVE  IInv'
<1>1. /\ id \in DOMAIN calls /\ TypeOK /\ session' \in Session /\ session' = session
      /\ UNCHANGED <<shop, desk, page, presses>>
    BY SessionsTyped DEF AddRole, At, IInv
<1>2. \E ok \in BOOLEAN : Reply(id, ok)
    BY DEF AddRole
<1>3. CallsFollow
    BY <1>1, <1>2, ReplyFollows
<1>4. CASE Known(id) /\ ~Disabled
    <2>1. AccountForVerifiedPhone(Found) /\ codes' \subseteq codes
        BY <1>4 DEF AddRole
    <2>. QED BY <1>1, <1>3, <2>1, FoundTyped, NumberStep
<1>5. CASE ~(Known(id) /\ ~Disabled)
    <2>1. UNCHANGED rows
        BY <1>5 DEF AddRole
    <2>. QED BY <1>1, <1>3, <2>1, AnswerOnly
<1>. QED BY <1>4, <1>5

\* A request that is let in with the account's row as it is, the log telling of it.
LEMMA LetInFits ==
    ASSUME IInv, NEW id \in DOMAIN calls, NEW told, log \subseteq told,
           calls[id].who = "trainee" \/ calls[id].nr \in told
    PROVE  LET d == [calls[id] EXCEPT !.stage = "let in", !.row = acct]
           IN d \in Request /\ Fits(d, made, proved, told)
<1>. DEFINE d == [calls[id] EXCEPT !.stage = "let in", !.row = acct]
<1>1. calls[id] \in Request /\ Fits(calls[id], made, proved, log)
    BY Asked
<1>2. acct \in Account /\ acct.no <= made /\ (acct.proven => acct.email \in proved)
    BY DEF IInv, TypeOK, Kept, ProvenMeansProved
<1>3. d \in Request
    BY <1>1, <1>2 DEF Request
<1>4. /\ d.row = acct /\ d.stage = "let in" /\ d.op = calls[id].op /\ d.email = calls[id].email
      /\ d.who = calls[id].who /\ d.nr = calls[id].nr
    BY <1>1 DEF Request
<1>. HIDE DEF d
<1>5. /\ d.row.no <= made
      /\ d.op \in {"email code", "add"} => d.email \in Emails
      /\ d.row.proven => d.row.email \in proved
    BY <1>1, <1>2, <1>4 DEF Fits
<1>6. d.op = "confirm" /\ d.stage = "entered" => d.email \in proved
    BY <1>4
<1>7. d.who = "staff" /\ d.stage \in {"let in", "entered"} => d.nr \in told
    BY <1>4
<1>8. Fits(d, made, proved, told)
    BY <1>5, <1>6, <1>7 DEF Fits
<1>. QED BY <1>3, <1>8 DEF d

LEMMA AdmitStep ==
    ASSUME IInv, NEW id, Admit(id)
    PROVE  IInv'
<1>. DEFINE d == [calls[id] EXCEPT !.stage = "let in", !.row = acct]
<1>1. /\ id \in DOMAIN calls /\ TypeOK /\ UNCHANGED <<rows, shop, session, page, presses>>
      /\ calls[id].op \in {"settings", "photo", "no photo", "save", "unsave", "close", "add", "confirm"}
    BY DEF Admit, IInv
<1>2. UNCHANGED rows /\ shop' = shop /\ session' = session /\ page' = page /\ presses' = presses
    BY <1>1
<1>3. RowsTyped' /\ Kept' /\ made' \in Nat /\ made <= made' /\ proved \subseteq proved'
      /\ made' = made /\ proved' = proved
    BY <1>2, RowsSame DEF rows
<1>4. session' \in Session /\ page' \in Page /\ presses' \in 0..MaxPresses
    BY <1>2, SessionsTyped, PageTyped
<1>5. CASE calls[id].who = "trainee"
    <2>1. UNCHANGED desk /\ log' = log
        BY <1>5 DEF Admit, desk
    <2>2. DeskTyped' /\ StaffLeaveATrace' /\ log \subseteq log'
        BY <2>1, DeskSame
    <2>3. CASE OwnAccount
        <3>1. calls' = [calls EXCEPT ![id].stage = "let in", ![id].row = acct]
            BY <1>5, <2>3 DEF Admit
        <3>2. calls' = [calls EXCEPT ![id] = d]
            BY <3>1
        <3>3. d \in Request /\ Fits(d, made, proved, log)
            BY <1>1, <1>5, LetInFits
        <3>. HIDE DEF d
        <3>4. CallsTyped' /\ CallsFit'
            BY <1>1, <1>3, <2>1, <3>2, <3>3, GoesFurther
        <3>. QED BY <1>2, <1>3, <1>4, <2>2, <3>4, TogetherFurther
    <2>4. CASE ~OwnAccount
        <3>1. Reply(id, FALSE)
            BY <1>5, <2>4 DEF Admit
        <3>2. CallsFollow
            BY <1>1, <3>1, ReplyFollows
        <3>. QED BY <1>2, <1>3, <1>4, <2>2, <3>2, Together
    <2>. QED BY <2>3, <2>4
<1>6. CASE calls[id].who # "trainee"
    <2>1. PICK expired \in BOOLEAN :
            /\ support' = Checked(expired)
            /\ log' = IF ForSupport(Checked(expired)) /\ Told(id) THEN log \cup {calls[id].nr} ELSE log
            /\ IF ForSupport(Checked(expired)) /\ Checked(expired).edit /\ calls[id].op # "close"
               THEN calls' = [calls EXCEPT ![id].stage = "let in", ![id].row = acct]
               ELSE Reply(id, FALSE)
            /\ UNCHANGED <<perms, changes>>
        BY <1>6 DEF Admit
    <2>2. DeskTyped /\ StaffLeaveATrace /\ calls[id].nr \in Nat
        BY TypeParts, Asked, <1>1 DEF IInv, Request
    <2>3. support' \in SupportSession
        BY <2>1, CheckedTyped
    <2>4. log \subseteq log' /\ log' \subseteq Nat
        BY <2>1, <2>2 DEF DeskTyped
    <2>5. DeskTyped' /\ StaffLeaveATrace'
        BY <2>1, <2>2, <2>3, <2>4 DEF DeskTyped, StaffLeaveATrace
    <2>6. CASE ForSupport(Checked(expired)) /\ Checked(expired).edit /\ calls[id].op # "close"
        <3>1. calls[id].nr \in log'
            BY <1>1, <2>1, <2>6 DEF Told
        <3>2. calls' = [calls EXCEPT ![id] = d]
            BY <2>1, <2>6
        <3>3. d \in Request /\ Fits(d, made, proved, log')
            BY <1>1, <2>4, <3>1, LetInFits
        <3>. HIDE DEF d
        <3>4. CallsTyped' /\ CallsFit'
            BY <1>1, <1>3, <2>4, <3>2, <3>3, GoesFurther
        <3>. QED BY <1>2, <1>3, <1>4, <2>5, <3>4, TogetherFurther
    <2>7. CASE ~(ForSupport(Checked(expired)) /\ Checked(expired).edit /\ calls[id].op # "close")
        <3>1. Reply(id, FALSE)
            BY <2>1, <2>7
        <3>2. CallsFollow
            BY <1>1, <3>1, ReplyFollows
        <3>. QED BY <1>2, <1>3, <1>4, <2>4, <2>5, <3>2, Together
    <2>. QED BY <2>6, <2>7
<1>. QED BY <1>5, <1>6

\* A step that writes the account's row, or keeps it, for a request that was let in.
LEMMA WriteStep ==
    ASSUME IInv, NEW id \in DOMAIN calls, calls[id].stage \in {"let in", "entered"}, CallsFollow,
           Traced(id) \/ changes' = changes,
           NEW row \in Account, row.no <= made, acct.no \in {0, row.no},
           row.proven => row.email \in proved, acct' = row, saved' \in BOOLEAN,
           UNCHANGED <<made, other, enq, due, proved, codes, shop, perms, support, log, session, page, presses>>
    PROVE  IInv'
<1>1. /\ UNCHANGED <<made, other, enq, due>> /\ UNCHANGED <<perms, support, log>> /\ shop' = shop
      /\ session' = session /\ page' = page /\ presses' = presses /\ proved' = proved /\ codes' = codes
    OBVIOUS
<1>2. proved' \subseteq Emails /\ proved \subseteq proved' /\ codes' \subseteq codes
    BY <1>1 DEF IInv, TypeOK
<1>3. row.proven => row.email \in proved'
    BY <1>1
<1>4. RowsTyped' /\ Kept' /\ made <= made'
    BY <1>1, <1>2, <1>3, AccountWritten
<1>5. DeskTyped' /\ StaffLeaveATrace' /\ log \subseteq log'
    BY <1>1, TracedDesk
<1>6. session' \in Session /\ page' \in Page /\ presses' \in 0..MaxPresses
    BY <1>1, SessionsTyped, PageTyped
<1>. QED BY <1>1, <1>2, <1>4, <1>5, <1>6, Together

\* The row there is, and the row a request was let in with, may be written.
LEMMA RowsToWrite ==
    ASSUME IInv, NEW id \in DOMAIN calls
    PROVE  /\ acct \in Account /\ acct.no \in Nat /\ acct.no <= made /\ acct.no \in {0, acct.no} /\ saved \in BOOLEAN
           /\ acct.proven => acct.email \in proved
           /\ calls[id].row \in Account /\ calls[id].row.no <= made
           /\ calls[id].row.proven => calls[id].row.email \in proved
           /\ \A r \in Account, b \in BOOLEAN :
                 /\ [r EXCEPT !.background = b] \in Account /\ [r EXCEPT !.photo = b] \in Account
                 /\ [r EXCEPT !.background = b].no = r.no /\ [r EXCEPT !.photo = b].no = r.no
                 /\ [r EXCEPT !.background = b].proven = r.proven /\ [r EXCEPT !.photo = b].proven = r.proven
                 /\ [r EXCEPT !.background = b].email = r.email /\ [r EXCEPT !.photo = b].email = r.email
<1>1. acct \in Account /\ acct.no <= made /\ saved \in BOOLEAN /\ (acct.proven => acct.email \in proved)
    BY DEF IInv, TypeOK, Kept, ProvenMeansProved
<1>2. acct.no \in Nat
    BY <1>1 DEF Account
<1>3. calls[id].row \in Account /\ calls[id].row.no <= made
      /\ (calls[id].row.proven => calls[id].row.email \in proved)
    BY Asked DEF Fits
<1>4. ASSUME NEW r \in Account, NEW b \in BOOLEAN
      PROVE  /\ [r EXCEPT !.background = b] \in Account /\ [r EXCEPT !.photo = b] \in Account
             /\ [r EXCEPT !.background = b].no = r.no /\ [r EXCEPT !.photo = b].no = r.no
             /\ [r EXCEPT !.background = b].proven = r.proven /\ [r EXCEPT !.photo = b].proven = r.proven
             /\ [r EXCEPT !.background = b].email = r.email /\ [r EXCEPT !.photo = b].email = r.email
    BY DEF Account
<1>. QED BY <1>1, <1>2, <1>3, <1>4

\* Rows that differ in what nothing here is about.
LEMMA Rewritten ==
    ASSUME IInv, NEW row \in Account, NEW new \in Account,
           new.no = row.no, new.proven = row.proven, new.email = row.email,
           row.no <= made, row.proven => row.email \in proved
    PROVE  new.no <= made /\ (new.proven => new.email \in proved)
OBVIOUS

LEMMA SaveSettingsStep ==
    ASSUME IInv, NEW id, SaveSettings(id)
    PROVE  IInv'
<1>. DEFINE row == calls[id].row
            new == [row EXCEPT !.background = TRUE]
<1>1. /\ id \in DOMAIN calls /\ TypeOK /\ calls[id].stage \in {"let in", "entered"}
      /\ UNCHANGED <<made, other, enq, due, proved, codes, saved, shop, perms, support, log, session, page, presses>>
    BY DEF SaveSettings, At, IInv
<1>2. saved' \in BOOLEAN
    BY <1>1, RowsToWrite
<1>3. \E ok \in BOOLEAN : Reply(id, ok)
    BY DEF SaveSettings
<1>4. CallsFollow
    BY <1>1, <1>3, ReplyFollows
<1>5. CASE StillThere(id) \/ (acct.no = 0 /\ shop)
    <2>1. acct' = new /\ Traced(id)
        BY <1>5 DEF SaveSettings
    <2>2. row \in Account /\ row.no <= made /\ (row.proven => row.email \in proved)
        BY <1>1, RowsToWrite
    <2>3. new \in Account /\ new.no = row.no /\ new.proven = row.proven /\ new.email = row.email
        BY <1>1, <2>2, RowsToWrite
    <2>4. acct.no \in {0, new.no}
        BY <1>5, <2>3 DEF StillThere
    <2>. HIDE DEF new, row
    <2>5. new.no <= made /\ (new.proven => new.email \in proved)
        BY <2>2, <2>3, Rewritten
    <2>. QED BY <1>1, <1>2, <1>4, <2>1, <2>3, <2>4, <2>5, WriteStep
<1>6. CASE ~(StillThere(id) \/ (acct.no = 0 /\ shop))
    <2>1. acct' = acct /\ changes' = changes
        BY <1>6 DEF SaveSettings
    <2>. QED BY <1>1, <1>2, <1>4, <2>1, RowsToWrite, WriteStep
<1>. QED BY <1>5, <1>6

LEMMA SavePhotoStep ==
    ASSUME IInv, NEW id, SavePhoto(id)
    PROVE  IInv'
<1>. DEFINE row == calls[id].row
            kept == [acct EXCEPT !.photo = calls[id].op = "photo"]
            back == [row EXCEPT !.photo = FALSE]
<1>1. /\ id \in DOMAIN calls /\ TypeOK /\ calls[id].stage \in {"let in", "entered"}
      /\ UNCHANGED <<made, other, enq, due, proved, codes, saved, shop, perms, support, log, session, page, presses>>
    BY DEF SavePhoto, At, IInv
<1>2. saved' \in BOOLEAN
    BY <1>1, RowsToWrite
<1>3. \E ok \in BOOLEAN : Reply(id, ok)
    BY DEF SavePhoto
<1>4. CallsFollow
    BY <1>1, <1>3, ReplyFollows
<1>5. CASE StillThere(id)
    <2>1. Traced(id) /\ (acct' = kept \/ acct' = back) /\ acct.no = row.no
        BY <1>5 DEF SavePhoto, StillThere
    <2>2. /\ acct \in Account /\ acct.no <= made /\ (acct.proven => acct.email \in proved)
          /\ row \in Account /\ row.no <= made /\ (row.proven => row.email \in proved)
        BY <1>1, RowsToWrite
    <2>3. (calls[id].op = "photo") \in BOOLEAN
        OBVIOUS
    <2>4. kept \in Account /\ kept.no = acct.no /\ kept.proven = acct.proven /\ kept.email = acct.email
        BY <1>1, <2>2, <2>3, RowsToWrite
    <2>5. back \in Account /\ back.no = row.no /\ back.proven = row.proven /\ back.email = row.email
        BY <1>1, <2>2, RowsToWrite
    <2>. HIDE DEF kept, back, row
    <2>6. kept.no <= made /\ (kept.proven => kept.email \in proved) /\ acct.no \in {0, kept.no}
        BY <2>2, <2>4, Rewritten
    <2>7. back.no <= made /\ (back.proven => back.email \in proved) /\ acct.no \in {0, back.no}
        BY <2>1, <2>2, <2>5, Rewritten
    <2>8. CASE acct' = kept
        BY <1>1, <1>2, <1>4, <2>1, <2>4, <2>6, <2>8, WriteStep
    <2>9. CASE acct' = back
        BY <1>1, <1>2, <1>4, <2>1, <2>5, <2>7, <2>9, WriteStep
    <2>. QED BY <2>1, <2>8, <2>9
<1>6. CASE ~StillThere(id)
    <2>1. acct' = acct /\ changes' = changes
        BY <1>6 DEF SavePhoto
    <2>. QED BY <1>1, <1>2, <1>4, <2>1, RowsToWrite, WriteStep
<1>. QED BY <1>5, <1>6

LEMMA SaveListStep ==
    ASSUME IInv, NEW id, SaveList(id)
    PROVE  IInv'
<1>1. /\ id \in DOMAIN calls /\ TypeOK /\ calls[id].stage \in {"let in", "entered"} /\ acct' = acct
      /\ UNCHANGED <<made, other, enq, due, proved, codes, shop, perms, support, log, session, page, presses>>
    BY DEF SaveList, At, IInv
<1>2. saved' \in BOOLEAN
    BY <1>1, RowsToWrite DEF SaveList
<1>3. \E ok \in BOOLEAN : Reply(id, ok)
    BY DEF SaveList
<1>4. CallsFollow
    BY <1>1, <1>3, ReplyFollows
<1>5. Traced(id) \/ changes' = changes
    BY DEF SaveList
<1>. QED BY <1>1, <1>2, <1>4, <1>5, RowsToWrite, WriteStep

\* A step that answers and sends or spends codes, for addresses that are ones.
LEMMA CodesStep ==
    ASSUME IInv, CallsFollow, codes' \subseteq Code, CodesName',
           UNCHANGED <<acct, made, other, enq, due, proved, saved>>,
           UNCHANGED <<shop, desk, page, presses>>, session' \in Session
    PROVE  IInv'
<1>1. shop' = shop /\ UNCHANGED desk /\ page' = page /\ presses' = presses
    OBVIOUS
<1>2. RowsTyped' /\ Kept' /\ made <= made' /\ proved \subseteq proved'
    BY CodesOnly
<1>. QED BY <1>1, <1>2, DeskSame, PageTyped, Together

LEMMA AddEmailRequestStep ==
    ASSUME IInv, NEW id, AddEmailRequest(id)
    PROVE  IInv'
<1>. DEFINE code == <<"add", calls[id].email>>
<1>1. /\ id \in DOMAIN calls /\ TypeOK /\ calls[id].op = "add"
      /\ UNCHANGED <<acct, made, other, enq, due, proved, saved>>
      /\ UNCHANGED <<shop, desk, page, presses>> /\ session' = session
    BY DEF AddEmailRequest, At, IInv
<1>2. \E ok \in BOOLEAN : Reply(id, ok)
    BY DEF AddEmailRequest
<1>3. CallsFollow
    BY <1>1, <1>2, ReplyFollows
<1>4. calls[id].email \in Emails /\ code \in Code
    BY <1>1, Asked DEF Fits, Code, Typed
<1>5. codes' = codes \cup {code} \/ codes' = codes
    BY DEF AddEmailRequest
<1>6. codes \subseteq Code /\ CodesName
    BY DEF IInv, TypeOK, Kept
<1>7. codes' \subseteq Code /\ CodesName'
    BY <1>4, <1>5, <1>6 DEF CodesName
<1>. QED BY <1>1, <1>3, <1>7, SessionsTyped, CodesStep

\* A request that is entered fits when its address is proved by then.
LEMMA EnteredFits ==
    ASSUME IInv, NEW id \in DOMAIN calls, calls[id].stage = "let in", calls[id].op = "confirm",
           NEW addresses, proved \subseteq addresses, calls[id].email \in addresses
    PROVE  LET d == [calls[id] EXCEPT !.stage = "entered"]
           IN d \in Request /\ Fits(d, made, addresses, log)
<1>. DEFINE d == [calls[id] EXCEPT !.stage = "entered"]
<1>1. calls[id] \in Request /\ Fits(calls[id], made, proved, log)
    BY Asked
<1>2. d \in Request
    BY <1>1 DEF Request
<1>3. /\ d.row = calls[id].row /\ d.stage = "entered" /\ d.op = "confirm" /\ d.email = calls[id].email
      /\ d.who = calls[id].who /\ d.nr = calls[id].nr
    BY <1>1 DEF Request
<1>. HIDE DEF d
<1>4. d.row.no <= made /\ (d.row.proven => d.row.email \in addresses)
    BY <1>1, <1>3 DEF Fits
<1>5. d.who = "staff" => d.nr \in log
    BY <1>1, <1>3 DEF Fits
<1>6. Fits(d, made, addresses, log)
    BY <1>3, <1>4, <1>5 DEF Fits
<1>. QED BY <1>2, <1>6 DEF d

LEMMA AddEmailVerifyStep ==
    ASSUME IInv, NEW id, AddEmailVerify(id)
    PROVE  IInv'
<1>. DEFINE email == calls[id].email
            d == [calls[id] EXCEPT !.stage = "entered"]
<1>1. /\ id \in DOMAIN calls /\ TypeOK /\ calls[id].op = "confirm" /\ calls[id].stage = "let in"
      /\ UNCHANGED <<acct, made, other, enq, due, saved>> /\ UNCHANGED <<shop, desk, page, presses>>
      /\ session' = session
    BY DEF AddEmailVerify, At, IInv
<1>2. CASE <<"add", email>> \in codes
    <2>1. /\ codes' = codes \ {<<"add", email>>} /\ proved' = proved \cup {email}
          /\ calls' = [calls EXCEPT ![id].stage = "entered"]
        BY <1>2 DEF AddEmailVerify
    <2>2. email \in Emails
        BY <1>1, <1>2, Asked DEF IInv, Kept, CodesName
    <2>3. proved \subseteq proved' /\ proved' \subseteq Emails /\ codes' \subseteq codes /\ email \in proved'
        BY <2>1, <2>2 DEF IInv, TypeOK
    <2>4. /\ acct \in Account /\ acct.no <= made /\ acct.no \in {0, acct.no}
          /\ (acct.proven => acct.email \in proved') /\ acct' = acct /\ saved' \in BOOLEAN
        BY <1>1, <2>3, RowsToWrite
    <2>5. RowsTyped' /\ Kept' /\ made' \in Nat /\ made <= made'
        BY <1>1, <2>3, <2>4, AccountWritten
    <2>6. d \in Request /\ Fits(d, made, proved', log)
        BY <1>1, <2>3, EnteredFits
    <2>7. calls' = [calls EXCEPT ![id] = d]
        BY <2>1
    <2>. HIDE DEF d
    <2>8. made' = made /\ log' = log /\ log \subseteq log' /\ UNCHANGED desk /\ shop' = shop
          /\ page' = page /\ presses' = presses
        BY <1>1 DEF desk
    <2>9. CallsTyped' /\ CallsFit'
        BY <1>1, <2>3, <2>5, <2>6, <2>7, <2>8, GoesFurther
    <2>. QED BY <1>1, <2>5, <2>8, <2>9, DeskSame, SessionsTyped, PageTyped, TogetherFurther
<1>3. CASE <<"add", email>> \notin codes
    <2>1. Reply(id, FALSE) /\ codes' = codes /\ proved' = proved
        BY <1>3 DEF AddEmailVerify
    <2>2. CallsFollow
        BY <1>1, <2>1, ReplyFollows
    <2>3. UNCHANGED <<acct, made, other, enq, due, proved, saved>> /\ codes' \subseteq codes
        BY <1>1, <2>1
    <2>. QED BY <1>1, <2>2, <2>3, SessionsTyped, SpendStep
<1>. QED BY <1>2, <1>3

LEMMA AddEmailConfirmStep ==
    ASSUME IInv, NEW id, AddEmailConfirm(id)
    PROVE  IInv'
<1>. DEFINE email == calls[id].email
            row == [acct EXCEPT !.email = email, !.proven = TRUE]
<1>1. /\ id \in DOMAIN calls /\ TypeOK /\ calls[id].op = "confirm" /\ calls[id].stage = "entered"
      /\ UNCHANGED <<made, other, enq, due, proved, codes, saved, shop, perms, support, log, session, page, presses>>
    BY DEF AddEmailConfirm, At, IInv
<1>2. saved' \in BOOLEAN
    BY <1>1, RowsToWrite
<1>3. \E ok \in BOOLEAN : Reply(id, ok)
    BY DEF AddEmailConfirm
<1>4. CallsFollow
    BY <1>1, <1>3, ReplyFollows
<1>5. CASE StillThere(id) /\ email # other
    <2>1. acct' = row /\ Traced(id)
        BY <1>5 DEF AddEmailConfirm
    <2>2. email \in proved /\ email \in Typed
        BY <1>1, Asked DEF Fits
    <2>3. acct \in Account /\ acct.no \in Nat /\ acct.no <= made
        BY <1>1, RowsToWrite
    <2>4. row \in Account /\ row.no = acct.no /\ row.email = email
        BY <2>2, <2>3 DEF Account
    <2>. HIDE DEF row
    <2>5. row.no <= made /\ acct.no \in {0, row.no} /\ (row.proven => row.email \in proved)
        BY <2>2, <2>3, <2>4
    <2>. QED BY <1>1, <1>2, <1>4, <2>1, <2>4, <2>5, WriteStep
<1>6. CASE ~(StillThere(id) /\ email # other)
    <2>1. acct' = acct /\ changes' = changes
        BY <1>6 DEF AddEmailConfirm
    <2>. QED BY <1>1, <1>2, <1>4, <2>1, RowsToWrite, WriteStep
<1>. QED BY <1>5, <1>6

LEMMA CloseAccountStep ==
    ASSUME IInv, NEW id, CloseAccount(id)
    PROVE  IInv'
<1>1. /\ id \in DOMAIN calls /\ TypeOK /\ UNCHANGED <<perms, log, changes>>
      /\ shop' = shop /\ page' = page /\ presses' = presses
      /\ session' = [LoggedOut EXCEPT !.token = session.token /\ (shop \/ ~StillThere(id))]
    BY DEF CloseAccount, At, IInv, LoggedOut
<1>2. shop \in BOOLEAN /\ (session.token /\ (shop \/ ~StillThere(id))) \in BOOLEAN
    BY <1>1 DEF TypeOK
<1>3. session' \in Session
    BY <1>1, <1>2, SessionsTyped
<1>4. (StillThere(id) \/ shop) \in BOOLEAN /\ Reply(id, StillThere(id) \/ shop)
    BY DEF CloseAccount
<1>5. CallsFollow
    BY <1>1, <1>4, ReplyFollows
<1>6. DeskTyped /\ StaffLeaveATrace
    BY TypeParts DEF IInv
<1>7. CASE StillThere(id)
    <2>1. Closed /\ codes' \subseteq codes
        BY <1>7 DEF CloseAccount
    <2>2. RowsTyped' /\ Kept' /\ made' \in Nat /\ made <= made' /\ proved \subseteq proved'
          /\ support' \in SupportSession
        BY <2>1, ClosedRows
    <2>3. DeskTyped' /\ StaffLeaveATrace' /\ log \subseteq log'
        BY <1>1, <1>6, <2>2 DEF DeskTyped, StaffLeaveATrace
    <2>. QED BY <1>1, <1>3, <1>5, <2>2, <2>3, PageTyped, Together
<1>8. CASE ~StillThere(id)
    <2>1. UNCHANGED rows /\ support' = support
        BY <1>8 DEF CloseAccount
    <2>2. UNCHANGED desk
        BY <1>1, <2>1 DEF desk
    <2>. QED BY <1>1, <1>3, <1>5, <2>1, <2>2, AnswerOnly
<1>. QED BY <1>7, <1>8

LEMMA LogoutStep ==
    ASSUME IInv, NEW id, Logout(id)
    PROVE  IInv'
<1>1. /\ id \in DOMAIN calls /\ TypeOK /\ UNCHANGED rows /\ shop' = shop /\ UNCHANGED <<perms, log, changes>>
      /\ page' = page /\ presses' = presses
    BY DEF Logout, At, IInv
<1>2. \E ok \in BOOLEAN : Reply(id, ok)
    BY DEF Logout
<1>3. CallsFollow
    BY <1>1, <1>2, ReplyFollows
<1>4. session' \in Session
    BY SessionsTyped DEF Logout
<1>5. DeskTyped /\ StaffLeaveATrace
    BY TypeParts DEF IInv
<1>6. Checked(FALSE) \in SupportSession /\ [Checked(FALSE) EXCEPT !.on = FALSE] \in SupportSession
    BY CheckedTyped DEF SupportSession
<1>7. support' \in SupportSession
    BY <1>5, <1>6 DEF Logout, DeskTyped
<1>8. DeskTyped' /\ StaffLeaveATrace' /\ log \subseteq log'
    BY <1>1, <1>5, <1>7 DEF DeskTyped, StaffLeaveATrace
<1>. QED BY <1>1, <1>3, <1>4, <1>8, RowsSame, PageTyped, Together

LEMMA OTPRequestStep ==
    ASSUME IInv, NEW id, OTPRequest(id)
    PROVE  IInv'
<1>1. /\ id \in DOMAIN calls /\ TypeOK /\ session' = session
      /\ UNCHANGED <<acct, made, other, enq, due, proved, saved>> /\ UNCHANGED <<shop, desk, page, presses>>
    BY DEF OTPRequest, At, IInv
<1>2. calls' = Onward(id) \/ Reply(id, TRUE)
    BY DEF OTPRequest
<1>3. CallsFollow
    BY <1>1, <1>2, OnwardFollows, ReplyFollows
<1>4. EnquiryCode \in Code /\ \A e \in Typed : EnquiryCode \notin {<<"enter", e>>, <<"add", e>>}
    BY DEF EnquiryCode, Code, Typed
<1>5. codes' = codes \/ codes' = codes \cup {EnquiryCode}
    BY DEF OTPRequest
<1>6. codes \subseteq Code /\ CodesName
    BY DEF IInv, TypeOK, Kept
<1>7. codes' \subseteq Code /\ CodesName'
    BY <1>4, <1>5, <1>6 DEF CodesName
<1>. QED BY <1>1, <1>3, <1>7, SessionsTyped, CodesStep

LEMMA OTPVerifyStep ==
    ASSUME IInv, NEW id, OTPVerify(id)
    PROVE  IInv'
<1>1. id \in DOMAIN calls /\ TypeOK /\ UNCHANGED <<shop, desk, page, presses>>
    BY DEF OTPVerify, At, IInv
<1>2. calls' = Onward(id) \/ Reply(id, FALSE)
    BY DEF OTPVerify
<1>3. CallsFollow
    BY <1>1, <1>2, OnwardFollows, ReplyFollows
<1>4. CASE EnquiryCode \in codes /\ Disabled
    <2>1. codes' \subseteq codes /\ session' = [session EXCEPT !.trusted = TRUE]
          /\ UNCHANGED <<acct, made, other, enq, due, proved, saved>>
        BY <1>4 DEF OTPVerify
    <2>. QED BY <1>1, <1>3, <2>1, SessionsTyped, SpendStep
<1>5. CASE EnquiryCode \in codes /\ ~Disabled
    <2>1. /\ codes' \subseteq codes /\ AccountForVerifiedPhone(Found)
          /\ session' = [session EXCEPT !.signedIn = TRUE, !.trusted = TRUE]
        BY <1>5 DEF OTPVerify
    <2>. QED BY <1>1, <1>3, <2>1, FoundTyped, SessionsTyped, NumberStep
<1>6. CASE EnquiryCode \notin codes
    <2>1. UNCHANGED rows /\ session' = session
        BY <1>6 DEF OTPVerify
    <2>. QED BY <1>1, <1>3, <2>1, SessionsTyped, AnswerOnly
<1>. QED BY <1>4, <1>5, <1>6

LEMMA FindTraineeStep ==
    ASSUME IInv, NEW id, FindTrainee(id)
    PROVE  IInv'
<1>. DEFINE found == IF acct.active THEN acct ELSE NoAccount
            d == [calls[id] EXCEPT !.stage = "found", !.row = found]
<1>1. /\ id \in DOMAIN calls /\ TypeOK /\ calls[id].op \in {"send", "app send"}
      /\ UNCHANGED <<rows, shop, desk, page, presses>> /\ session' = session
    BY DEF FindTrainee, At, IInv
<1>2. session' \in Session
    BY <1>1, SessionsTyped
<1>3. CASE calls' = [calls EXCEPT ![id].stage = "found", ![id].row = IF acct.active THEN acct ELSE NoAccount]
    <2>1. calls' = [calls EXCEPT ![id] = d]
        BY <1>3
    <2>2. NoAccount \in Account /\ NoAccount.no = 0 /\ NoAccount.proven = FALSE
        BY DEF NoAccount, Account, Typed
    <2>3. acct \in Account /\ acct.no <= made /\ (acct.proven => acct.email \in proved) /\ 0 <= made
        BY <1>1, RowsToWrite, SomeoneIsThere
    <2>4. found \in Account /\ found.no <= made /\ (found.proven => found.email \in proved)
        BY <2>2, <2>3
    <2>. HIDE DEF found
    <2>5. d \in Request
        BY <1>1, <2>4, Asked DEF Request
    <2>6. d.row = found /\ d.stage = "found" /\ d.op \in {"send", "app send"}
        BY <1>1, Asked DEF Request
    <2>. HIDE DEF d
    <2>7. Fits(d, made, proved, log)
        BY <2>4, <2>6 DEF Fits
    <2>8. UNCHANGED rows /\ shop' = shop /\ UNCHANGED desk /\ page' = page /\ presses' = presses
          /\ made' = made /\ proved' = proved /\ log' = log
        BY <1>1 DEF rows, desk
    <2>9. RowsTyped' /\ Kept' /\ made' \in Nat /\ made <= made' /\ proved \subseteq proved' /\ log \subseteq log'
          /\ DeskTyped' /\ StaffLeaveATrace'
        BY <2>8, RowsSame, DeskSame
    <2>10. CallsTyped' /\ CallsFit'
        BY <1>1, <2>1, <2>5, <2>7, <2>8, <2>9, GoesFurther
    <2>. QED BY <1>2, <2>8, <2>9, <2>10, PageTyped, TogetherFurther
<1>4. CASE Reply(id, FALSE)
    <2>1. CallsFollow
        BY <1>1, <1>4, ReplyFollows
    <2>. QED BY <1>1, <1>2, <2>1, AnswerOnly
<1>. QED BY <1>3, <1>4 DEF FindTrainee

\* An enquiry more, linked to the account there is or to none.
LEMMA EnquiryAdded ==
    ASSUME IInv, NEW of \in Nat, of \in {0, acct.no}, enq' = Append(enq, [of |-> of]),
           UNCHANGED <<acct, made, other, due, proved, codes, saved>>
    PROVE  RowsTyped' /\ Kept' /\ made <= made' /\ proved \subseteq proved'
<1>1. RowsTyped /\ Kept
    BY TypeParts DEF IInv
<1>2. enq \in Seq(Enquiry) /\ [of |-> of] \in Enquiry /\ DOMAIN enq = 1..Len(enq) /\ Len(enq) \in Nat
    BY <1>1 DEF RowsTyped, Enquiry
<1>3. /\ enq' \in Seq(Enquiry) /\ DOMAIN enq' = 1..(Len(enq) + 1)
      /\ \A n \in DOMAIN enq : enq'[n] = enq[n]
      /\ enq'[Len(enq) + 1] = [of |-> of]
    BY <1>2
<1>4. DOMAIN enq \subseteq DOMAIN enq' /\ \A n \in DOMAIN enq' : n \in DOMAIN enq \/ n = Len(enq) + 1
    BY <1>2, <1>3
<1>5. made' \in Nat /\ made <= made' /\ RowsTyped'
    BY <1>1, <1>3, <1>4 DEF RowsTyped
<1>6. CodesName' /\ ProvenMeansProved'
    BY <1>1 DEF Kept, CodesName, ProvenMeansProved
<1>7. \A n \in DOMAIN enq' : enq'[n].of \in {0, acct.no}
    BY <1>1, <1>3, <1>4 DEF Kept, Linked
<1>8. Linked'
    BY <1>1, <1>7 DEF Kept, Linked
<1>9. \A n \in due : n \in DOMAIN enq
    BY <1>1 DEF RowsTyped
<1>10. EarlierEnquiriesAreFound'
    BY <1>1, <1>3, <1>9 DEF Kept, EarlierEnquiriesAreFound
<1>. QED BY <1>5, <1>6, <1>8, <1>10 DEF Kept

LEMMA CreateEnquiryStep ==
    ASSUME IInv, NEW id, CreateEnquiry(id)
    PROVE  IInv'
<1>1. /\ id \in DOMAIN calls /\ TypeOK /\ shop' = shop /\ UNCHANGED desk /\ session' = session
      /\ page' = page /\ presses' = presses
      /\ UNCHANGED <<acct, made, other, due, proved, codes, saved>>
    BY DEF CreateEnquiry, At, IInv
<1>2. \E ok \in BOOLEAN : Reply(id, ok)
    BY DEF CreateEnquiry
<1>3. CallsFollow
    BY <1>1, <1>2, ReplyFollows
<1>4. calls[id].row.no \in Nat
    BY <1>1, Asked DEF Account
<1>5. CASE calls[id].row.no \in {0, acct.no}
    <2>1. enq' = Append(enq, [of |-> calls[id].row.no])
        BY <1>5 DEF CreateEnquiry
    <2>2. RowsTyped' /\ Kept' /\ made <= made' /\ proved \subseteq proved'
        BY <1>1, <1>4, <1>5, <2>1, EnquiryAdded
    <2>. QED BY <1>1, <1>3, <2>2, DeskSame, SessionsTyped, PageTyped, Together
<1>6. CASE calls[id].row.no \notin {0, acct.no}
    <2>1. UNCHANGED rows
        BY <1>1, <1>6 DEF CreateEnquiry, rows
    <2>. QED BY <1>1, <1>3, <2>1, SessionsTyped, AnswerOnly
<1>. QED BY <1>5, <1>6

-----------------------------------------------------------------------------
(* The others' steps *)

LEMMA UnshownNow ==
    ASSUME IInv, calls' = Unshown
    PROVE  CallsFollow
<1>1. \A n \in DOMAIN calls : Follows(calls[n], [calls[n] EXCEPT !.shown = FALSE])
    BY FieldsFollow DEF IInv, TypeOK
<1>. QED BY <1>1 DEF CallsFollow, Unshown

LEMMA StartSupportSessionStep ==
    ASSUME IInv, StartSupportSession
    PROVE  IInv'
<1>1. /\ UNCHANGED rows /\ shop' = shop /\ UNCHANGED <<perms, log, changes>> /\ session' = session
      /\ support' = [on |-> TRUE, of |-> acct.no, edit |-> perms = "edit"]
      /\ page' = Screen("staff", "dashboard") /\ Press /\ calls' = Unshown
    BY DEF StartSupportSession
<1>2. acct.no \in Nat
    BY DEF IInv, TypeOK, Account
<1>3. support' \in SupportSession
    BY <1>1, <1>2 DEF SupportSession
<1>4. DeskTyped' /\ StaffLeaveATrace' /\ log \subseteq log'
    BY <1>1, <1>3, TypeParts DEF IInv, DeskTyped, StaffLeaveATrace
<1>5. page' \in Page
    BY <1>1, ScreenTyped DEF Whos, Places
<1>. QED BY <1>1, <1>4, <1>5, RowsSame, UnshownNow, SameTyped, Together

LEMMA StaffStep ==
    ASSUME IInv, StaffSignOut \/ Revoke
    PROVE  IInv'
<1>1. /\ UNCHANGED rows /\ shop' = shop /\ log' = log /\ changes' = changes /\ session' = session
      /\ page' = page /\ UNCHANGED calls /\ Press
    BY DEF StaffSignOut, Revoke
<1>2. DeskTyped /\ StaffLeaveATrace /\ TypeOK
    BY TypeParts DEF IInv
<1>3. support' \in SupportSession
    BY <1>2 DEF StaffSignOut, Revoke, DeskTyped, SupportSession
<1>4. perms' \in {"none", "view", "edit"}
    BY <1>2 DEF StaffSignOut, Revoke, DeskTyped
<1>5. DeskTyped' /\ StaffLeaveATrace' /\ log \subseteq log'
    BY <1>1, <1>2, <1>3, <1>4 DEF DeskTyped, StaffLeaveATrace
<1>. QED BY <1>1, <1>2, <1>5, RowsSame, SameFollows, SameTyped, Together

LEMMA SwitchOffStep ==
    ASSUME IInv, SwitchOff
    PROVE  IInv'
<1>. DEFINE row == [acct EXCEPT !.active = FALSE]
<1>1. /\ acct' = row /\ UNCHANGED <<made, other, enq, due>> /\ proved' = proved /\ codes' = codes
      /\ saved' = saved /\ shop' = shop /\ UNCHANGED desk /\ session' = session /\ page' = page
      /\ UNCHANGED calls /\ Press
    BY DEF SwitchOff
<1>2. TypeOK /\ acct \in Account /\ acct.no <= made /\ (acct.proven => acct.email \in proved)
      /\ saved' \in BOOLEAN /\ proved' \subseteq Emails /\ acct.no \in Nat
    BY <1>1 DEF IInv, TypeOK, Account, Kept, ProvenMeansProved
<1>3. row \in Account /\ row.no = acct.no /\ row.proven = acct.proven /\ row.email = acct.email
    BY <1>2 DEF Account
<1>. HIDE DEF row
<1>4. row.no <= made /\ acct.no \in {0, row.no} /\ (row.proven => row.email \in proved')
    BY <1>1, <1>2, <1>3
<1>5. RowsTyped' /\ Kept' /\ made <= made' /\ proved \subseteq proved'
    BY <1>1, <1>2, <1>3, <1>4, AccountWritten
<1>. QED BY <1>1, <1>2, <1>5, DeskSame, SameFollows, SameTyped, Together

LEMMA ErasePersonalDataStep ==
    ASSUME IInv, ErasePersonalData
    PROVE  IInv'
<1>1. /\ Closed /\ codes' \subseteq codes /\ shop' = shop /\ UNCHANGED <<perms, log, changes>>
      /\ page' = page /\ UNCHANGED calls /\ Press
      /\ session' = [session EXCEPT !.signedIn = @ /\ shop, !.token = @ /\ shop]
    BY DEF ErasePersonalData
<1>2. TypeOK /\ DeskTyped /\ StaffLeaveATrace
    BY TypeParts DEF IInv
<1>3. (session.signedIn /\ shop) \in BOOLEAN /\ (session.token /\ shop) \in BOOLEAN
    OBVIOUS
<1>4. session' \in Session
    BY <1>1, <1>3, SessionsTyped
<1>5. RowsTyped' /\ Kept' /\ made <= made' /\ proved \subseteq proved' /\ support' \in SupportSession
    BY <1>1, ClosedRows
<1>6. DeskTyped' /\ StaffLeaveATrace' /\ log \subseteq log'
    BY <1>1, <1>2, <1>5 DEF DeskTyped, StaffLeaveATrace
<1>. QED BY <1>1, <1>2, <1>4, <1>5, <1>6, SameFollows, SameTyped, Together

LEMMA OtherClaimsStep ==
    ASSUME IInv, OtherClaims
    PROVE  IInv'
<1>1. /\ other' \in Emails /\ UNCHANGED <<acct, made, enq, due, proved, codes, saved>>
      /\ shop' = shop /\ UNCHANGED desk /\ session' = session /\ page' = page /\ UNCHANGED calls /\ Press
    BY DEF OtherClaims
<1>2. RowsTyped /\ Kept /\ TypeOK
    BY TypeParts DEF IInv
<1>3. RowsTyped' /\ made <= made' /\ proved \subseteq proved'
    BY <1>1, <1>2 DEF RowsTyped, Typed
<1>4. Kept'
    BY <1>1, <1>2 DEF Kept, CodesName, Linked, EarlierEnquiriesAreFound, ProvenMeansProved
<1>. QED BY <1>1, <1>2, <1>3, <1>4, DeskSame, SameFollows, SameTyped, Together

-----------------------------------------------------------------------------
(* The screens' steps *)

LEMMA PageFields ==
    ASSUME IInv
    PROVE  /\ page \in Page /\ page.who \in Whos /\ page.at \in Places /\ page.email \in Typed
           /\ \A b \in BOOLEAN : [page EXCEPT !.filtered = b] \in Page /\ [page EXCEPT !.saved = b] \in Page
           /\ \A s \in {"form", "phone code", "email code", "outcome"}, e \in Typed :
                 [page EXCEPT !.step = s] \in Page /\ [page EXCEPT !.step = s, !.email = e] \in Page
           /\ [page EXCEPT !.known = FALSE, !.step = "form"] \in Page
           /\ NoEmail \in Typed /\ \A e \in Emails : e \in Typed
<1>1. page \in Page
    BY DEF IInv, TypeOK
<1>. QED BY <1>1 DEF Page, Whos, Places, Typed

\* The buttons that send a request.
LEMMA SignInAsksStep ==
    ASSUME IInv, SendCode \/ SendEmailCode \/ CheckCode
    PROVE  IInv'
<1>1. CASE SendCode
    <2>1. PICK email \in Typed : Ask({"email code"}, Call("code", email))
        BY <1>1 DEF SendCode
    <2>. QED BY <2>1, AskStep DEF Ops
<1>2. CASE SendEmailCode
    <2>1. PICK email \in Emails : Ask({"code"}, Call("email code", email))
        BY <1>2 DEF SendEmailCode
    <2>. QED BY <2>1, PageFields, AskStep DEF Ops
<1>3. CASE CheckCode
    <2>1. PICK op \in {"verify", "email verify"} : Ask({"photo"}, Call(op, page.email))
        BY <1>3 DEF CheckCode
    <2>. QED BY <2>1, PageFields, AskStep DEF Ops
<1>. QED BY <1>1, <1>2, <1>3

LEMMA DashboardAsksStep ==
    ASSUME IInv, SignOut \/ Unsave \/ ChangePhoto \/ DropPhoto \/ ChangeSettings \/ AskToAdd \/ ConfirmEmail \/ AskToClose
    PROVE  IInv'
<1>1. CASE SignOut \/ Unsave \/ ChangePhoto \/ DropPhoto \/ ChangeSettings \/ AskToClose
    <2>1. PICK op \in {"out", "unsave", "photo", "no photo", "settings", "close"} :
            \E group : Ask(group, Call(op, NoEmail))
        BY <1>1 DEF SignOut, Unsave, ChangePhoto, DropPhoto, ChangeSettings, AskToClose
    <2>2. PICK group : Ask(group, Call(op, NoEmail))
        BY <2>1
    <2>. QED BY <2>2, PageFields, AskStep DEF Ops
<1>2. CASE AskToAdd
    <2>1. PICK email \in Emails : Ask({"confirm"}, Call("add", email))
        BY <1>2 DEF AskToAdd
    <2>. QED BY <2>1, PageFields, AskStep DEF Ops
<1>3. CASE ConfirmEmail
    <2>1. Ask({"add"}, Call("confirm", page.email))
        BY <1>3 DEF ConfirmEmail
    <2>. QED BY <2>1, PageFields, AskStep DEF Ops
<1>. QED BY <1>1, <1>2, <1>3

LEMMA ElsewhereAsksStep ==
    ASSUME IInv, Toggle \/ RequestCode \/ VerifyThenSend \/ AccountSend \/ AccountConfirm \/ Become \/ SignOutAccount
    PROVE  IInv'
<1>1. PICK op \in {"save", "unsave", "request", "check", "account code", "account verify", "role", "out"} :
        \E group : Ask(group, Call(op, NoEmail))
    BY DEF Toggle, RequestCode, VerifyThenSend, AccountSend, AccountConfirm, Become, SignOutAccount
<1>2. PICK group : Ask(group, Call(op, NoEmail))
    BY <1>1
<1>. QED BY <1>2, PageFields, AskStep DEF Ops

LEMMA AppAsksStep ==
    ASSUME IInv, EnsureTrainee \/ AppOut \/ AppSendCode \/ AppCheckCode \/ AppEnquire
    PROVE  IInv'
<1>1. PICK op \in {"app role", "app out", "account code", "app verify", "app send"} :
        \E group : Ask(group, Call(op, NoEmail))
    BY DEF EnsureTrainee, AppOut, AppSendCode, AppCheckCode, AppEnquire
<1>2. PICK group : Ask(group, Call(op, NoEmail))
    BY <1>1
<1>. QED BY <1>2, PageFields, AskStep DEF Ops

\* The screens that are gone to, and what is changed on one.
LEMMA ShowStep ==
    ASSUME IInv, UNCHANGED <<rows, shop, desk, session>>, NEW next \in Page, Show(next), Press \/ presses' = presses
    PROVE  IInv'
<1>1. page' \in Page /\ CallsFollow
    BY UnshownNow DEF Show
<1>. QED BY <1>1, ScreenStep

LEMMA GoStep ==
    ASSUME IInv, Visit \/ LookAtTheOther \/ GoToAccount \/ FindTraining \/ OpenRow
    PROVE  IInv'
<1>1. UNCHANGED <<rows, shop, desk, session>> /\ (Press \/ presses' = presses)
    BY DEF Visit, LookAtTheOther, GoToAccount, FindTraining, OpenRow
<1>2. PICK who \in Whos, at \in Places : Show(Screen(who, at))
    BY DEF Visit, LookAtTheOther, GoToAccount, FindTraining, OpenRow, Whos, Places
<1>. QED BY <1>1, <1>2, ScreenTyped, ShowStep

LEMMA StayStep ==
    ASSUME IInv, Back \/ Filter \/ ClearFilters
    PROVE  IInv'
<1>1. UNCHANGED <<rows, shop, desk, session>> /\ (Press \/ presses' = presses) /\ UNCHANGED calls
    BY DEF Back, Filter, ClearFilters
<1>2. page' \in Page
    BY PageFields DEF Back, Filter, ClearFilters
<1>3. CallsFollow
    BY <1>1, SameFollows DEF IInv
<1>. QED BY <1>1, <1>2, <1>3, ScreenStep

\* An answer shows a page.
LEMMA AfterTyped ==
    ASSUME IInv, NEW call \in Request
    PROVE  After(call) \in Page
<1>1. call.email \in Typed
    BY DEF Request
<1>2. /\ Screen("trainee", "dashboard") \in Page /\ Screen("trainee", "account") \in Page
      /\ Screen("trainee", "app") \in Page /\ Screen("trainee", "home") \in Page
    BY ScreenTyped DEF Whos, Places
<1>3. (call.op = "save") \in BOOLEAN
    OBVIOUS
<1>4. /\ [page EXCEPT !.step = "phone code", !.email = call.email] \in Page
      /\ [page EXCEPT !.step = "email code", !.email = call.email] \in Page
      /\ [page EXCEPT !.step = "outcome"] \in Page
      /\ [page EXCEPT !.step = "form", !.email = NoEmail] \in Page
      /\ [page EXCEPT !.saved = call.op = "save"] \in Page
      /\ [page EXCEPT !.known = FALSE, !.step = "form"] \in Page
      /\ page \in Page
    BY <1>1, <1>3, PageFields
<1>. QED BY <1>2, <1>4 DEF After

LEMMA AnsweredStep ==
    ASSUME IInv, NEW id, Answered(id)
    PROVE  IInv'
<1>1. /\ id \in DOMAIN calls /\ calls[id] \in Request /\ TypeOK
      /\ UNCHANGED <<rows, shop, desk, session, presses>>
      /\ page' = IF Stands(calls[id]) THEN After(calls[id]) ELSE page
      /\ calls' = Drop(id) \/ calls' = [n \in DOMAIN Unshown \ {id} |-> Unshown[n]]
    BY Asked DEF Answered, IInv
<1>2. page' \in Page
    BY <1>1, AfterTyped, PageTyped
<1>3. CASE calls' = Drop(id)
    <2>1. \A n \in DOMAIN calls : Follows(calls[n], calls[n])
        BY <1>1, FieldsFollow DEF TypeOK
    <2>2. CallsFollow
        BY <1>3, <2>1 DEF CallsFollow, Drop
    <2>. QED BY <1>1, <1>2, <2>2, ScreenStep
<1>4. CASE calls' = [n \in DOMAIN Unshown \ {id} |-> Unshown[n]]
    <2>1. CallsFollow
        BY <1>1, <1>4, UnshownFollows
    <2>. QED BY <1>1, <1>2, <2>1, ScreenStep
<1>. QED BY <1>1, <1>3, <1>4

-----------------------------------------------------------------------------
(* The invariant *)

LEMMA Initially ==
    ASSUME Init
    PROVE  IInv
<1>1. /\ other = NoEmail /\ due = {} /\ proved = {} /\ codes = {} /\ saved = FALSE /\ shop \in BOOLEAN
      /\ perms \in {"none", "edit"} /\ support = [on |-> FALSE, of |-> 0, edit |-> FALSE]
      /\ log = {} /\ changes = {} /\ calls = <<>> /\ presses = 0
    BY DEF Init
<1>2. NoAccount \in Account /\ NoAccount.no = 0 /\ NoAccount.proven = FALSE
    BY DEF NoAccount, Account, Typed
<1>3. /\ [NoAccount EXCEPT !.no = 1, !.active = TRUE] \in Account
      /\ [NoAccount EXCEPT !.no = 1, !.active = TRUE].no = 1
      /\ [NoAccount EXCEPT !.no = 1, !.active = TRUE].proven = FALSE
    BY <1>2 DEF Account
<1>4. acct \in Account /\ made \in Nat /\ acct.no \in Nat /\ acct.no <= made /\ acct.proven = FALSE
    <2>1. \/ acct = NoAccount /\ made = 0
          \/ acct = [NoAccount EXCEPT !.no = 1, !.active = TRUE] /\ made = 1
        BY DEF Init
    <2>2. CASE acct = NoAccount /\ made = 0
        BY <1>2, <2>2
    <2>3. CASE acct = [NoAccount EXCEPT !.no = 1, !.active = TRUE] /\ made = 1
        <3>1. acct.no = 1 /\ acct.proven = FALSE /\ acct \in Account
            BY <1>3, <2>3
        <3>. QED BY <2>3, <3>1
    <2>. QED BY <2>1, <2>2, <2>3
<1>5. enq = <<[of |-> 0]>> /\ session \in Session
    <2>1. enq = <<[of |-> 0]>>
        BY DEF Init
    <2>2. PICK signedIn \in BOOLEAN, token \in BOOLEAN :
            session = [signedIn |-> signedIn, trusted |-> FALSE, token |-> token]
        BY DEF Init
    <2>3. session \in Session
        BY <2>2 DEF Session
    <2>. QED BY <2>1, <2>3
<1>6. enq \in Seq(Enquiry) /\ DOMAIN enq = {1} /\ enq[1].of = 0
    BY <1>5 DEF Enquiry
<1>7. RowsTyped
    BY <1>1, <1>4, <1>6 DEF RowsTyped, Typed
<1>8. DeskTyped /\ StaffLeaveATrace
    BY <1>1 DEF DeskTyped, StaffLeaveATrace, SupportSession
<1>9. DOMAIN calls = {}
    BY <1>1
<1>10. CallsTyped /\ CallsFit
    BY <1>9 DEF CallsTyped, CallsFit
<1>11. Kept
    BY <1>1, <1>4, <1>6 DEF Kept, CodesName, Linked, EarlierEnquiriesAreFound, ProvenMeansProved
<1>12. page \in Page
    <2>1. PICK at \in {"dashboard", "workshop", "app"} : page = Screen("trainee", at)
        BY DEF Init
    <2>2. saved \in BOOLEAN
        BY <1>1
    <2>. QED BY <1>5, <2>1, <2>2, ScreenShape DEF Whos, Places
<1>13. presses \in 0..MaxPresses
    BY <1>1, TraineeAssumption
<1>. QED BY <1>1, <1>5, <1>7, <1>8, <1>10, <1>11, <1>12, <1>13, TypeParts DEF IInv

LEMMA ServeStep ==
    ASSUME IInv, NEW id, Serve(id)
    PROVE  IInv'
BY AdmitStep, CodeRequestStep, EmailCodeRequestStep, CodeVerifyStep, EmailVerifyStep, AccountVerifyStep,
   AppSignOutStep, AddRoleStep, SaveSettingsStep, SavePhotoStep, SaveListStep, AddEmailRequestStep,
   AddEmailVerifyStep, AddEmailConfirmStep, CloseAccountStep, LogoutStep, OTPRequestStep, OTPVerifyStep,
   FindTraineeStep, CreateEnquiryStep DEF Serve

LEMMA NothingStep ==
    ASSUME IInv, UNCHANGED vars
    PROVE  IInv'
<1>1. UNCHANGED <<rows, shop, desk, session>> /\ page' = page /\ UNCHANGED calls /\ presses' = presses
    BY DEF vars
<1>. QED BY <1>1, PageTyped, SameFollows, ScreenStep DEF IInv

LEMMA Preserved ==
    ASSUME IInv, [Next]_vars
    PROVE  IInv'
<1>1. CASE \E id \in 1..MaxCalls : Serve(id) \/ Answered(id)
    BY <1>1, ServeStep, AnsweredStep
<1>2. CASE BackOffice \/ OtherClaims
    BY <1>2, StartSupportSessionStep, StaffStep, SwitchOffStep, ErasePersonalDataStep, OtherClaimsStep DEF BackOffice
<1>3. CASE AtTheSignIn
    BY <1>3, SignInAsksStep, StayStep, GoStep DEF AtTheSignIn
<1>4. CASE OnTheDashboard
    BY <1>4, DashboardAsksStep, StayStep, GoStep DEF OnTheDashboard
<1>5. CASE Elsewhere
    BY <1>5, ElsewhereAsksStep, GoStep DEF Elsewhere
<1>6. CASE InTheApp
    BY <1>6, AppAsksStep, GoStep DEF InTheApp
<1>7. CASE UNCHANGED vars
    BY <1>7, NothingStep
<1>. QED BY <1>1, <1>2, <1>3, <1>4, <1>5, <1>6, <1>7 DEF Next

LEMMA Invariance == Spec => []IInv
<1>1. Init => IInv
    BY Initially
<1>2. IInv /\ [Next]_vars => IInv'
    BY Preserved
<1>. QED BY <1>1, <1>2, PTL DEF Spec

-----------------------------------------------------------------------------
(* What follows *)

\* Every state of an account, its requests and its screens has the shape of one.
THEOREM TypeCorrect == Spec => []TypeOK
<1>1. IInv => TypeOK
    BY DEF IInv
<1>. QED BY <1>1, Invariance, PTL

\* Enquiries made before the number was last proved are the account's, whoever proves
\* it, closes the account or erases it while other requests are under way
\* (auth.py, link_history).
THEOREM EarlierEnquiriesAreKept == Spec => []EarlierEnquiriesAreFound
<1>1. IInv => EarlierEnquiriesAreFound
    BY DEF IInv, Kept
<1>. QED BY <1>1, Invariance, PTL

\* No row that is written back, however late, makes an address count as proved that
\* no code proved (auth.py, _claim_email; account.py).
THEOREM ProvenIsProved == Spec => []ProvenMeansProved
<1>1. IInv => ProvenMeansProved
    BY DEF IInv, Kept
<1>. QED BY <1>1, Invariance, PTL

\* The log tells of every request of staff that changed something, also where the
\* session ended while it was under way (access.py, support.py).
THEOREM StaffAreTraced == Spec => []StaffLeaveATrace
<1>1. IInv => StaffLeaveATrace
    BY DEF IInv
<1>. QED BY <1>1, Invariance, PTL
=============================================================================

--------------------------- MODULE ClassroomProofs ---------------------------
(***************************************************************************)
(* Theorems about Classroom, for any number of lessons, requests, payments *)
(* and things the learner and the trainer do.                              *)
(***************************************************************************)
EXTENDS Classroom, FiniteSetTheorems, WellFoundedInduction, TLAPS

-----------------------------------------------------------------------------
(* The inductive invariant *)

Charges == {"none", "success", "failed", "refused"}
Reply == [ok : BOOLEAN, access : Access, rows : Rows, finished : BOOLEAN, certificate : BOOLEAN,
          lessons : SUBSET Lessons, reference : 0..MaxPurchases, charge : Charges]
Request == [op : {"access", "progress", "claim", "code", "buy", "verify", "save", "remove"},
            by : {"page", "app", "nobody"}, lesson : Lessons, flag : BOOLEAN,
            stage : {"asked", "answered", "kept", "earned", "heard", "put", "gone"}, reply : Reply]

\* What a request under way relies on: the lessons counted for a certificate are
\* finished; a payment looked into, or answered with, is one that was started; and
\* a success it was told of stands.
Done == FinishedOf(Lessons)
Charged == {n \in DOMAIN purchases : purchases[n].charge = "success"}
Fits(c, done, started, charged) ==
    /\ c.stage = "earned" => c.reply.lessons # {} /\ c.reply.lessons \subseteq done
    /\ c.op = "verify" /\ c.stage \in {"asked", "heard"} => c.reply.reference \in 1..started
    /\ c.op = "verify" /\ c.stage = "heard" /\ c.reply.charge = "success"
           => c.reply.reference \in charged
    /\ c.op = "buy" /\ c.stage = "answered"
           => c.reply.reference \in 0..started /\ (c.reply.ok => c.reply.reference # 0)

\* A request that is about to see whether there is a certificate to give.
Awaited(c) == c.op \in {"progress", "claim"} /\ c.stage \in {"kept", "earned"}

CallsTyped == DOMAIN calls \subseteq 1..MaxCalls /\ \A id \in DOMAIN calls : calls[id] \in Request
CallsFit == \A id \in DOMAIN calls : Fits(calls[id], Done, Len(purchases), Charged)
SomeAwaited == \E id \in DOMAIN calls : Awaited(calls[id])

\* The type invariant, in the parts that steps disturb together.
CourseTyped == shown \in (SUBSET Lessons) \ {{}} /\ paid \in BOOLEAN /\ changed \in BOOLEAN
AccountTyped == rows \in Rows /\ named \in BOOLEAN /\ certificate \subseteq Lessons
MoneyTyped == purchases \in Seq(Purchase) /\ Len(purchases) <= MaxPurchases
BrowserTyped == signedIn \in BOOLEAN /\ local \in Rows /\ kept \subseteq Lessons /\ listed \subseteq Lessons
ScreensTyped ==
    /\ page \in Page /\ app \in App /\ presses \in 0..MaxPresses
    /\ page.on = "paying" => page.reference \in 1..Len(purchases)
    /\ app.reference \in 0..Len(purchases)

IInv ==
    /\ CourseTyped /\ AccountTyped /\ MoneyTyped /\ BrowserTyped /\ ScreensTyped
    /\ CallsTyped /\ CallsFit
    /\ CertificateIsEarned /\ EarnedMeansGiven /\ ChargedMeansUnlocked

-----------------------------------------------------------------------------
(* Shapes *)

LEMMA MinIsIn ==
    ASSUME NEW S, S \subseteq Nat, S # {}
    PROVE  Min(S) \in S
<1>1. \E x \in S : \A y \in S : ~(<<y, x>> \in OpToRel(<, Nat))
  BY WFMin, NatLessThanWellFounded, Zenon
<1>2. \A x, y \in Nat : y < x => <<y, x>> \in OpToRel(<, Nat)
  BY Zenon DEF OpToRel
<1>3. \E x \in S : \A y \in S : ~(y < x)
  BY <1>1, <1>2, Zenon
<1>4. \E x \in S : \A y \in S : x <= y
  BY <1>3
<1> QED
  BY <1>4 DEF Min

LEMMA LessonsAreNumbers ==
    /\ 1 \in Lessons /\ Lessons \subseteq Nat
    /\ IsFiniteSet(Lessons)
    /\ \A S \in SUBSET Lessons : S # {} => Min(S) \in Lessons
<1>1. 1 \in Lessons /\ Lessons \subseteq Nat
  BY ClassroomAssumption DEF Lessons
<1>2. IsFiniteSet(Lessons)
  BY FS_Interval, ClassroomAssumption DEF Lessons
<1> QED
  BY <1>1, <1>2, MinIsIn

LEMMA PlainShapes ==
    /\ Fresh \in Rows
    /\ NoAccess \in Access
    /\ NoReply \in Reply
<1>1. Fresh \in Rows
  BY DEF Fresh, Rows, Row
<1>2. NoAccess \in Access
  BY DEF NoAccess, Access
<1> QED
  BY <1>1, <1>2, ClassroomAssumption DEF NoReply, Reply, Charges

LEMMA CallShape ==
    ASSUME NEW op \in {"access", "progress", "claim", "code", "buy", "save", "remove"},
           NEW by \in {"page", "app"}, NEW lesson \in Lessons, NEW flag \in BOOLEAN
    PROVE  /\ Call(op, by, lesson, flag) \in Request
           /\ \A done, started, charged : Fits(Call(op, by, lesson, flag), done, started, charged)
BY PlainShapes DEF Call, Request, Fits

LEMMA VerifyShape ==
    ASSUME NEW by \in {"page", "app"}, NEW lesson \in Lessons, NEW flag \in BOOLEAN,
           NEW n \in 1..Len(purchases), MoneyTyped
    PROVE  /\ [Call("verify", by, lesson, flag) EXCEPT !.reply.reference = n] \in Request
           /\ \A done, charged :
                  Fits([Call("verify", by, lesson, flag) EXCEPT !.reply.reference = n],
                       done, Len(purchases), charged)
<1>1. n \in 0..MaxPurchases
  BY ClassroomAssumption DEF MoneyTyped
<1>2. [NoReply EXCEPT !.reference = n] \in Reply
  BY <1>1, PlainShapes DEF Reply
<1>3. [Call("verify", by, lesson, flag) EXCEPT !.reply.reference = n]
        = [op |-> "verify", by |-> by, lesson |-> lesson, flag |-> flag, stage |-> "asked",
           reply |-> [NoReply EXCEPT !.reference = n]]
  BY DEF Call
<1>4. [NoReply EXCEPT !.reference = n].reference = n
  BY DEF NoReply
<1> QED
  BY <1>2, <1>3, <1>4 DEF Request, Fits

LEMMA AccessShape ==
    ASSUME CourseTyped, AccountTyped, NEW session \in BOOLEAN
    PROVE  CourseAccess(session) \in Access
<1>1. CourseAccess(session).sources \subseteq Lessons
  BY DEF CourseAccess, CourseTyped
<1> QED
  BY <1>1 DEF CourseAccess, Access, CourseTyped

LEMMA AdvancedShape ==
    ASSUME NEW progress \in Rows, NEW lesson \in Lessons, NEW over \in BOOLEAN
    PROVE  [progress EXCEPT ![lesson] = Advanced(@, over)] \in Rows
BY DEF Advanced, Rows, Row

-----------------------------------------------------------------------------
(* Requests *)

\* What a request relies on only grows.
Grows ==
    /\ Done \subseteq Done'
    /\ Len(purchases) \in Nat /\ Len(purchases)' \in Nat /\ Len(purchases) <= Len(purchases)'
    /\ Charged \subseteq Charged'

LEMMA FitsGrows ==
    ASSUME Grows, NEW c, Fits(c, Done, Len(purchases), Charged)
    PROVE  Fits(c, Done', Len(purchases)', Charged')
BY DEF Grows, Fits

\* Requests after a step are typed and fit, and one that was awaited still is.
CallsKept == CallsTyped' /\ CallsFit' /\ (SomeAwaited => SomeAwaited')

\* All requests stay as they are but one, which is new, changed or gone.
OneChanges(id, d) ==
    /\ \A n \in DOMAIN calls' :
           \/ n \in DOMAIN calls /\ calls'[n] = calls[n]
           \/ n = id /\ id \in 1..MaxCalls /\ calls'[n] = d
    /\ \A n \in DOMAIN calls \ {id} : n \in DOMAIN calls' /\ calls'[n] = calls[n]

LEMMA OneFits ==
    ASSUME CallsTyped, CallsFit, Grows, NEW id, NEW d, OneChanges(id, d),
           d \in Request, Fits(d, Done', Len(purchases)', Charged')
    PROVE  CallsTyped' /\ CallsFit'
<1>1. CallsTyped'
  BY DEF CallsTyped, OneChanges
<1>2. ASSUME NEW n \in DOMAIN calls'
      PROVE  Fits(calls'[n], Done', Len(purchases)', Charged')
  BY <1>2, FitsGrows DEF CallsFit, OneChanges
<1> QED
  BY <1>1, <1>2 DEF CallsFit

LEMMA OneIsKept ==
    ASSUME CallsTyped, CallsFit, Grows, NEW id, NEW d, OneChanges(id, d),
           d \in Request, Fits(d, Done', Len(purchases)', Charged'),
           id \in DOMAIN calls /\ Awaited(calls[id]) => id \in DOMAIN calls' /\ Awaited(calls'[id])
    PROVE  CallsKept
<1>1. SomeAwaited => SomeAwaited'
  BY DEF SomeAwaited, OneChanges
<1> QED
  BY <1>1, OneFits DEF CallsKept

LEMMA FreeIsNew ==
    ASSUME CallsTyped, Cardinality(DOMAIN calls) < MaxCalls
    PROVE  Free \in (1..MaxCalls) \ DOMAIN calls
<1>1. \E id \in 1..MaxCalls : id \notin DOMAIN calls
  <2> SUFFICES ASSUME 1..MaxCalls \subseteq DOMAIN calls
               PROVE  FALSE
    OBVIOUS
  <2>1. DOMAIN calls = 1..MaxCalls
    BY DEF CallsTyped
  <2>2. Cardinality(1..MaxCalls) = MaxCalls
    BY FS_Interval, ClassroomAssumption
  <2> QED
    BY <2>1, <2>2, ClassroomAssumption
<1> QED
  BY <1>1 DEF Free

LEMMA SendKeeps ==
    ASSUME CallsTyped, CallsFit, Grows, Cardinality(DOMAIN calls) < MaxCalls,
           NEW d \in Request, Fits(d, Done', Len(purchases)', Charged'), Send(d)
    PROVE  CallsKept
<1>1. Free \in (1..MaxCalls) \ DOMAIN calls
  BY FreeIsNew
<1>2. OneChanges(Free, d)
  BY <1>1 DEF OneChanges, Send, With
<1> QED
  BY <1>1, <1>2, OneIsKept

\* A request is read, and nothing or another follows.
LEMMA ReadKeeps ==
    ASSUME CallsTyped, CallsFit, Grows, NEW id \in DOMAIN calls, ~Awaited(calls[id]), Read(id)
    PROVE  CallsKept
<1>1. OneChanges(id, calls[id])
  BY DEF OneChanges, Read, Without
<1>2. calls[id] \in Request /\ Fits(calls[id], Done', Len(purchases)', Charged')
  BY FitsGrows DEF CallsTyped, CallsFit
<1> QED
  BY <1>1, <1>2, OneIsKept

LEMMA ReadThenSendKeeps ==
    ASSUME CallsTyped, CallsFit, Grows, NEW id \in DOMAIN calls, ~Awaited(calls[id]),
           NEW d \in Request, Fits(d, Done', Len(purchases)', Charged'), ReadThenSend(id, d)
    PROVE  CallsKept
<1>1. id \in 1..MaxCalls
  BY DEF CallsTyped
<1>2. OneChanges(id, d)
  BY <1>1 DEF OneChanges, ReadThenSend, With, Without
<1> QED
  BY <1>2, OneIsKept

\* A request moves on, to another stage or with what it found.
LEMMA MoveKeeps ==
    ASSUME CallsTyped, CallsFit, Grows, NEW id \in DOMAIN calls, NEW d \in Request,
           Fits(d, Done', Len(purchases)', Charged'), Awaited(calls[id]) => Awaited(d),
           calls' = [calls EXCEPT ![id] = d]
    PROVE  CallsKept
<1>1. id \in 1..MaxCalls /\ id \in DOMAIN calls' /\ calls'[id] = d
  BY DEF CallsTyped
<1>2. OneChanges(id, d)
  BY <1>1 DEF OneChanges
<1> QED
  BY <1>1, <1>2, OneIsKept

\* A request is answered: the answer waits to be read, unless nobody is there.
LEMMA AnswerShape ==
    ASSUME NEW c \in Request, NEW reply \in Reply
    PROVE  /\ [c EXCEPT !.stage = "answered", !.reply = reply] \in Request
           /\ ~Awaited([c EXCEPT !.stage = "answered", !.reply = reply])
           /\ \A done, started, charged :
                  (c.op = "buy" => /\ reply.reference \in 0..started
                                   /\ reply.ok => reply.reference # 0)
                      => Fits([c EXCEPT !.stage = "answered", !.reply = reply],
                              done, started, charged)
BY DEF Request, Fits, Awaited

LEMMA AnswerChanges ==
    ASSUME CallsTyped, NEW id \in DOMAIN calls, NEW reply, Answer(id, reply)
    PROVE  OneChanges(id, [calls[id] EXCEPT !.stage = "answered", !.reply = reply])
<1> DEFINE d == [calls[id] EXCEPT !.stage = "answered", !.reply = reply]
<1>1. id \in 1..MaxCalls
  BY DEF CallsTyped
<1>2. CASE calls[id].by = "nobody"
  BY <1>2 DEF Answer, Without, OneChanges
<1>3. CASE calls[id].by # "nobody"
  <2>1. calls' = [calls EXCEPT ![id] = d]
    BY <1>3 DEF Answer
  <2>2. OneChanges(id, d)
    <3> HIDE DEF d
    <3> QED
      BY <1>1, <2>1 DEF OneChanges
  <2> QED
    BY <2>2
<1> QED
  BY <1>2, <1>3

LEMMA AnswerFits ==
    ASSUME CallsTyped, CallsFit, Grows, NEW id \in DOMAIN calls,
           NEW reply \in Reply, Answer(id, reply),
           calls[id].op = "buy" => /\ reply.reference \in 0..(Len(purchases)')
                                   /\ reply.ok => reply.reference # 0
    PROVE  /\ CallsTyped' /\ CallsFit'
           /\ ~Awaited(calls[id]) => CallsKept
<1> DEFINE d == [calls[id] EXCEPT !.stage = "answered", !.reply = reply]
<1>1. d \in Request /\ Fits(d, Done', Len(purchases)', Charged')
  BY AnswerShape DEF CallsTyped
<1>2. OneChanges(id, d)
  BY AnswerChanges
<1> QED
  BY <1>1, <1>2, OneFits, OneIsKept

LEMMA RefuseKeeps ==
    ASSUME CallsTyped, CallsFit, Grows, NEW id \in DOMAIN calls, ~Awaited(calls[id]), Refuse(id)
    PROVE  CallsKept
<1>1. NoReply \in Reply /\ NoReply.reference = 0 /\ ~NoReply.ok
  BY PlainShapes DEF NoReply
<1>2. 0 \in 0..(Len(purchases)')
  BY DEF Grows
<1> QED
  BY <1>1, <1>2, AnswerFits DEF Refuse

LEMMA SameKeeps ==
    ASSUME CallsTyped, CallsFit, Grows, UNCHANGED calls
    PROVE  CallsKept
BY FitsGrows DEF CallsKept, CallsTyped, CallsFit, SomeAwaited

\* The page is gone, and perhaps a request that was read.
LEMMA OrphanedKeeps ==
    ASSUME CallsTyped, CallsFit, Grows, NEW gone,
           \A n \in gone \cap DOMAIN calls : ~Awaited(calls[n]),
           calls' = [n \in DOMAIN Orphaned \ gone |-> Orphaned[n]]
    PROVE  CallsKept
<1>1. \A c \in Request :
          /\ [c EXCEPT !.by = "nobody"] \in Request
          /\ Awaited(c) => Awaited([c EXCEPT !.by = "nobody"])
          /\ Awaited(c) => ~(c.op \in {"save", "remove"} \/ (c.by = "page" /\ c.stage = "answered"))
          /\ \A done, started, charged :
                 Fits(c, done, started, charged)
                     => Fits([c EXCEPT !.by = "nobody"], done, started, charged)
  BY DEF Request, Awaited, Fits
<1>2. \A n \in DOMAIN calls' : /\ n \in DOMAIN calls
                               /\ calls'[n] \in {calls[n], [calls[n] EXCEPT !.by = "nobody"]}
  BY DEF Orphaned
<1>3. CallsTyped'
  BY <1>1, <1>2 DEF CallsTyped
<1>4. ASSUME NEW n \in DOMAIN calls'
      PROVE  Fits(calls'[n], Done', Len(purchases)', Charged')
  BY <1>1, <1>2, <1>4, FitsGrows DEF CallsFit, CallsTyped
<1>5. \A n \in DOMAIN calls : Awaited(calls[n]) => n \in DOMAIN calls'
  BY <1>1 DEF Orphaned, CallsTyped
<1>6. SomeAwaited => SomeAwaited'
  BY <1>1, <1>2, <1>5 DEF SomeAwaited, CallsTyped
<1> QED
  BY <1>3, <1>4, <1>6 DEF CallsKept, CallsFit

-----------------------------------------------------------------------------
(* Steps that leave the course, the account and the money alone *)

LEMMA QuietGrows ==
    ASSUME IInv, UNCHANGED <<account, money>>
    PROVE  Grows
<1>1. Len(purchases) \in Nat
  BY DEF IInv, MoneyTyped
<1>2. rows' = rows /\ purchases' = purchases
  BY DEF account, money
<1> QED
  BY <1>1, <1>2 DEF Grows, Done, FinishedOf, Charged

LEMMA QuietStep ==
    ASSUME IInv, UNCHANGED <<course, account, money>>, BrowserTyped', ScreensTyped', CallsKept
    PROVE  IInv'
<1>1. /\ UNCHANGED <<shown, paid, changed, rows, named, certificate, purchases, uses>>
  BY DEF course, account, money
<1>2. CourseTyped' /\ AccountTyped' /\ MoneyTyped' /\ CertificateIsEarned' /\ ChargedMeansUnlocked'
  BY <1>1
     DEF IInv, CourseTyped, AccountTyped, MoneyTyped, CertificateIsEarned, FinishedOf,
         ChargedMeansUnlocked
<1>3. EarnedMeansGiven => EarnedMeansGiven'
  BY <1>1 DEF EarnedMeansGiven, AllFinished, FinishedOf, CallsKept, SomeAwaited, Awaited
<1> QED
  BY <1>2, <1>3 DEF IInv, CallsKept

LEMMA PressCounts ==
    ASSUME IInv, Press \/ presses' = presses
    PROVE  presses' \in 0..MaxPresses
BY ClassroomAssumption DEF IInv, ScreensTyped, Press

\* The browser's: the page goes to Paystack only with a payment that was started.
LEMMA PageStep ==
    ASSUME IInv, UNCHANGED <<course, account, money, app>>, BrowserTyped', page' \in Page,
           page'.on = "paying" => page'.reference \in 1..Len(purchases),
           Press \/ presses' = presses, CallsKept
    PROVE  IInv'
<1>1. UNCHANGED <<purchases, app>> /\ UNCHANGED <<course, account, money>>
  BY DEF money
<1>2. presses' \in 0..MaxPresses
  BY PressCounts
<1>3. ScreensTyped'
  BY <1>1, <1>2 DEF IInv, ScreensTyped
<1> QED
  BY <1>1, <1>3, QuietStep

LEMMA AppStep ==
    ASSUME IInv, UNCHANGED <<course, account, money, browser, page>>, app' \in App,
           app'.reference \in 0..Len(purchases), Press \/ presses' = presses, CallsKept
    PROVE  IInv'
<1>1. UNCHANGED <<purchases, page>> /\ UNCHANGED <<course, account, money>>
      /\ UNCHANGED <<signedIn, local, kept, listed>>
  BY DEF money, browser
<1>2. presses' \in 0..MaxPresses
  BY PressCounts
<1>3. ScreensTyped' /\ BrowserTyped'
  BY <1>1, <1>2 DEF IInv, ScreensTyped, BrowserTyped
<1> QED
  BY <1>1, <1>3, QuietStep

\* What the steps of the screens start from.
LEMMA ScreensAre ==
    ASSUME IInv
    PROVE  /\ page \in Page /\ app \in App
           /\ page.on = "paying" => page.reference \in 1..Len(purchases)
           /\ app.reference \in 0..Len(purchases)
           /\ page.at \in Lessons /\ page.code \in BOOLEAN /\ page.lessons \subseteq Lessons
           /\ page.rows \in Rows /\ page.celebrated \in BOOLEAN
           /\ Preview \in Lessons /\ shown \subseteq Lessons
           /\ BrowserTyped /\ MoneyTyped /\ CallsTyped /\ CallsFit
<1>1. page \in Page /\ app \in App
  BY DEF IInv, ScreensTyped
<1>2. /\ page.on = "paying" => page.reference \in 1..Len(purchases)
      /\ app.reference \in 0..Len(purchases)
  BY DEF IInv, ScreensTyped
<1>3. /\ page.at \in Lessons /\ page.code \in BOOLEAN /\ page.lessons \subseteq Lessons
      /\ page.rows \in Rows /\ page.celebrated \in BOOLEAN
  BY <1>1 DEF Page
<1>4. shown \subseteq Lessons /\ shown # {}
  BY DEF IInv, CourseTyped
<1>5. Preview \in Lessons
  BY <1>4, LessonsAreNumbers DEF Preview
<1>6. BrowserTyped /\ MoneyTyped /\ CallsTyped /\ CallsFit
  BY DEF IInv
<1> QED
  BY <1>1, <1>2, <1>3, <1>4, <1>5, <1>6

LEMMA BrowserSame ==
    ASSUME IInv, UNCHANGED browser
    PROVE  BrowserTyped'
BY DEF IInv, BrowserTyped, browser

-----------------------------------------------------------------------------
(* The page's steps *)

LEMMA PlayerStep ==
    ASSUME IInv, StartPlayer \/ Replay \/ UpNext \/ CloseDone \/ SeekTo
    PROVE  IInv'
<1>1. UNCHANGED <<course, account, money, app>> /\ BrowserTyped' /\ CallsKept
  <2>1. UNCHANGED <<course, account, money, app>> /\ UNCHANGED browser /\ UNCHANGED calls
    BY DEF StartPlayer, Replay, UpNext, CloseDone, SeekTo
  <2> QED
    BY <2>1, BrowserSame, QuietGrows, SameKeeps DEF IInv
<1>2. Press \/ presses' = presses
  BY DEF StartPlayer, Replay, UpNext, CloseDone, SeekTo
<1>3. page' \in Page /\ page'.on = "open"
  <2>1. CASE UpNext
    <3>1. Min(Following(page.at)) \in Lessons
      BY <2>1, ScreensAre, LessonsAreNumbers DEF UpNext, Following
    <3> QED
      BY <2>1, <3>1, ScreensAre DEF UpNext, Ended, Chosen, Page, Player
  <2>2. CASE StartPlayer \/ Replay \/ CloseDone \/ SeekTo
    BY <2>2, ScreensAre DEF StartPlayer, Replay, Ended, CloseDone, SeekTo, Page, Player, Lessons
  <2> QED
    BY <2>1, <2>2
<1> QED
  BY <1>1, <1>2, <1>3, PageStep

LEMMA ReportStep ==
    ASSUME IInv, Press, NEW p \in Page, p.on = "open", NEW over \in BOOLEAN, Report(p, over),
           UNCHANGED <<course, account, money, signedIn, kept, listed, app>>
    PROVE  IInv'
<1>1. [p.rows EXCEPT ![page.at] = Advanced(@, over)] \in Rows
  BY ScreensAre, AdvancedShape DEF Page
<1>2. /\ Reported(p, over) \in Page
      /\ Reported(p, over).rows = [p.rows EXCEPT ![page.at] = Advanced(@, over)]
      /\ Reported(p, over).on = "open"
  BY <1>1 DEF Reported, Page
<1>3. page' \in Page /\ page'.on = "open" /\ BrowserTyped'
  BY <1>1, <1>2, ScreensAre DEF Report, BrowserTyped
<1>4. CallsKept
  <2>1. Grows /\ CallsTyped /\ CallsFit
    BY QuietGrows DEF IInv
  <2>2. CASE Send(Call("progress", "page", page.at, over))
    BY <2>1, <2>2, CallShape, ScreensAre, SendKeeps DEF Press
  <2>3. CASE UNCHANGED calls
    BY <2>1, <2>3, SameKeeps
  <2> QED
    BY <2>2, <2>3 DEF Report
<1>5. UNCHANGED <<course, account, money, app>>
  OBVIOUS
<1> QED
  BY <1>3, <1>4, <1>5, PageStep

LEMMA WatchingStep ==
    ASSUME IInv, Watching
    PROVE  IInv'
<1>1. CASE Tick
  BY <1>1, ReportStep, ScreensAre DEF Tick, Active
<1>2. CASE End
  <2>1. [page EXCEPT !.player = "ended"] \in Page /\ [page EXCEPT !.player = "ended"].on = "open"
    BY <1>2, ScreensAre DEF End, Active, Page, Player
  <2> QED
    BY <1>2, <2>1, ReportStep DEF End
<1>3. CASE ChooseLesson
  <2>1. PICK lesson \in page.lessons :
            \/ Report(Chosen(lesson), FALSE)
            \/ page' = Chosen(lesson) /\ UNCHANGED <<local, calls>>
    BY <1>3 DEF ChooseLesson
  <2>2. Chosen(lesson) \in Page /\ Chosen(lesson).on = "open"
    BY <1>3, ScreensAre DEF ChooseLesson, Chosen, Page, Player
  <2>3. Press /\ UNCHANGED <<course, account, money, signedIn, kept, listed, app>>
    BY <1>3 DEF ChooseLesson
  <2>4. CASE page' = Chosen(lesson) /\ UNCHANGED <<local, calls>>
    <3>1. CallsKept
      BY <2>3, <2>4, QuietGrows, SameKeeps DEF IInv
    <3>2. BrowserTyped'
      BY <2>3, <2>4, ScreensAre DEF BrowserTyped
    <3>3. UNCHANGED <<course, account, money, app>>
      BY <2>3
    <3> QED
      BY <2>2, <2>3, <2>4, <3>1, <3>2, <3>3, PageStep
  <2> QED
    BY <2>1, <2>2, <2>3, <2>4, ReportStep
<1> QED
  BY <1>1, <1>2, <1>3, PlayerStep DEF Watching

\* A request at one of its moments, but those at which a certificate may follow.
LEMMA CallIs ==
    ASSUME IInv, NEW id, NEW op, NEW stage, stage \notin {"kept", "earned"}, At(id, op, stage)
    PROVE  /\ id \in DOMAIN calls /\ id \in 1..MaxCalls /\ calls[id] \in Request
           /\ ~Awaited(calls[id])
           /\ calls[id].reply \in Reply /\ calls[id].lesson \in Lessons /\ calls[id].flag \in BOOLEAN
           /\ calls[id].op = op /\ calls[id].stage = stage
           /\ Fits(calls[id], Done, Len(purchases), Charged)
<1>1. id \in DOMAIN calls /\ calls[id].op = op /\ calls[id].stage = stage
  BY DEF At
<1>2. id \in 1..MaxCalls /\ calls[id] \in Request /\ Fits(calls[id], Done, Len(purchases), Charged)
  BY <1>1 DEF IInv, CallsTyped, CallsFit
<1> QED
  BY <1>1, <1>2 DEF Awaited, Request

\* An answer is read by the page, which stays where it is.
LEMMA PageReads ==
    ASSUME IInv, NEW id, NEW op, At(id, op, "answered") \/ At(id, op, "gone"),
           UNCHANGED <<course, account, money, app, presses>>, BrowserTyped',
           page' \in Page, page'.on = page.on, page'.reference = page.reference,
           \/ Read(id)
           \/ \E d \in Request : /\ ReadThenSend(id, d)
                                 /\ \A done, started, charged : Fits(d, done, started, charged)
    PROVE  IInv'
<1>1. id \in DOMAIN calls /\ ~Awaited(calls[id])
  BY CallIs
<1>2. Grows /\ CallsTyped /\ CallsFit
  BY QuietGrows DEF IInv
<1>3. CASE Read(id)
  <2>1. CallsKept
    BY <1>1, <1>2, <1>3, ReadKeeps
  <2> QED
    BY <2>1, ScreensAre, PageStep
<1>4. CASE \E d \in Request : /\ ReadThenSend(id, d)
                              /\ \A done, started, charged : Fits(d, done, started, charged)
  <2>1. CallsKept
    BY <1>1, <1>2, <1>4, ReadThenSendKeeps
  <2> QED
    BY <2>1, ScreensAre, PageStep
<1> QED
  BY <1>3, <1>4

LEMMA CarriedOn ==
    ASSUME CourseTyped, NEW old \in Page, NEW p \in Page, NEW q \in {p, CarryOn(p)}
    PROVE  /\ Shown(old, q) \in Page /\ Shown(old, q).on = p.on
           /\ Shown(old, q).reference = p.reference
<1> DEFINE unfinished == {lesson \in p.lessons : p.rows[lesson] # "finished"}
<1>1. unfinished # {} => Min(unfinished) \in Lessons
  BY LessonsAreNumbers DEF Page
<1>2. /\ CarryOn(p) \in Page /\ CarryOn(p).on = p.on
      /\ CarryOn(p).reference = p.reference
  <2>1. \/ CarryOn(p) = p
        \/ unfinished # {} /\ CarryOn(p) = [p EXCEPT !.at = Min(unfinished), !.player = "still"]
    BY DEF CarryOn
  <2> HIDE DEF unfinished
  <2> QED
    BY <1>1, <2>1 DEF Page, Player
<1>3. q \in Page /\ q.on = p.on /\ q.reference = p.reference
  BY <1>2
<1> HIDE DEF unfinished
<1> QED
  BY <1>3 DEF Shown, Page, Player

LEMMA PageReadsStep ==
    ASSUME IInv, NEW id,
           \/ Verified(id) \/ Accessed(id) \/ Progressed(id)
           \/ Claimed(id) \/ CodeAnswered(id) \/ Saved(id)
    PROVE  IInv'
<1>1. UNCHANGED <<course, account, money, app, presses>> /\ UNCHANGED browser
  BY DEF Verified, Accessed, Progressed, Claimed, CodeAnswered, Saved
<1>2. BrowserTyped'
  BY <1>1, BrowserSame
<1>3. CASE Verified(id)
  <2>1. Call("access", "page", calls[id].lesson, TRUE) \in Request
        /\ \A done, started, charged :
               Fits(Call("access", "page", calls[id].lesson, TRUE), done, started, charged)
    BY <1>3, CallIs, CallShape DEF Verified
  <2>2. page' \in Page /\ page'.on = page.on /\ page'.reference = page.reference
    BY <1>3, ScreensAre DEF Verified, Page
  <2> QED
    BY <1>1, <1>2, <1>3, <2>1, <2>2, PageReads DEF Verified
<1>4. CASE Accessed(id)
  <2> DEFINE reply == calls[id].reply
             new == IF reply.ok
                    THEN [page EXCEPT !.loaded = TRUE, !.access = reply.access,
                                      !.rows = IF reply.access.signed_in THEN reply.rows ELSE local,
                                      !.celebrated = @ \/ reply.access.certificate]
                    ELSE [page EXCEPT !.rows = local]
  <2>1. reply \in Reply
    BY <1>4, CallIs DEF Accessed
  <2>2. reply.access \in Access /\ reply.rows \in Rows /\ local \in Rows
    BY <2>1, ScreensAre DEF Reply, BrowserTyped
  <2>3. reply.access.certificate \in BOOLEAN
    BY <2>2 DEF Access
  <2>4. new \in Page /\ new.on = page.on /\ new.reference = page.reference
    BY <2>2, <2>3, ScreensAre DEF Page
  <2>5. page' = Shown(page, IF calls[id].flag THEN CarryOn(new) ELSE new)
    BY <1>4 DEF Accessed
  <2> HIDE DEF new
  <2>6. page' \in Page /\ page'.on = page.on /\ page'.reference = page.reference
    BY <2>4, <2>5, CarriedOn, ScreensAre DEF IInv
  <2> QED
    BY <1>1, <1>2, <1>4, <2>6, PageReads DEF Accessed
<1>5. CASE Progressed(id)
  <2>1. Call("access", "page", page.at, FALSE) \in Request
        /\ \A done, started, charged :
               Fits(Call("access", "page", page.at, FALSE), done, started, charged)
    BY ScreensAre, CallShape
  <2>2. page' \in Page /\ page'.on = page.on /\ page'.reference = page.reference
    BY <1>5, ScreensAre DEF Progressed, Page
  <2>3. At(id, "progress", "answered")
    BY <1>5 DEF Progressed
  <2>4. Read(id) \/ ReadThenSend(id, Call("access", "page", page.at, FALSE))
    BY <1>5 DEF Progressed
  <2> QED
    BY <1>1, <1>2, <2>1, <2>2, <2>3, <2>4, PageReads
<1>6. CASE Claimed(id)
  <2>1. page' \in Page /\ page'.on = page.on /\ page'.reference = page.reference
    BY <1>6, ScreensAre DEF Claimed, Page
  <2> QED
    BY <1>1, <1>2, <1>6, <2>1, PageReads DEF Claimed
<1>7. CASE CodeAnswered(id)
  <2>1. calls[id].reply.ok \in BOOLEAN
    BY <1>7, CallIs DEF CodeAnswered, Reply
  <2>2. page' \in Page /\ page'.on = page.on /\ page'.reference = page.reference
    BY <1>7, <2>1, ScreensAre DEF CodeAnswered, Page
  <2> QED
    BY <1>1, <1>2, <1>7, <2>2, PageReads DEF CodeAnswered
<1>8. CASE Saved(id)
  <2>1. page' \in Page /\ page'.on = page.on /\ page'.reference = page.reference
    BY <1>8, ScreensAre DEF Saved, Page
  <2> QED
    BY <1>1, <1>2, <1>8, <2>1, PageReads DEF Saved
<1> QED
  BY <1>3, <1>4, <1>5, <1>6, <1>7, <1>8

\* The claim, the code, the purchase and the lesson to keep are asked for.
LEMMA PageAsks ==
    ASSUME IInv, ClaimCertificate \/ ApplyCode \/ Buy \/ SaveOffline
    PROVE  IInv'
<1>1. UNCHANGED <<course, account, money, app>> /\ UNCHANGED browser /\ Press
  BY DEF ClaimCertificate, ApplyCode, Buy, SaveOffline
<1>2. BrowserTyped' /\ Grows
  BY <1>1, BrowserSame, QuietGrows
<1>3. page' \in Page /\ page'.on = page.on /\ page'.reference = page.reference
  BY ScreensAre DEF ClaimCertificate, ApplyCode, Buy, SaveOffline, Page
<1>4. \E op \in {"claim", "code", "buy", "save"}, flag \in BOOLEAN :
         Send(Call(op, "page", page.at, flag))
  BY ScreensAre DEF ClaimCertificate, ApplyCode, Buy, BuyPanel, LockedLesson, SaveOffline
<1>5. PICK op \in {"claim", "code", "buy", "save"}, flag \in BOOLEAN :
         Send(Call(op, "page", page.at, flag))
  BY <1>4
<1>6. CallsKept
  <2>1. Call(op, "page", page.at, flag) \in Request
        /\ \A done, started, charged :
               Fits(Call(op, "page", page.at, flag), done, started, charged)
    BY ScreensAre, CallShape
  <2>2. Cardinality(DOMAIN calls) < MaxCalls
    BY <1>1 DEF Press
  <2> QED
    BY <1>2, <1>5, <2>1, <2>2, ScreensAre, SendKeeps
<1> QED
  BY <1>1, <1>2, <1>3, <1>6, ScreensAre, PageStep

LEMMA BlankIsPage == Blank \in Page /\ Blank.on = "away"
BY PlainShapes, LessonsAreNumbers, ClassroomAssumption DEF Blank, Page, None, Player

LEMMA ArriveStep ==
    ASSUME IInv, Arrive
    PROVE  IInv'
<1>1. UNCHANGED <<course, account, money, app, presses>> /\ UNCHANGED browser
  BY DEF Arrive
<1>2. BrowserTyped' /\ Grows
  BY <1>1, BrowserSame, QuietGrows
<1>3. Opened \in Page /\ Opened.on = "open"
  BY BlankIsPage, ScreensAre DEF Opened, Page
<1>4. page' \in Page /\ page'.on = "open"
  BY <1>3 DEF Arrive, Page
<1>5. CallsKept
  <2>1. Cardinality(DOMAIN calls) < MaxCalls
    BY DEF Arrive
  <2>2. CASE Send(Call("access", "page", Preview, TRUE))
    <3>1. Call("access", "page", Preview, TRUE) \in Request
          /\ \A done, started, charged :
                 Fits(Call("access", "page", Preview, TRUE), done, started, charged)
      BY ScreensAre, CallShape
    <3> QED
      BY <1>2, <2>1, <2>2, <3>1, ScreensAre, SendKeeps
  <2>3. CASE /\ page.on = "paying"
             /\ Send([Call("verify", "page", Preview, TRUE) EXCEPT !.reply.reference = page.reference])
    <3> DEFINE d == [Call("verify", "page", Preview, TRUE) EXCEPT !.reply.reference = page.reference]
    <3>1. Len(purchases)' = Len(purchases)
      BY <1>1 DEF money
    <3>2. d \in Request /\ Fits(d, Done', Len(purchases), Charged')
      BY <2>3, ScreensAre, VerifyShape
    <3> HIDE DEF d
    <3>3. d \in Request /\ Fits(d, Done', Len(purchases)', Charged')
      BY <3>1, <3>2
    <3>4. Send(d)
      BY <2>3 DEF d
    <3> QED
      BY <1>2, <2>1, <3>3, <3>4, ScreensAre, SendKeeps
  <2> QED
    BY <2>2, <2>3 DEF Arrive
<1> QED
  BY <1>1, <1>2, <1>4, <1>5, PageStep

\* The page goes: to nowhere, or to Paystack with the payment the answer names.
LEMMA PageGoes ==
    ASSUME IInv, NEW id, Leave \/ BuyAnswered(id)
    PROVE  IInv'
<1>1. UNCHANGED <<course, account, money, app>> /\ (Press \/ presses' = presses)
  BY DEF Leave, BuyAnswered
<1>2. Grows
  BY <1>1, QuietGrows
<1>3. CASE Leave
  <2>1. BrowserTyped'
    BY <1>3, ScreensAre DEF Leave, BrowserTyped
  <2>2. CallsKept
    <3>1. calls' = [n \in DOMAIN Orphaned \ {} |-> Orphaned[n]]
      BY <1>3 DEF Leave, Orphaned
    <3>2. \A n \in {} \cap DOMAIN calls : ~Awaited(calls[n])
      OBVIOUS
    <3>3. CallsTyped /\ CallsFit
      BY ScreensAre
    <3> QED
      BY <1>2, <3>1, <3>2, <3>3, OrphanedKeeps, Zenon
  <2>3. page' = Blank
    BY <1>3 DEF Leave
  <2> QED
    BY <1>1, <2>1, <2>2, <2>3, BlankIsPage, PageStep
<1>4. CASE BuyAnswered(id)
  <2>1. BrowserTyped'
    BY <1>4, BrowserSame DEF BuyAnswered
  <2>2. At(id, "buy", "answered")
    BY <1>4 DEF BuyAnswered
  <2>3. CASE calls[id].reply.ok
    <3>1. calls[id].reply.reference \in 1..Len(purchases)
      <4>1. Len(purchases) \in Nat
        BY ScreensAre DEF MoneyTyped
      <4> QED
        BY <2>2, <2>3, <4>1, CallIs DEF Fits
    <3>2. CallsKept
      <4>1. calls' = [n \in DOMAIN Orphaned \ {id} |-> Orphaned[n]]
        BY <1>4, <2>3 DEF BuyAnswered, Without
      <4>2. ~Awaited(calls[id])
        BY <2>2, CallIs
      <4>3. \A n \in {id} \cap DOMAIN calls : ~Awaited(calls[n])
        BY <4>2
      <4>4. CallsTyped /\ CallsFit
        BY ScreensAre
      <4> QED
        BY <1>2, <4>1, <4>3, <4>4, OrphanedKeeps, Zenon
    <3>3. page' = [Blank EXCEPT !.on = "paying", !.reference = calls[id].reply.reference]
      BY <1>4, <2>3 DEF BuyAnswered
    <3>4. calls[id].reply.reference \in 0..MaxPurchases
      BY <2>2, CallIs DEF Reply
    <3>5. page' \in Page /\ page'.reference \in 1..Len(purchases)
      BY <3>1, <3>3, <3>4, BlankIsPage DEF Page
    <3> QED
      BY <1>1, <2>1, <3>2, <3>5, PageStep
  <2>4. CASE ~calls[id].reply.ok
    <3>1. Call("access", "page", page.at, FALSE) \in Request
          /\ \A done, started, charged :
                 Fits(Call("access", "page", page.at, FALSE), done, started, charged)
      BY ScreensAre, CallShape
    <3>2. page' \in Page /\ page'.on = page.on /\ page'.reference = page.reference
      BY <1>4, <2>4, ScreensAre DEF BuyAnswered, Page
    <3>3. ReadThenSend(id, Call("access", "page", page.at, FALSE)) /\ presses' = presses
      BY <1>4, <2>4 DEF BuyAnswered
    <3>4. UNCHANGED <<course, account, money, app, presses>>
      BY <1>4 DEF BuyAnswered
    <3> QED
      BY <2>1, <2>2, <3>1, <3>2, <3>3, <3>4, PageReads
  <2> QED
    BY <2>3, <2>4
<1> QED
  BY <1>3, <1>4

\* Lessons kept for later: the cache, and the list of what is in it.
LEMMA KeepingStep ==
    ASSUME IInv, NEW id, Fetched(id) \/ Listed(id) \/ RemoveSaved \/ Removed(id) \/ PlaySaved
    PROVE  IInv'
<1>1. UNCHANGED <<course, account, money, app>> /\ page' = page
      /\ (Press \/ presses' = presses)
  BY DEF Fetched, Listed, RemoveSaved, Removed, PlaySaved
<1>2. Grows /\ CallsTyped /\ CallsFit
  BY <1>1, QuietGrows, ScreensAre
<1>3. CASE Fetched(id)
  <2>1. At(id, "save", "asked")
    BY <1>3 DEF Fetched
  <2>2. BrowserTyped'
    BY <1>3, <2>1, CallIs, ScreensAre DEF Fetched, BrowserTyped
  <2>3. CASE Move(id, "put")
    <3> DEFINE d == [calls[id] EXCEPT !.stage = "put"]
    <3>1. calls' = [calls EXCEPT ![id] = d]
      BY <2>3 DEF Move
    <3>2. d \in Request /\ Fits(d, Done', Len(purchases)', Charged')
      BY <2>1, CallIs DEF Request, Fits
    <3> HIDE DEF d
    <3> QED
      BY <1>1, <1>2, <2>1, <2>2, <3>1, <3>2, CallIs, MoveKeeps, ScreensAre, PageStep
  <2>4. CASE Refuse(id)
    BY <1>1, <1>2, <2>1, <2>2, <2>4, CallIs, RefuseKeeps, ScreensAre, PageStep
  <2> QED
    BY <1>3, <2>3, <2>4 DEF Fetched
<1>4. CASE Listed(id)
  <2>1. At(id, "save", "put")
    BY <1>4 DEF Listed
  <2>2. BrowserTyped'
    BY <1>4, <2>1, CallIs, ScreensAre DEF Listed, BrowserTyped
  <2>3. [NoReply EXCEPT !.ok = TRUE] \in Reply
    BY PlainShapes DEF Reply
  <2>4. Answer(id, [NoReply EXCEPT !.ok = TRUE])
    BY <1>4 DEF Listed
  <2>5. CallsKept
    BY <1>2, <2>1, <2>3, <2>4, CallIs, AnswerFits
  <2> QED
    BY <1>1, <2>2, <2>5, ScreensAre, PageStep
<1>5. CASE RemoveSaved
  <2> DEFINE d == [Call("remove", "page", page.at, FALSE) EXCEPT !.stage = "gone"]
  <2>1. BrowserTyped'
    BY <1>5, ScreensAre DEF RemoveSaved, BrowserTyped
  <2>2. d \in Request /\ \A done, started, charged : Fits(d, done, started, charged)
    <3>1. Call("remove", "page", page.at, FALSE) \in Request
      BY ScreensAre, CallShape
    <3> QED
      BY <3>1 DEF Request, Fits, Call
  <2>3. Send(d) /\ Cardinality(DOMAIN calls) < MaxCalls
    BY <1>5 DEF RemoveSaved, Press
  <2> HIDE DEF d
  <2>4. CallsKept
    BY <1>2, <2>2, <2>3, SendKeeps
  <2> QED
    BY <1>1, <2>1, <2>4, ScreensAre, PageStep
<1>6. CASE Removed(id)
  <2>1. BrowserTyped'
    BY <1>6, ScreensAre DEF Removed, BrowserTyped
  <2>2. At(id, "remove", "gone") /\ Read(id) /\ presses' = presses
    BY <1>6 DEF Removed
  <2> QED
    BY <1>1, <2>1, <2>2, ScreensAre, PageReads
<1>7. CASE PlaySaved
  <2>1. BrowserTyped'
    BY <1>7, ScreensAre DEF PlaySaved, BrowserTyped
  <2>2. calls' = calls
    BY <1>7 DEF PlaySaved
  <2> QED
    BY <1>1, <1>2, <2>1, <2>2, SameKeeps, ScreensAre, PageStep
<1> QED
  BY <1>3, <1>4, <1>5, <1>6, <1>7

-----------------------------------------------------------------------------
(* The app's steps *)

LEMMA AppReads ==
    ASSUME IInv, NEW id,
           AppAccessed(id) \/ AppReported(id) \/ AppBuyAnswered(id) \/ AppVerified(id)
    PROVE  IInv'
<1>1. UNCHANGED <<course, account, money, browser, page, presses>>
  BY DEF AppAccessed, AppReported, AppBuyAnswered, AppVerified
<1>2. UNCHANGED <<account, money>>
  BY <1>1
<1>3. Grows /\ CallsTyped /\ CallsFit
  BY <1>2, QuietGrows, ScreensAre
<1>4. /\ id \in DOMAIN calls /\ ~Awaited(calls[id])
      /\ calls[id].reply \in Reply /\ Fits(calls[id], Done, Len(purchases), Charged)
      /\ calls[id].stage = "answered"
  BY CallIs DEF AppAccessed, AppReported, AppBuyAnswered, AppVerified
<1>5. CallsKept
  <2>1. CASE Read(id)
    BY <1>3, <1>4, <2>1, ReadKeeps
  <2>2. CASE ReadThenSend(id, Call("access", "app", 1, FALSE))
    <3>1. Call("access", "app", 1, FALSE) \in Request
          /\ \A done, started, charged :
                 Fits(Call("access", "app", 1, FALSE), done, started, charged)
      BY LessonsAreNumbers, CallShape
    <3> QED
      BY <1>3, <1>4, <2>2, <3>1, ReadThenSendKeeps
  <2> QED
    BY <2>1, <2>2 DEF AppAccessed, AppReported, AppBuyAnswered, AppVerified
<1>6. app' \in App /\ app'.reference \in 0..Len(purchases)
  <2>1. calls[id].reply.access \in Access /\ calls[id].reply.reference \in 0..MaxPurchases
        /\ calls[id].reply.ok \in BOOLEAN
    BY <1>4 DEF Reply
  <2>2. CASE AppBuyAnswered(id)
    <3>1. calls[id].reply.reference \in 0..Len(purchases)
      BY <1>4, <2>2 DEF AppBuyAnswered, At, Fits
    <3> QED
      BY <2>1, <2>2, <3>1, ScreensAre DEF AppBuyAnswered, App
  <2>3. CASE AppAccessed(id) \/ AppReported(id) \/ AppVerified(id)
    BY <2>1, <2>3, ScreensAre DEF AppAccessed, AppReported, AppVerified, App
  <2> QED
    BY <2>2, <2>3
<1> QED
  BY <1>1, <1>5, <1>6, AppStep

LEMMA AppAsks ==
    ASSUME IInv, AppReport \/ AppBuys \/ AppComesBack \/ AppSaves \/ AppForgets
    PROVE  IInv'
<1>1. UNCHANGED <<course, account, money, browser, page>> /\ (Press \/ presses' = presses)
  BY DEF AppReport, AppBuys, AppComesBack, AppSaves, AppForgets
<1>2. UNCHANGED <<account, money>>
  BY <1>1
<1>3. Grows /\ CallsTyped /\ CallsFit
  BY <1>2, QuietGrows, ScreensAre
<1>4. app' \in App /\ app'.reference \in 0..Len(purchases)
  <2>1. 0 \in 0..MaxPurchases /\ 0 \in 0..Len(purchases)
    BY ScreensAre, ClassroomAssumption DEF MoneyTyped
  <2>2. CASE AppReport \/ AppBuys \/ AppComesBack
    BY <2>1, <2>2, ScreensAre DEF AppReport, AppBuys, AppComesBack, App
  <2>3. CASE AppSaves \/ AppForgets
    BY <2>3, ScreensAre DEF AppSaves, AppForgets, App
  <2> QED
    BY <2>2, <2>3
<1>5. CallsKept
  <2>1. CASE AppSaves \/ AppForgets
    BY <1>3, <2>1, SameKeeps DEF AppSaves, AppForgets
  <2>2. CASE AppReport
    <3>1. PICK lesson \in shown, over \in BOOLEAN : Send(Call("progress", "app", lesson, over))
      BY <2>2 DEF AppReport
    <3>2. lesson \in Lessons /\ Cardinality(DOMAIN calls) < MaxCalls
      BY <2>2, ScreensAre DEF AppReport, Press
    <3>3. Call("progress", "app", lesson, over) \in Request
          /\ \A done, started, charged :
                 Fits(Call("progress", "app", lesson, over), done, started, charged)
      BY <3>2, CallShape
    <3> QED
      BY <1>3, <3>1, <3>2, <3>3, SendKeeps
  <2>3. CASE AppBuys
    <3>1. Cardinality(DOMAIN calls) < MaxCalls /\ Send(Call("buy", "app", 1, FALSE))
      BY <2>3 DEF AppBuys, Press
    <3>2. Call("buy", "app", 1, FALSE) \in Request
          /\ \A done, started, charged :
                 Fits(Call("buy", "app", 1, FALSE), done, started, charged)
      BY LessonsAreNumbers, CallShape
    <3> QED
      BY <1>3, <3>1, <3>2, SendKeeps
  <2>4. CASE AppComesBack
    <3> DEFINE d == [Call("verify", "app", 1, FALSE) EXCEPT !.reply.reference = app.reference]
    <3>1. Len(purchases)' = Len(purchases)
      BY <1>1 DEF money
    <3>2. app.reference \in 1..Len(purchases)
      BY <2>4, ScreensAre DEF AppComesBack, MoneyTyped
    <3>3. d \in Request /\ Fits(d, Done', Len(purchases), Charged')
      BY <3>2, ScreensAre, LessonsAreNumbers, VerifyShape
    <3>4. Send(d) /\ Cardinality(DOMAIN calls) < MaxCalls
      BY <2>4 DEF AppComesBack
    <3> HIDE DEF d
    <3>5. d \in Request /\ Fits(d, Done', Len(purchases)', Charged')
      BY <3>1, <3>3
    <3> QED
      BY <1>3, <3>4, <3>5, SendKeeps
  <2> QED
    BY <2>1, <2>2, <2>3, <2>4
<1> QED
  BY <1>1, <1>4, <1>5, AppStep

-----------------------------------------------------------------------------
(* The server's steps: what may be watched, progress, certificates *)

LEMMA AllFinishedMeansEach ==
    ASSUME AccountTyped, NEW lessons \in SUBSET Lessons
    PROVE  AllFinished(lessons) <=> lessons \subseteq Done
<1>1. IsFiniteSet(lessons) /\ FinishedOf(lessons) \subseteq lessons
  BY LessonsAreNumbers, FS_Subset DEF FinishedOf
<1>2. FinishedOf(lessons) = lessons <=> lessons \subseteq Done
  BY DEF FinishedOf, Done
<1>3. Cardinality(FinishedOf(lessons)) = Cardinality(lessons) => FinishedOf(lessons) = lessons
  BY <1>1, FS_Subset
<1> QED
  BY <1>2, <1>3 DEF AllFinished

\* The screens stay as they are.
LEMMA ScreensSame ==
    ASSUME IInv, UNCHANGED <<browser, page, app, presses>>,
           Len(purchases)' \in Nat, Len(purchases) <= Len(purchases)'
    PROVE  BrowserTyped' /\ ScreensTyped'
<1>1. BrowserTyped'
  BY BrowserSame
<1>2. Len(purchases) \in Nat
  BY ScreensAre DEF MoneyTyped
<1> QED
  BY <1>1, <1>2, ScreensAre DEF IInv, ScreensTyped

\* An answer that names no payment.
LEMMA PlainAnswer ==
    ASSUME CallsTyped, CallsFit, Grows, NEW id \in DOMAIN calls,
           NEW reply \in Reply, Answer(id, reply), reply.reference = 0, ~reply.ok \/ calls[id].op # "buy"
    PROVE  /\ CallsTyped' /\ CallsFit'
           /\ ~Awaited(calls[id]) => CallsKept
<1>1. 0 \in 0..(Len(purchases)')
  BY DEF Grows
<1> QED
  BY <1>1, AnswerFits

LEMMA ServeQuietly ==
    ASSUME IInv, NEW id,
           ServeAccess(id) \/ ServeCode(id) \/ ServeVerify(id) \/ Unanswered(id)
    PROVE  IInv'
<1>1. UNCHANGED <<course, account, money, browser, page, app, presses>>
  BY DEF ServeAccess, ServeCode, ServeVerify, Unanswered
<1>2. Grows /\ CallsTyped /\ CallsFit
  BY <1>1, QuietGrows, ScreensAre
<1>3. CallsKept
  <2>1. CASE ServeAccess(id)
    <3>1. At(id, "access", "asked")
      BY <2>1 DEF ServeAccess
    <3> DEFINE reply == [NoReply EXCEPT !.ok = TRUE, !.access = CourseAccess(Session(calls[id])),
                                        !.rows = IF Session(calls[id]) THEN rows ELSE Fresh]
    <3>2. Session(calls[id]) \in BOOLEAN
      BY ScreensAre DEF Session, BrowserTyped
    <3>3. CourseAccess(Session(calls[id])) \in Access /\ rows \in Rows
      BY <3>2, AccessShape DEF IInv, AccountTyped
    <3>4. reply \in Reply /\ reply.reference = 0
      BY <3>3, PlainShapes DEF Reply, NoReply
    <3>5. Answer(id, reply)
      BY <2>1 DEF ServeAccess
    <3> HIDE DEF reply
    <3> QED
      BY <1>2, <3>1, <3>4, <3>5, CallIs, PlainAnswer
  <2>2. CASE ServeCode(id)
    <3>1. At(id, "code", "asked")
      BY <2>2 DEF ServeCode
    <3>2. [NoReply EXCEPT !.ok = TRUE] \in Reply /\ [NoReply EXCEPT !.ok = TRUE].reference = 0
      BY PlainShapes DEF Reply, NoReply
    <3>3. Answer(id, [NoReply EXCEPT !.ok = TRUE]) \/ Refuse(id)
      BY <2>2 DEF ServeCode
    <3>4. id \in DOMAIN calls /\ ~Awaited(calls[id]) /\ calls[id].op # "buy"
      BY <3>1, CallIs
    <3>5. CASE Answer(id, [NoReply EXCEPT !.ok = TRUE])
      BY <1>2, <3>2, <3>4, <3>5, PlainAnswer
    <3>6. CASE Refuse(id)
      BY <1>2, <3>4, <3>6, RefuseKeeps
    <3> QED
      BY <3>3, <3>5, <3>6
  <2>3. CASE ServeVerify(id)
    <3> DEFINE n == calls[id].reply.reference
               reply == [NoReply EXCEPT !.ok = purchases[n].status = "paid"]
               d == [calls[id] EXCEPT !.stage = "heard", !.reply.charge = purchases[n].charge]
    <3>1. At(id, "verify", "asked")
      BY <2>3 DEF ServeVerify
    <3>2. n \in 1..Len(purchases) /\ purchases[n] \in Purchase
      BY <3>1, CallIs, ScreensAre DEF Fits, MoneyTyped
    <3>3. reply \in Reply /\ reply.reference = 0
      BY PlainShapes DEF Reply, NoReply
    <3>4. purchases[n].charge \in Charges
      BY <3>2 DEF Purchase, Charges
    <3>5. d \in Request
      <4>1. [calls[id].reply EXCEPT !.charge = purchases[n].charge] \in Reply
        BY <3>1, <3>4, CallIs DEF Reply
      <4> QED
        BY <3>1, <4>1, CallIs DEF Request
    <3>6. Fits(d, Done, Len(purchases), Charged)
      <4>1. d.op = "verify" /\ d.stage = "heard" /\ d.reply.reference = n
            /\ d.reply.charge = purchases[n].charge
        BY <3>1, CallIs DEF Request, Reply
      <4>2. n \in DOMAIN purchases
        BY <3>2, ScreensAre DEF MoneyTyped
      <4> HIDE DEF d, n
      <4> QED
        BY <3>2, <4>1, <4>2 DEF Fits, Charged
    <3>7. Fits(d, Done', Len(purchases)', Charged')
      BY <1>2, <3>6, FitsGrows
    <3>8. Answer(id, reply) \/ Refuse(id) \/ calls' = [calls EXCEPT ![id] = d]
      BY <2>3 DEF ServeVerify
    <3> HIDE DEF d, reply
    <3>9. CASE Answer(id, reply)
      BY <1>2, <3>1, <3>3, <3>9, CallIs, PlainAnswer
    <3>10. CASE Refuse(id)
      BY <1>2, <3>1, <3>10, CallIs, RefuseKeeps
    <3>11. CASE calls' = [calls EXCEPT ![id] = d]
      BY <1>2, <3>1, <3>5, <3>7, <3>11, CallIs, MoveKeeps
    <3> QED
      BY <3>8, <3>9, <3>10, <3>11
  <2>4. CASE Unanswered(id)
    <3>1. id \in DOMAIN calls /\ ~Awaited(calls[id]) /\ Refuse(id)
      BY <2>4 DEF Unanswered, Awaited
    <3> QED
      BY <1>2, <3>1, RefuseKeeps
  <2> QED
    BY <2>1, <2>2, <2>3, <2>4
<1>4. BrowserTyped' /\ ScreensTyped'
  BY <1>1, <1>2, ScreensSame DEF Grows
<1> QED
  BY <1>1, <1>3, <1>4, QuietStep

\* The account's progress, name and certificate.
LEMMA AccountStep ==
    ASSUME IInv, UNCHANGED <<course, money, browser, page, app, presses>>,
           AccountTyped', CertificateIsEarned', EarnedMeansGiven', CallsTyped', CallsFit'
    PROVE  IInv'
<1>1. UNCHANGED <<shown, paid, changed, purchases, uses>>
  BY DEF course, money
<1>2. CourseTyped' /\ MoneyTyped' /\ ChargedMeansUnlocked'
  BY <1>1 DEF IInv, CourseTyped, MoneyTyped, ChargedMeansUnlocked
<1>3. BrowserTyped' /\ ScreensTyped'
  <2>1. Len(purchases)' \in Nat /\ Len(purchases) <= Len(purchases)'
    BY <1>1, ScreensAre DEF MoneyTyped
  <2> QED
    BY <2>1, ScreensSame
<1> QED
  BY <1>2, <1>3 DEF IInv

\* Finished lessons stay finished.
LEMMA FinishedStays ==
    ASSUME IInv, NEW lesson \in Lessons, NEW over \in BOOLEAN,
           UNCHANGED <<certificate, purchases>>,
           rows' = [rows EXCEPT ![lesson] = Advanced(@, over)]
    PROVE  Grows /\ CertificateIsEarned' /\ rows' \in Rows
<1>1. rows \in Rows /\ certificate \subseteq Lessons
  BY DEF IInv, AccountTyped
<1>2. rows' \in Rows
  BY <1>1, AdvancedShape
<1>3. \A other \in Lessons : rows[other] = "finished" => rows'[other] = "finished"
  BY <1>1 DEF Rows, Advanced
<1>4. Done \subseteq Done'
  BY <1>3 DEF Done, FinishedOf
<1>5. CertificateIsEarned'
  BY <1>1, <1>3 DEF IInv, CertificateIsEarned, FinishedOf
<1>6. Len(purchases) \in Nat
  BY ScreensAre DEF MoneyTyped
<1> QED
  BY <1>2, <1>4, <1>5, <1>6 DEF Grows, Charged

LEMMA NowAwaited ==
    ASSUME IInv, NEW id, NEW op \in {"progress", "claim"}, At(id, op, "asked"), Grows, Move(id, "kept")
    PROVE  CallsTyped' /\ CallsFit' /\ EarnedMeansGiven'
<1> DEFINE d == [calls[id] EXCEPT !.stage = "kept"]
<1>1. id \in DOMAIN calls /\ calls[id] \in Request /\ calls[id].op = op
  BY CallIs
<1>2. d \in Request /\ Awaited(d) /\ Fits(d, Done', Len(purchases)', Charged')
  BY <1>1 DEF Request, Awaited, Fits
<1>3. calls' = [calls EXCEPT ![id] = d]
  BY DEF Move
<1> HIDE DEF d
<1>4. CallsKept
  BY <1>1, <1>2, <1>3, MoveKeeps DEF IInv
<1>5. id \in DOMAIN calls' /\ Awaited(calls'[id])
  BY <1>1, <1>2, <1>3
<1> QED
  BY <1>4, <1>5 DEF CallsKept, EarnedMeansGiven, Awaited

LEMMA ServeProgressStep ==
    ASSUME IInv, NEW id, ServeProgress(id)
    PROVE  IInv'
<1>1. At(id, "progress", "asked") /\ UNCHANGED <<course, named, certificate, money, browser, page, app, presses>>
  BY DEF ServeProgress
<1>2. UNCHANGED <<course, money, browser, page, app, presses>> /\ UNCHANGED <<named, certificate, purchases>>
  BY <1>1 DEF money
<1>3. CASE /\ calls[id].lesson \in shown
           /\ rows' = [rows EXCEPT ![calls[id].lesson] = Advanced(@, calls[id].flag)]
           /\ Move(id, "kept")
  <2>1. calls[id].lesson \in Lessons /\ calls[id].flag \in BOOLEAN
    BY <1>1, CallIs
  <2>2. Grows /\ CertificateIsEarned' /\ rows' \in Rows
    BY <1>2, <1>3, <2>1, FinishedStays
  <2>3. AccountTyped'
    BY <1>2, <2>2 DEF IInv, AccountTyped
  <2> QED
    BY <1>1, <1>2, <1>3, <2>2, <2>3, NowAwaited, AccountStep
<1>4. CASE Refuse(id) /\ UNCHANGED rows
  <2>1. UNCHANGED <<account, money>> /\ UNCHANGED <<course, account, money>>
    BY <1>1, <1>4 DEF account
  <2>2. Grows
    BY <2>1, QuietGrows
  <2>3. CallsKept
    BY <1>1, <1>4, <2>2, CallIs, RefuseKeeps DEF IInv
  <2>4. BrowserTyped' /\ ScreensTyped'
    BY <1>2, <2>2, ScreensSame DEF Grows
  <2> QED
    BY <2>1, <2>3, <2>4, QuietStep
<1> QED
  BY <1>3, <1>4 DEF ServeProgress

LEMMA ServeClaimStep ==
    ASSUME IInv, NEW id, ServeClaim(id)
    PROVE  IInv'
<1>1. At(id, "claim", "asked") /\ UNCHANGED <<course, rows, certificate, money, browser, page, app, presses>>
  BY DEF ServeClaim
<1>2. UNCHANGED <<course, money, browser, page, app, presses>> /\ UNCHANGED <<rows, certificate, purchases>>
  BY <1>1 DEF money
<1>3. Grows
  <2>1. Len(purchases) \in Nat
    BY ScreensAre DEF MoneyTyped
  <2> QED
    BY <1>2, <2>1 DEF Grows, Done, FinishedOf, Charged
<1>4. CASE named' = TRUE /\ Move(id, "kept")
  <2>1. AccountTyped' /\ CertificateIsEarned'
    BY <1>2, <1>4 DEF IInv, AccountTyped, CertificateIsEarned, FinishedOf
  <2> QED
    BY <1>1, <1>2, <1>3, <1>4, <2>1, NowAwaited, AccountStep
<1>5. CASE Refuse(id) /\ UNCHANGED named
  <2>1. UNCHANGED <<course, account, money>>
    BY <1>1, <1>5 DEF account
  <2>2. CallsKept
    BY <1>1, <1>3, <1>5, CallIs, RefuseKeeps DEF IInv
  <2>3. BrowserTyped' /\ ScreensTyped'
    BY <1>2, <1>3, ScreensSame DEF Grows
  <2> QED
    BY <2>1, <2>2, <2>3, QuietStep
<1> QED
  BY <1>4, <1>5 DEF ServeClaim

LEMMA JudgeStep ==
    ASSUME IInv, NEW id, Judge(id)
    PROVE  IInv'
<1>1. UNCHANGED <<course, account, money, browser, page, app, presses>>
  BY DEF Judge
<1>2. Grows /\ CallsTyped /\ CallsFit
  BY <1>1, QuietGrows, ScreensAre
<1>3. id \in DOMAIN calls /\ calls[id] \in Request /\ calls[id].op \in {"progress", "claim"}
  BY <1>2 DEF Judge, At, CallsTyped
<1>4. UNCHANGED <<shown, changed, rows, named, certificate>>
  BY <1>1 DEF course, account
<1>5. CASE AllFinished(shown) /\ certificate = {} /\ named
  <2> DEFINE d == [calls[id] EXCEPT !.stage = "earned", !.reply.lessons = shown]
  <2>1. calls' = [calls EXCEPT ![id] = d]
    BY <1>5 DEF Judge
  <2>2. shown \in SUBSET Lessons /\ shown # {} /\ shown \subseteq Done'
    <3>1. shown \in SUBSET Lessons /\ shown # {} /\ AccountTyped
      BY DEF IInv, CourseTyped
    <3> QED
      BY <1>2, <1>5, <3>1, AllFinishedMeansEach DEF Grows
  <2>3. d \in Request
    <3>1. [calls[id].reply EXCEPT !.lessons = shown] \in Reply
      BY <1>3, <2>2 DEF Request, Reply
    <3> QED
      BY <1>3, <3>1 DEF Request
  <2>4. d.stage = "earned" /\ d.reply.lessons = shown /\ d.op \in {"progress", "claim"}
    BY <1>3 DEF Request, Reply
  <2> HIDE DEF d
  <2>5. Awaited(d) /\ Fits(d, Done', Len(purchases)', Charged')
    BY <2>2, <2>4 DEF Awaited, Fits
  <2>6. CallsKept
    BY <1>2, <1>3, <2>1, <2>3, <2>5, MoveKeeps
  <2>7. BrowserTyped' /\ ScreensTyped'
    BY <1>1, <1>2, ScreensSame DEF Grows
  <2> QED
    BY <1>1, <2>6, <2>7, QuietStep
<1>6. CASE ~(AllFinished(shown) /\ certificate = {} /\ named)
  <2>1. PICK reply \in Reply : Answer(id, reply) /\ reply.reference = 0
    <3>1. \A flag \in BOOLEAN : /\ [NoReply EXCEPT !.ok = flag] \in Reply
                                /\ [NoReply EXCEPT !.ok = flag].reference = 0
      BY PlainShapes DEF Reply, NoReply
    <3>2. Given \in Reply /\ Given.reference = 0
      BY PlainShapes DEF Given, Reply, NoReply
    <3>3. \A op : NoName(op) \in Reply /\ NoName(op).reference = 0
      BY PlainShapes DEF NoName, Reply, NoReply
    <3>4. \/ Answer(id, Given) \/ Answer(id, NoName(calls[id].op))
          \/ Answer(id, [NoReply EXCEPT !.ok = calls[id].op = "progress"])
      BY <1>6 DEF Judge
    <3> QED
      BY <3>1, <3>2, <3>3, <3>4
  <2>2. CallsTyped' /\ CallsFit'
    BY <1>2, <1>3, <2>1, PlainAnswer
  <2>3. AccountTyped' /\ CertificateIsEarned'
    BY <1>4 DEF IInv, AccountTyped, CertificateIsEarned, FinishedOf
  <2>4. EarnedMeansGiven'
    BY <1>4, <1>6 DEF EarnedMeansGiven, AllFinished, FinishedOf
  <2>5. UNCHANGED <<course, money, browser, page, app, presses>>
    BY <1>1
  <2> QED
    BY <2>2, <2>3, <2>4, <2>5, AccountStep
<1> QED
  BY <1>5, <1>6

LEMMA AwardStep ==
    ASSUME IInv, NEW id, Award(id)
    PROVE  IInv'
<1>1. UNCHANGED <<course, money, browser, page, app, presses>> /\ UNCHANGED <<rows, named, purchases>>
  BY DEF Award, money
<1>2. Grows /\ CallsTyped /\ CallsFit
  <2>1. Len(purchases) \in Nat
    BY ScreensAre DEF MoneyTyped
  <2> QED
    BY <1>1, <2>1, ScreensAre DEF Grows, Done, FinishedOf, Charged
<1>3. /\ id \in DOMAIN calls /\ calls[id] \in Request /\ calls[id].op \in {"progress", "claim"}
      /\ calls[id].stage = "earned" /\ Fits(calls[id], Done, Len(purchases), Charged)
  BY <1>2 DEF Award, At, CallsTyped, CallsFit
<1>4. certificate' # {} /\ certificate' \subseteq Done
  <2>1. calls[id].reply.lessons # {} /\ calls[id].reply.lessons \subseteq Done
    BY <1>3 DEF Fits
  <2>2. certificate \subseteq Done
    BY DEF IInv, AccountTyped, CertificateIsEarned, Done, FinishedOf
  <2> QED
    BY <2>1, <2>2 DEF Award
<1>5. AccountTyped' /\ CertificateIsEarned'
  BY <1>1, <1>4 DEF IInv, AccountTyped, CertificateIsEarned, Done, FinishedOf
<1>6. EarnedMeansGiven'
  BY <1>4 DEF EarnedMeansGiven
<1>7. CallsTyped' /\ CallsFit'
  <2>1. Given \in Reply /\ Given.reference = 0
    BY PlainShapes DEF Given, Reply, NoReply
  <2>2. Answer(id, Given)
    BY DEF Award
  <2> QED
    BY <1>2, <1>3, <2>1, <2>2, PlainAnswer
<1> QED
  BY <1>1, <1>5, <1>6, <1>7, AccountStep

-----------------------------------------------------------------------------
(* The server's steps: payments *)

\* The purchases the promo code is counted for.
CodedPaid == {n \in DOMAIN purchases : purchases[n].coded /\ purchases[n].status = "paid"}

LEMMA PurchasesAre ==
    ASSUME IInv
    PROVE  /\ Len(purchases) \in Nat /\ DOMAIN purchases = 1..Len(purchases)
           /\ \A n \in DOMAIN purchases : purchases[n] \in Purchase
           /\ IsFiniteSet(CodedPaid) /\ uses = Cardinality(CodedPaid)
           /\ uses \in 0..MaxPurchases
<1>1. /\ Len(purchases) \in Nat /\ DOMAIN purchases = 1..Len(purchases)
      /\ \A n \in DOMAIN purchases : purchases[n] \in Purchase
  BY ScreensAre DEF MoneyTyped
<1>2. IsFiniteSet(DOMAIN purchases) /\ Cardinality(DOMAIN purchases) = Len(purchases)
  BY <1>1, FS_Interval
<1>3. CodedPaid \subseteq DOMAIN purchases
  BY DEF CodedPaid
<1>4. IsFiniteSet(CodedPaid) /\ Cardinality(CodedPaid) <= Len(purchases)
  BY <1>2, <1>3, FS_Subset
<1>5. Cardinality(CodedPaid) \in Nat
  BY <1>4, FS_CardinalityType
<1>6. uses = Cardinality(CodedPaid)
  BY DEF IInv, ChargedMeansUnlocked, CodedPaid
<1>7. Len(purchases) <= MaxPurchases
  BY ScreensAre DEF MoneyTyped
<1> QED
  BY <1>1, <1>4, <1>5, <1>6, <1>7, ClassroomAssumption

LEMMA MoneyStep ==
    ASSUME IInv, UNCHANGED <<course, account, browser, page, app, presses>>,
           MoneyTyped', ChargedMeansUnlocked', Len(purchases) <= Len(purchases)', CallsKept
    PROVE  IInv'
<1>1. UNCHANGED <<shown, paid, changed, rows, named, certificate>>
  BY DEF course, account
<1>2. CourseTyped' /\ AccountTyped' /\ CertificateIsEarned'
  BY <1>1 DEF IInv, CourseTyped, AccountTyped, CertificateIsEarned, FinishedOf
<1>3. EarnedMeansGiven'
  BY <1>1 DEF IInv, EarnedMeansGiven, AllFinished, FinishedOf, CallsKept, SomeAwaited, Awaited
<1>4. BrowserTyped' /\ ScreensTyped'
  <2>1. Len(purchases)' \in Nat
    BY DEF MoneyTyped
  <2> QED
    BY <2>1, ScreensSame
<1> QED
  BY <1>2, <1>3, <1>4 DEF IInv, CallsKept

\* A payment is confirmed, by whomever it is told of: once for the promo code, and
\* as paid only when Paystack has the money.
LEMMA ConfirmedIs ==
    ASSUME IInv, NEW n \in DOMAIN purchases, NEW charge \in Charges, NEW told \in BOOLEAN,
           charge = "success" => purchases[n].charge = "success",
           told => (purchases[n].told \/ charge = "success"),
           purchases' = [purchases EXCEPT ![n] = [Confirmed(purchases[n], charge) EXCEPT !.told = told]],
           uses' = Counted(purchases[n], charge)
    PROVE  /\ MoneyTyped' /\ ChargedMeansUnlocked'
           /\ Len(purchases)' = Len(purchases) /\ Charged' = Charged
<1> DEFINE old == purchases[n]
           new == [Confirmed(old, charge) EXCEPT !.told = told]
<1>1. old \in Purchase
  BY PurchasesAre
<1>2. /\ new \in Purchase
      /\ new.charge = old.charge /\ new.coded = old.coded /\ new.told = told
      /\ new.status = "paid" <=> (old.status = "paid" \/ charge = "success")
  BY <1>1 DEF Purchase, Confirmed
<1>3. /\ old.told => old.status = "paid"
      /\ old.status = "paid" => old.charge = "success"
  BY DEF IInv, ChargedMeansUnlocked
<1>4. uses' = IF old.status # "paid" /\ charge = "success" /\ old.coded THEN uses + 1 ELSE uses
  BY DEF Counted
<1>5. purchases' = [purchases EXCEPT ![n] = new]
  OBVIOUS
<1> HIDE DEF new
<1>6. /\ DOMAIN purchases' = DOMAIN purchases /\ purchases'[n] = new
      /\ \A other \in DOMAIN purchases \ {n} : purchases'[other] = purchases[other]
  BY <1>5
<1>7. MoneyTyped' /\ Len(purchases)' = Len(purchases)
  BY <1>2, <1>5, ScreensAre DEF MoneyTyped
<1>8. Charged' = Charged
  BY <1>2, <1>6 DEF Charged
<1>9. \A other \in DOMAIN purchases' :
          /\ purchases'[other].told => purchases'[other].status = "paid"
          /\ purchases'[other].status = "paid" => purchases'[other].charge = "success"
  <2>1. /\ new.told => new.status = "paid"
        /\ new.status = "paid" => new.charge = "success"
    BY <1>2, <1>3
  <2> QED
    BY <1>6, <2>1 DEF IInv, ChargedMeansUnlocked
<1>10. uses' = Cardinality(CodedPaid')
  <2>1. CASE old.status # "paid" /\ charge = "success" /\ old.coded
    <3>1. n \notin CodedPaid /\ CodedPaid' = CodedPaid \cup {n}
      BY <1>2, <1>6, <2>1 DEF CodedPaid
    <3>2. Cardinality(CodedPaid \cup {n}) = Cardinality(CodedPaid) + 1
      BY <3>1, PurchasesAre, FS_AddElement
    <3> QED
      BY <1>4, <2>1, <3>1, <3>2, PurchasesAre
  <2>2. CASE ~(old.status # "paid" /\ charge = "success" /\ old.coded)
    <3>1. (new.coded /\ new.status = "paid") <=> (old.coded /\ old.status = "paid")
      BY <1>1, <1>2, <2>2 DEF Purchase
    <3>2. CodedPaid' = CodedPaid
      BY <1>6, <3>1 DEF CodedPaid
    <3> QED
      BY <1>4, <2>2, <3>2, PurchasesAre
  <2> QED
    BY <2>1, <2>2
<1> QED
  BY <1>7, <1>8, <1>9, <1>10 DEF ChargedMeansUnlocked, CodedPaid

LEMMA SameChargesGrow ==
    ASSUME IInv, UNCHANGED account, Len(purchases)' \in Nat, Len(purchases) <= Len(purchases)',
           Charged \subseteq Charged'
    PROVE  Grows
<1>1. rows' = rows
  BY DEF account
<1> QED
  BY <1>1, PurchasesAre DEF Grows, Done, FinishedOf

LEMMA ConfirmVerifiedStep ==
    ASSUME IInv, NEW id, ConfirmVerified(id)
    PROVE  IInv'
<1> DEFINE n == calls[id].reply.reference
           charge == calls[id].reply.charge
           reply == [NoReply EXCEPT !.ok = purchases'[n].status = "paid"]
<1>1. At(id, "verify", "heard") /\ UNCHANGED <<course, account, browser, page, app, presses>>
      /\ purchases' = [purchases EXCEPT ![n] = Confirmed(@, charge)]
      /\ uses' = Counted(purchases[n], charge) /\ Answer(id, reply)
  BY DEF ConfirmVerified
<1>2. /\ n \in DOMAIN purchases /\ charge \in Charges
      /\ charge = "success" => purchases[n].charge = "success"
  <2>1. Fits(calls[id], Done, Len(purchases), Charged) /\ calls[id].reply \in Reply
        /\ calls[id].op = "verify" /\ calls[id].stage = "heard"
    BY <1>1, CallIs
  <2>2. n \in 1..Len(purchases) /\ (charge = "success" => n \in Charged)
    BY <2>1 DEF Fits
  <2> QED
    BY <2>1, <2>2, PurchasesAre DEF Reply, Charged
<1>3. /\ purchases[n] \in Purchase
      /\ purchases[n].told \in BOOLEAN
      /\ Confirmed(purchases[n], charge)
            = [Confirmed(purchases[n], charge) EXCEPT !.told = purchases[n].told]
  <2>1. purchases[n] \in Purchase
    BY <1>2, PurchasesAre
  <2> QED
    BY <2>1 DEF Purchase, Confirmed
<1>4. purchases' = [purchases EXCEPT ![n] =
                       [Confirmed(purchases[n], charge) EXCEPT !.told = purchases[n].told]]
  BY <1>1, <1>3
<1>5. reply \in Reply /\ reply.reference = 0
  BY PlainShapes DEF Reply, NoReply
<1>6. id \in DOMAIN calls /\ ~Awaited(calls[id]) /\ calls[id].op # "buy"
  BY <1>1, CallIs
<1>7. uses' = Counted(purchases[n], charge) /\ Answer(id, reply)
      /\ UNCHANGED <<course, account, browser, page, app, presses>>
  BY <1>1
<1> HIDE DEF n, charge, reply
<1>8. /\ MoneyTyped' /\ ChargedMeansUnlocked'
      /\ Len(purchases)' = Len(purchases) /\ Charged' = Charged
  BY <1>2, <1>3, <1>4, <1>7, ConfirmedIs
<1>9. Grows
  BY <1>7, <1>8, PurchasesAre, SameChargesGrow
<1>10. CallsKept
  BY <1>5, <1>6, <1>7, <1>9, ScreensAre, PlainAnswer
<1> QED
  BY <1>7, <1>8, <1>10, PurchasesAre, MoneyStep

LEMMA WebhookStep ==
    ASSUME IInv, NEW n, Webhook(n)
    PROVE  IInv'
<1>1. n \in DOMAIN purchases /\ purchases[n].charge = "success" /\ calls' = calls
      /\ UNCHANGED <<course, account, browser, page, app, presses>>
  BY DEF Webhook
<1>2. /\ purchases' = [purchases EXCEPT ![n] = [Confirmed(purchases[n], "success") EXCEPT !.told = TRUE]]
      /\ uses' = Counted(purchases[n], "success")
  BY DEF Webhook
<1>3. "success" \in Charges /\ TRUE \in BOOLEAN
  BY DEF Charges
<1>4. /\ MoneyTyped' /\ ChargedMeansUnlocked'
      /\ Len(purchases)' = Len(purchases) /\ Charged' = Charged
  BY <1>1, <1>2, <1>3, ConfirmedIs
<1>5. Grows
  BY <1>1, <1>4, PurchasesAre, SameChargesGrow
<1>6. CallsKept
  BY <1>1, <1>5, ScreensAre, SameKeeps
<1> QED
  BY <1>1, <1>4, <1>6, PurchasesAre, MoneyStep

LEMMA PayStep ==
    ASSUME IInv, NEW n, Pay(n)
    PROVE  IInv'
<1>1. n \in DOMAIN purchases /\ purchases[n].charge = "none" /\ calls' = calls /\ uses' = uses
      /\ UNCHANGED <<course, account, browser, page, app, presses>>
  BY DEF Pay
<1>2. PICK charge \in {"success", "failed"} : purchases' = [purchases EXCEPT ![n].charge = charge]
  BY DEF Pay
<1> DEFINE new == [purchases[n] EXCEPT !.charge = charge]
<1>3. purchases[n] \in Purchase
  BY <1>1, PurchasesAre
<1>4. /\ new \in Purchase /\ new.charge = charge /\ new.status = purchases[n].status
      /\ new.told = purchases[n].told /\ new.coded = purchases[n].coded
  BY <1>3 DEF Purchase
<1>5. purchases' = [purchases EXCEPT ![n] = new]
  BY <1>2
<1>6. purchases[n].status # "paid" /\ ~purchases[n].told
  BY <1>1, <1>3 DEF IInv, ChargedMeansUnlocked, Purchase
<1> HIDE DEF new
<1>7. /\ DOMAIN purchases' = DOMAIN purchases /\ purchases'[n] = new
      /\ \A other \in DOMAIN purchases \ {n} : purchases'[other] = purchases[other]
  BY <1>1, <1>5
<1>8. MoneyTyped' /\ Len(purchases)' = Len(purchases)
  BY <1>1, <1>4, <1>5, ScreensAre DEF MoneyTyped
<1>9. Charged \subseteq Charged'
  BY <1>1, <1>7 DEF Charged
<1>10. ChargedMeansUnlocked'
  <2>1. CodedPaid' = CodedPaid
    BY <1>4, <1>6, <1>7 DEF CodedPaid
  <2>2. \A other \in DOMAIN purchases' :
            /\ purchases'[other].told => purchases'[other].status = "paid"
            /\ purchases'[other].status = "paid" => purchases'[other].charge = "success"
    BY <1>4, <1>6, <1>7 DEF IInv, ChargedMeansUnlocked
  <2>3. uses' = Cardinality(CodedPaid')
    BY <1>1, <2>1, PurchasesAre
  <2> QED
    BY <2>2, <2>3 DEF ChargedMeansUnlocked, CodedPaid
<1>11. Grows
  BY <1>1, <1>8, <1>9, PurchasesAre, SameChargesGrow
<1>12. CallsKept
  BY <1>1, <1>11, ScreensAre, SameKeeps
<1> QED
  BY <1>1, <1>8, <1>10, <1>12, PurchasesAre, MoneyStep

LEMMA ServeBuyStep ==
    ASSUME IInv, NEW id, ServeBuy(id)
    PROVE  IInv'
<1>1. At(id, "buy", "asked") /\ UNCHANGED <<course, account, uses, browser, page, app, presses>>
  BY DEF ServeBuy
<1>2. /\ id \in DOMAIN calls /\ ~Awaited(calls[id]) /\ calls[id].flag \in BOOLEAN
      /\ CallsTyped /\ CallsFit
  BY <1>1, CallIs, ScreensAre
<1>3. CASE Refuse(id) /\ UNCHANGED purchases
  <2>1. UNCHANGED <<course, account, money>> /\ UNCHANGED <<browser, page, app, presses>>
    BY <1>1, <1>3 DEF money
  <2>2. Grows
    BY <2>1, QuietGrows
  <2>3. CallsKept
    BY <1>2, <1>3, <2>2, RefuseKeeps
  <2>4. BrowserTyped' /\ ScreensTyped'
    BY <2>1, <2>2, ScreensSame DEF Grows
  <2> QED
    BY <2>1, <2>3, <2>4, QuietStep
<1>4. ASSUME Len(purchases) < MaxPurchases,
             NEW opened \in BOOLEAN,
             purchases' = Append(purchases,
                 [status |-> IF opened THEN "pending" ELSE "failed", coded |-> calls[id].flag,
                  charge |-> IF opened THEN "none" ELSE "refused", told |-> FALSE]),
             IF opened THEN Answer(id, [NoReply EXCEPT !.ok = TRUE, !.reference = Len(purchases) + 1])
             ELSE Refuse(id)
      PROVE  IInv'
  <2> DEFINE new == [status |-> IF opened THEN "pending" ELSE "failed", coded |-> calls[id].flag,
                     charge |-> IF opened THEN "none" ELSE "refused", told |-> FALSE]
             reply == [NoReply EXCEPT !.ok = TRUE, !.reference = Len(purchases) + 1]
  <2>1. new \in Purchase /\ new.status # "paid" /\ ~new.told
    BY <1>2 DEF Purchase
  <2>2. purchases' = Append(purchases, new)
    BY <1>4
  <2> HIDE DEF new
  <2>3. /\ DOMAIN purchases' = DOMAIN purchases \cup {Len(purchases) + 1}
        /\ Len(purchases)' = Len(purchases) + 1 /\ purchases'[Len(purchases) + 1] = new
        /\ \A n \in DOMAIN purchases : purchases'[n] = purchases[n]
    BY <2>1, <2>2, ScreensAre DEF MoneyTyped
  <2>4. MoneyTyped'
    BY <1>4, <2>1, <2>2, ScreensAre, ClassroomAssumption DEF MoneyTyped
  <2>5. ChargedMeansUnlocked'
    <3>1. CodedPaid' = CodedPaid
      BY <2>1, <2>3 DEF CodedPaid
    <3>2. \A n \in DOMAIN purchases' :
              /\ purchases'[n].told => purchases'[n].status = "paid"
              /\ purchases'[n].status = "paid" => purchases'[n].charge = "success"
      BY <2>1, <2>3 DEF IInv, ChargedMeansUnlocked
    <3>3. uses' = Cardinality(CodedPaid')
      BY <1>1, <3>1, PurchasesAre
    <3> QED
      BY <3>2, <3>3 DEF ChargedMeansUnlocked, CodedPaid
  <2>6. Len(purchases)' \in Nat /\ Len(purchases) <= Len(purchases)'
    BY <2>3, PurchasesAre
  <2>7. Grows
    <3>1. Charged \subseteq Charged'
      BY <2>3 DEF Charged
    <3> QED
      BY <1>1, <2>6, <3>1, SameChargesGrow
  <2>8. CallsKept
    <3>1. CASE opened
      <4>1. /\ Len(purchases) + 1 \in 0..MaxPurchases
            /\ Len(purchases) + 1 \in 0..(Len(purchases)') /\ Len(purchases) + 1 # 0
        BY <1>4, <2>3, PurchasesAre, ClassroomAssumption
      <4>2. reply \in Reply /\ reply.reference = Len(purchases) + 1
        BY <4>1, PlainShapes DEF Reply, NoReply
      <4>3. Answer(id, reply)
        BY <1>4, <3>1
      <4> HIDE DEF reply
      <4> QED
        BY <1>2, <2>7, <4>1, <4>2, <4>3, AnswerFits
    <3>2. CASE ~opened
      BY <1>2, <1>4, <2>7, <3>2, RefuseKeeps
    <3> QED
      BY <3>1, <3>2
  <2> QED
    BY <1>1, <2>4, <2>5, <2>6, <2>8, MoneyStep
<1> QED
  BY <1>3, <1>4 DEF ServeBuy

-----------------------------------------------------------------------------
(* The trainer's step, and the induction *)

LEMMA ChangeLessonsStep ==
    ASSUME IInv, ChangeLessons
    PROVE  IInv'
<1>1. UNCHANGED <<account, money>> /\ UNCHANGED <<paid, rows, named, certificate, purchases, uses, page, app, calls>>
      /\ UNCHANGED browser
  BY DEF ChangeLessons, account, money
<1>2. shown' \in (SUBSET Lessons) \ {{}} /\ changed' = TRUE /\ presses' \in 0..MaxPresses
  <2>1. presses \in Nat
    BY DEF IInv, ScreensTyped
  <2> QED
    BY <2>1, ClassroomAssumption DEF ChangeLessons
<1>3. CourseTyped' /\ AccountTyped' /\ MoneyTyped' /\ CertificateIsEarned' /\ ChargedMeansUnlocked'
  BY <1>1, <1>2
     DEF IInv, CourseTyped, AccountTyped, MoneyTyped, CertificateIsEarned, FinishedOf,
         ChargedMeansUnlocked
<1>4. BrowserTyped'
  BY <1>1, BrowserSame
<1>5. ScreensTyped'
  BY <1>1, <1>2, ScreensAre DEF ScreensTyped
<1>6. CallsKept
  BY <1>1, QuietGrows, SameKeeps, ScreensAre
<1>7. EarnedMeansGiven'
  BY <1>2 DEF EarnedMeansGiven
<1> QED
  BY <1>3, <1>4, <1>5, <1>6, <1>7 DEF IInv, CallsKept

LEMMA IInvInit == Init => IInv
<1> SUFFICES ASSUME Init
             PROVE  IInv
  OBVIOUS
<1>1. CourseTyped
  <2>1. 1 \in shown /\ shown \subseteq Lessons
    BY ClassroomAssumption DEF Init, Lessons
  <2> QED
    BY <2>1 DEF Init, CourseTyped
<1>2. AccountTyped
  BY DEF Init, AccountTyped, Rows, Row
<1>3. Preview \in Lessons /\ shown \subseteq Lessons
  BY <1>1, LessonsAreNumbers DEF CourseTyped, Preview
<1>4. purchases = <<>> /\ Len(purchases) = 0 /\ purchases \in Seq(Purchase) /\ DOMAIN purchases = {}
  BY DEF Init
<1>5. MoneyTyped
  BY <1>4, ClassroomAssumption DEF MoneyTyped
<1>6. BrowserTyped
  BY <1>3, PlainShapes DEF Init, BrowserTyped
<1>7. ScreensTyped
  <2>1. CourseAccess(TRUE) \in Access
    BY <1>1, <1>2, AccessShape
  <2>2. app \in App /\ app.reference = 0
    <3>1. app = [access |-> CourseAccess(TRUE), buying |-> FALSE, reference |-> 0, files |-> {}]
      BY DEF Init
    <3>2. 0 \in 0..MaxPurchases
      BY ClassroomAssumption
    <3> QED
      BY <2>1, <3>1, <3>2 DEF App
  <2>3. page \in Page /\ page.on = "away"
    BY BlankIsPage DEF Init
  <2>4. presses \in 0..MaxPresses
    BY ClassroomAssumption DEF Init
  <2> QED
    BY <1>4, <2>2, <2>3, <2>4 DEF ScreensTyped
<1>8. DOMAIN calls = {}
  BY DEF Init
<1>9. CallsTyped /\ CallsFit
  BY <1>8 DEF CallsTyped, CallsFit
<1>10. CertificateIsEarned
  BY DEF Init, CertificateIsEarned, FinishedOf
<1>11. EarnedMeansGiven
  BY DEF Init, EarnedMeansGiven
<1>12. ChargedMeansUnlocked
  <2>1. {n \in DOMAIN purchases : purchases[n].coded /\ purchases[n].status = "paid"} = {}
    BY <1>4
  <2>2. Cardinality({}) = 0
    BY FS_EmptySet
  <2>3. uses = 0
    BY DEF Init
  <2> QED
    BY <1>4, <2>1, <2>2, <2>3 DEF ChargedMeansUnlocked
<1> QED
  BY <1>1, <1>2, <1>5, <1>6, <1>7, <1>9, <1>10, <1>11, <1>12 DEF IInv

LEMMA StillKeeps ==
    ASSUME IInv, UNCHANGED vars
    PROVE  IInv'
<1>1. UNCHANGED <<course, account, money, browser, page, app, calls, presses>>
  BY DEF vars
<1>2. UNCHANGED <<course, account, money>> /\ UNCHANGED <<browser, page, app, presses>>
      /\ UNCHANGED calls
  BY <1>1
<1>3. Grows
  BY <1>2, QuietGrows
<1>4. CallsKept
  BY <1>2, <1>3, ScreensAre, SameKeeps
<1>5. BrowserTyped' /\ ScreensTyped'
  BY <1>2, <1>3, ScreensSame DEF Grows
<1> QED
  BY <1>2, <1>4, <1>5, QuietStep

LEMMA IInvStep == IInv /\ [Next]_vars => IInv'
<1> SUFFICES ASSUME IInv, [Next]_vars
             PROVE  IInv'
  OBVIOUS
<1>1. ASSUME NEW id \in 1..MaxCalls, Serve(id)
      PROVE  IInv'
  BY <1>1, ServeQuietly, ServeProgressStep, JudgeStep, AwardStep, ServeClaimStep, ServeBuyStep,
     ConfirmVerifiedStep DEF Serve
<1>2. ASSUME NEW id \in 1..MaxCalls, Answered(id)
      PROVE  IInv'
  BY <1>2, PageReadsStep, PageGoes, KeepingStep, AppReads DEF Answered
<1>3. ASSUME NEW n \in 1..MaxPurchases, Webhook(n) \/ Pay(n)
      PROVE  IInv'
  BY <1>3, WebhookStep, PayStep
<1>4. CASE ChangeLessons
  BY <1>4, ChangeLessonsStep
<1>5. CASE Watching
  BY <1>5, WatchingStep
<1>6. CASE Using
  BY <1>6, ArriveStep, PageGoes, PageAsks, PlayerStep, KeepingStep, AppAsks DEF Using
<1>7. CASE UNCHANGED vars
  BY <1>7, StillKeeps
<1> QED
  BY <1>1, <1>2, <1>3, <1>4, <1>5, <1>6, <1>7 DEF Next

-----------------------------------------------------------------------------
(* The theorems *)

LEMMA Inductive == Spec => []IInv
BY IInvInit, IInvStep, PTL DEF Spec

\* Whatever is reported, bought, read and closed while requests are under way, the
\* course, the account, the devices and the requests hold only what they are made
\* to hold: a page never asks after a payment that was not started, and a promo
\* code is never counted more often than there are payments.
THEOREM TypeCorrect == Spec => []TypeOK
<1>1. IInv => TypeOK
  <2> SUFFICES ASSUME IInv
               PROVE  TypeOK
    OBVIOUS
  <2>1. CourseTyped /\ AccountTyped /\ BrowserTyped /\ ScreensTyped /\ CallsTyped
    BY DEF IInv
  <2>2. (\A n \in DOMAIN purchases : purchases[n] \in Purchase) /\ uses \in 0..MaxPurchases
    BY PurchasesAre
  <2> QED
    BY <2>1, <2>2
       DEF TypeOK, CourseTyped, AccountTyped, BrowserTyped, ScreensTyped, CallsTyped
<1> QED
  BY <1>1, Inductive, PTL

\* However the trainer's lessons change between the count and the insert, a
\* certificate names only lessons that were finished (issue_certificate).
THEOREM EarnedOnly == Spec => []CertificateIsEarned
<1>1. IInv => CertificateIsEarned
  BY DEF IInv
<1> QED
  BY <1>1, Inductive, PTL

\* Whichever of any number of reports of the last lessons commits last, one of them
\* is about to give the certificate or has given it (LessonProgressView.post).
THEOREM EarnedIsGiven == Spec => []EarnedMeansGiven
<1>1. IInv => EarnedMeansGiven
  BY DEF IInv
<1> QED
  BY <1>1, Inductive, PTL

\* However often, and in whatever order, the return, the app and Paystack tell of
\* the payments, what was paid is unlocked, nothing else is, and each paid purchase
\* is counted once for the promo code it was made with (views.confirm).
THEOREM ChargedIsUnlocked == Spec => []ChargedMeansUnlocked
<1>1. IInv => ChargedMeansUnlocked
  BY DEF IInv
<1> QED
  BY <1>1, Inductive, PTL
=============================================================================

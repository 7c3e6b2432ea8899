---------------------------- MODULE TrainerJoin ----------------------------
(***************************************************************************)
(* A trainer signing in and writing their listing: the wizard of           *)
(* TrainerJoinWizard.tsx in one browser tab, the requests it sends, and    *)
(* the profile they reach (trainer_profiles.py, trainer_uploads.py,        *)
(* lifecycle.py), which staff review.                                      *)
(*                                                                         *)
(* The form's fields are its parts, and what is typed into a part is the   *)
(* number of the edit, so a later text has a higher number.  A request is  *)
(* served at one moment and its answer reaches the page, or never does, at *)
(* another; the tab can be reloaded at any time.  The declarations, which  *)
(* the server keeps once given, are left out.                              *)
(***************************************************************************)
EXTENDS Naturals, FiniteSets

CONSTANTS
    MaxEdits,     \* bound: texts typed
    MaxFiles,     \* bound: files uploaded
    MaxPerKind,   \* photographs of one kind
    MaxRemovals,  \* bound: removals under way at once
    MaxSent,     \* bound: codes sent
    MaxFaults     \* bound: reloads of the tab, and answers that do not arrive

ASSUME JoinAssumption ==
    /\ MaxEdits \in Nat /\ MaxFiles \in Nat /\ MaxSent \in Nat
    /\ MaxPerKind \in Nat \ {0} /\ MaxRemovals \in Nat /\ MaxFaults \in Nat

VARIABLES
    step,       \* what the tab shows
    form,       \* what is in its fields
    photos,     \* the files it shows
    call,       \* the request its buttons wait for (busy), or NoCall
    upload,     \* the file it is sending (uploading), or NoUpload
    removals,   \* photographs it has asked to remove
    challenge,  \* the code it asks for
    age,        \* of that code: "cooling", "open" or "expired"
    draft,      \* sessionStorage: the fields kept over a reload
    signedIn,   \* the session cookie
    codes,      \* codes sent to the trainer who is signing in
    row,        \* the profile and its files, or NoRow
    made,       \* files stored so far
    late,       \* a save whose page is gone but which the server has, or NoCall
    typed,      \* history: the newest text of each part
    sent,       \* history: the form submitted and under review, or Blank
    faults      \* faults so far

page == <<step, form, photos, call, upload, removals, challenge, age>>
server == <<row, made, late, codes, signedIn>>
past == <<typed, sent, faults>>
joinVars == <<page, draft, server, past>>

Parts == {"identity", "workshop", "course"}
Screens == {"loading", "unavailable", "phone", "code",
          "you", "workshop", "photos", "course", "review", "submitted"}

Form == [Parts -> 0..MaxEdits]
Blank == [part \in Parts |-> 0]

\* "single" is a photograph of the entrance, of the master, or the logo: there
\* is one, and a new one replaces it, like the identity document.
Kinds == {"work", "before", "single", "document"}
Replaced == {"single", "document"}
File == [id : 1..MaxFiles, kind : Kinds, of : 0..MaxFiles]

Statuses == {"none", "draft", "changes", "pending", "published"}
Listing == [text : Form, files : SUBSET File, status : Statuses]
NoRow == [text |-> Blank, files |-> {}, status |-> "none"]
Editable == {"draft", "changes", "published"}

Call == [op : {"none", "session", "send", "verify", "save", "resave", "submit", "checklist"},
         form : Form, next : Screens, from : Screens, code : 0..MaxSent,
         reply : {"", "ok", "anonymous", "lost", "refused"} \cup Parts, seen : Listing]
NoCall == [op |-> "none", form |-> Blank, next |-> "you", from |-> "you",
         code |-> 0, reply |-> "", seen |-> NoRow]
Upload == [kind : Kinds \cup {""}, of : 0..MaxFiles, id : 0..MaxFiles,
           reply : {"", "ok", "refused"}]
NoUpload == [kind |-> "", of |-> 0, id |-> 0, reply |-> ""]
Removal == [id : 1..MaxFiles, reply : {"", "ok", "refused"}]

JoinTypeOK ==
    /\ step \in Screens /\ form \in Form /\ photos \subseteq File
    /\ call \in Call /\ upload \in Upload /\ removals \subseteq Removal
    /\ challenge \in 0..MaxSent /\ age \in {"cooling", "open", "expired"}
    /\ draft \in Form /\ signedIn \in BOOLEAN /\ codes \in 0..MaxSent
    /\ row \in Listing /\ made \in 0..MaxFiles /\ late \in Call
    /\ typed \in Form /\ sent \in Form /\ faults \in 0..MaxFaults

Profile == {"you", "workshop", "photos", "course", "review"}
OfKind(files, kind) == {f \in files : f.kind = kind}

-----------------------------------------------------------------------------
(* The steps' forms, and when their fields may be used.                    *)

NotBusy == call = NoCall
NotUploading == upload = NoUpload

PhoneForm == step = "phone" /\ NotBusy
CodeForm == step = "code" /\ age # "expired" /\ NotBusy
YouForm == step = "you" /\ NotBusy
WorkshopForm == step = "workshop"
PhotosForm == step = "photos" /\ NotUploading
CourseForm == step = "course"
ReviewForm == step = "review" /\ NotBusy

-----------------------------------------------------------------------------
(* The page loads.                                                         *)

Fault == faults < MaxFaults /\ faults' = faults + 1

SessionCall == [NoCall EXCEPT !.op = "session"]

\* What a signed-in page starts from: the stored profile, its document number
\* left out, or else the draft of this tab.  The photographs come with a save.
FormOf(profile) == [profile.text EXCEPT !.identity = 0]

\* Mutant of FromDraft: a new trainer's fields start empty.
FromNothing(kept) == [kept EXCEPT !.workshop = 0, !.course = 0]

FromDraft(kept) == kept

Enter(profile) ==
    /\ form' = IF profile = NoRow THEN FromDraft(draft) ELSE FormOf(profile)
    /\ step' = IF profile.status \in Editable \cup {"none"} THEN "you" ELSE "submitted"
    /\ UNCHANGED <<photos, upload, removals>>

PageLoads ==
    /\ step = "loading"
    /\ \/ /\ call.reply = "ok"
          /\ Enter(call.seen)
       \/ /\ call.reply = "anonymous"
          /\ step' = "phone"
          /\ UNCHANGED <<form, photos, upload, removals>>
       \/ /\ call.reply = "lost"
          /\ step' = "unavailable"
          /\ UNCHANGED <<form, photos, upload, removals>>
    /\ call' = NoCall
    /\ UNCHANGED <<challenge, age, draft, server, past>>

\* Everything the page held goes.  A save on its way may be one the server has.
Reload ==
    /\ Fault
    /\ step' = "loading" /\ form' = Blank /\ photos' = {}
    /\ call' = SessionCall /\ upload' = NoUpload /\ removals' = {}
    /\ challenge' = 0 /\ age' = "cooling"
    /\ late' \in {late} \cup {c \in {call} : c.op \in {"save", "resave"} /\ c.reply = ""}
    /\ UNCHANGED <<draft, row, made, codes, signedIn, typed, sent>>

-----------------------------------------------------------------------------
(* Signing in with a code.                                                 *)

RequestCode ==
    /\ PhoneForm
    /\ call' = [NoCall EXCEPT !.op = "send", !.from = step]
    /\ UNCHANGED <<step, form, photos, upload, removals, challenge, age, draft, server, past>>

ResendCode ==
    /\ step = "code" /\ age # "cooling" /\ NotBusy
    /\ call' = [NoCall EXCEPT !.op = "send", !.from = step]
    /\ UNCHANGED <<step, form, photos, upload, removals, challenge, age, draft, server, past>>

CodeSent ==
    /\ call.op = "send" /\ call.reply # ""
    /\ IF call.reply = "ok"
       THEN challenge' = call.code /\ age' = "cooling"
            /\ step' = IF call.from = "phone" THEN "code" ELSE step
       ELSE UNCHANGED <<step, challenge, age>>
    /\ call' = NoCall
    /\ UNCHANGED <<form, photos, upload, removals, draft, server, past>>

\* The second ticks: the cooldown of a code runs out, then the code.
Tick ==
    /\ step = "code" /\ age # "expired"
    /\ age' = IF age = "cooling" THEN "open" ELSE "expired"
    /\ UNCHANGED <<step, form, photos, call, upload, removals, challenge, draft, server, past>>

\* The trainer types one of the codes they were sent.
VerifyCode ==
    /\ CodeForm
    /\ \E n \in 1..codes : call' = [NoCall EXCEPT !.op = "verify", !.code = n]
    /\ UNCHANGED <<step, form, photos, upload, removals, challenge, age, draft, server, past>>

CodeVerified ==
    /\ call.op = "verify" /\ call.reply # ""
    /\ IF call.reply = "ok" THEN Enter(call.seen)
       ELSE UNCHANGED <<step, form, photos, upload, removals>>
    /\ call' = NoCall /\ challenge' = 0 /\ age' = "cooling"
    /\ UNCHANGED <<draft, server, past>>

ChangePhone ==
    /\ step = "code"
    /\ step' = "phone"
    /\ UNCHANGED <<form, photos, call, upload, removals, challenge, age, draft, server, past>>

-----------------------------------------------------------------------------
(* Typing and turning pages.                                               *)

\* The next text is newer than every one before it.
NextText == 1 + CHOOSE n \in {typed[p] : p \in Parts} : \A p \in Parts : typed[p] <= n

StepOf(part) == IF part = "identity" THEN "you" ELSE part

\* Every change is kept in the tab, but for the document and its number.
Keep(f) == draft' = [f EXCEPT !.identity = 0]

\* The page that has the fields of a part.
Editing(part) ==
    CASE part = "identity" -> YouForm
      [] part = "workshop" -> WorkshopForm
      [] part = "course"   -> CourseForm

Type(part) ==
    /\ Editing(part) /\ NextText <= MaxEdits
    /\ form' = [form EXCEPT ![part] = NextText]
    /\ typed' = [typed EXCEPT ![part] = NextText]
    /\ Keep(form')
    /\ UNCHANGED <<step, photos, call, upload, removals, challenge, age, server, sent, faults>>

\* Use my location: the phone answers within fifteen seconds, wherever the
\* trainer is by then, and the pin is put there.
Located ==
    /\ step \in Profile \ {"you"} /\ NextText <= MaxEdits
    /\ form' = [form EXCEPT !.workshop = NextText]
    /\ typed' = [typed EXCEPT !.workshop = NextText]
    /\ Keep(form')
    /\ UNCHANGED <<step, photos, call, upload, removals, challenge, age, server, sent, faults>>

Turns == {<<"photos", "workshop">>, <<"photos", "course">>, <<"course", "photos">>,
          <<"review", "workshop">>, <<"review", "course">>}

\* The buttons that only turn a page work while a request is under way.
Turn ==
    /\ \/ \E t \in Turns : step = t[1] /\ step' = t[2]
       \/ step = "you" /\ form.identity # 0 /\ step' = "workshop"
    /\ UNCHANGED <<form, photos, call, upload, removals, challenge, age, draft, server, past>>

Saved == {<<"workshop", "photos">>, <<"course", "review">>}

\* Continue: the step's own fields are checked, and all of them are sent.
SaveThenContinue ==
    /\ NotBusy /\ late = NoCall
    /\ \E t \in Saved :
          /\ step = t[1] /\ form[t[1]] # 0
          /\ call' = [NoCall EXCEPT !.op = "save", !.form = form, !.from = step, !.next = t[2]]
    /\ UNCHANGED <<step, form, photos, upload, removals, challenge, age, draft, server, past>>

SaveAndSubmit ==
    /\ ReviewForm /\ \A p \in Parts : form[p] # 0
    /\ call' = [NoCall EXCEPT !.op = "resave", !.form = form, !.from = step]
    /\ UNCHANGED <<step, form, photos, upload, removals, challenge, age, draft, server, past>>

\* To the step of the field the server refused, unless the page shows it.
Refused ==
    step' = IF call.reply \in Parts /\ StepOf(call.reply) # call.from
            THEN StepOf(call.reply) ELSE step

Checklist(next) == [NoCall EXCEPT !.op = "checklist", !.next = next]

\* A save on the way to the review also asks what is still missing.
SaveAnswered ==
    /\ call.op = "save" /\ call.reply # ""
    /\ IF call.reply = "ok"
       THEN /\ photos' = call.seen.files
            /\ IF call.next = "review"
               THEN call' = Checklist("review") /\ UNCHANGED step
               ELSE call' = NoCall /\ step' = call.next
       ELSE /\ Refused /\ call' = NoCall
            /\ UNCHANGED photos
    /\ UNCHANGED <<form, upload, removals, challenge, age, draft, server, past>>

ResaveAnswered ==
    /\ call.op = "resave" /\ call.reply # ""
    /\ IF call.reply = "ok"
       THEN call' = [call EXCEPT !.op = "submit", !.reply = "", !.seen = NoRow] /\ UNCHANGED step
       ELSE Refused /\ call' = Checklist("you")
    /\ UNCHANGED <<form, photos, upload, removals, challenge, age, draft, server, past>>

SubmitAnswered ==
    /\ call.op = "submit" /\ call.reply # ""
    /\ IF call.reply = "ok"
       THEN /\ draft' = Blank /\ step' = "submitted" /\ call' = NoCall
       ELSE /\ call' = Checklist("you")
            /\ UNCHANGED <<draft, step>>
    /\ UNCHANGED <<form, photos, upload, removals, challenge, age, server, past>>

ChecklistAnswered ==
    /\ call.op = "checklist" /\ call.reply # ""
    /\ step' = IF call.next = "review" /\ call.reply = "ok" THEN "review" ELSE step
    /\ call' = NoCall
    /\ UNCHANGED <<form, photos, upload, removals, challenge, age, draft, server, past>>

-----------------------------------------------------------------------------
(* Files.  The fields are disabled while one is being sent.                *)

MayAdd(kind) ==
    CASE kind = "work"     -> Cardinality(OfKind(photos, "work")) < MaxPerKind
      [] kind = "single"   -> OfKind(photos, "single") = {}
      [] kind = "document" -> TRUE
      [] OTHER             -> FALSE

\* Finished work without a photograph of the same piece before.
Unpaired == {w \in OfKind(photos, "work") :
               \A b \in OfKind(photos, "before") : b.of # w.id}

AddFile ==
    /\ PhotosForm
    /\ \/ \E kind \in Kinds : MayAdd(kind) /\ upload' = [NoUpload EXCEPT !.kind = kind]
       \/ \E work \in Unpaired :
             /\ upload' = [NoUpload EXCEPT !.kind = "before", !.of = work.id]
    /\ UNCHANGED <<step, form, photos, call, removals, challenge, age, draft, server, past>>

Others(files, kind) == {f \in files : kind \in Replaced => f.kind # kind}

FileAnswered ==
    /\ upload.reply # ""
    /\ photos' = IF upload.reply = "ok"
                 THEN Others(photos, upload.kind)
                      \cup {[id |-> upload.id, kind |-> upload.kind, of |-> upload.of]}
                 ELSE photos
    /\ upload' = NoUpload
    /\ UNCHANGED <<step, form, call, removals, challenge, age, draft, server, past>>

RemovePhoto ==
    /\ PhotosForm /\ Cardinality(removals) < MaxRemovals
    /\ \E f \in photos :
          /\ f.kind # "document" /\ \A r \in removals : r.id # f.id
          /\ removals' = removals \cup {[id |-> f.id, reply |-> ""]}
    /\ UNCHANGED <<step, form, photos, call, upload, challenge, age, draft, server, past>>

\* Removing finished work removes its 'before' with it.
Without(files, id) == {f \in files : f.id # id /\ f.of # id}

PhotoRemoved ==
    /\ \E r \in removals :
          /\ r.reply # ""
          /\ removals' = removals \ {r}
          /\ photos' = IF r.reply = "ok" THEN Without(photos, r.id) ELSE photos
    /\ UNCHANGED <<step, form, call, upload, challenge, age, draft, server, past>>

-----------------------------------------------------------------------------
(* The server.  Each request is one transaction, or one write.             *)

Answer(op, reply, seen, code) ==
    /\ call.op = op /\ call.reply = ""
    /\ call' = [call EXCEPT !.reply = reply, !.seen = seen, !.code = code]
    /\ UNCHANGED <<step, form, photos, upload, removals, challenge, age, draft, typed, faults>>

ReadSession ==
    /\ Answer("session", IF signedIn THEN "ok" ELSE "anonymous", IF signedIn THEN row ELSE NoRow, 0)
    /\ UNCHANGED <<server, sent>>

SendCode ==
    /\ codes < MaxSent
    /\ codes' = codes + 1
    /\ Answer("send", "ok", NoRow, codes')
    /\ UNCHANGED <<row, made, late, signedIn, sent>>

\* A code opens a session only with the challenge it was sent for.
CheckCode ==
    /\ IF call.code = challenge
       THEN Answer("verify", "ok", row, 0) /\ signedIn' = TRUE /\ codes' = 0
       ELSE Answer("verify", "refused", NoRow, 0) /\ UNCHANGED <<signedIn, codes>>
    /\ UNCHANGED <<row, made, late, sent>>

\* Mutant of Merged: a course once stored is not changed by a save.
MergedFirst(old, new) ==
    [new EXCEPT !.course = IF old.course = 0 THEN @ ELSE old.course]

\* No course in a save leaves the course there is.
Merged(old, new) ==
    [new EXCEPT !.course = IF @ = 0 THEN old.course ELSE @]

MaySave == row.status \in Editable \cup {"none"}

\* A published listing that is renamed, moved or given another number goes
\* back to be reviewed; a changed landmark or opening year leaves it.
Stored(new, telling) ==
    row' = [row EXCEPT !.text = Merged(row.text, new),
                       !.status = CASE row.status = "none" -> "draft"
                                    [] row.status = "published" /\ telling -> "pending"
                                    [] OTHER -> row.status]

\* Only a change of the workshop's own fields can send it back.
SaveProfile(new) == \E telling \in {FALSE, new.workshop # row.text.workshop} : Stored(new, telling)

\* The row's save; a field the page accepted may still be refused here.
ServeSave ==
    /\ \E op \in {"save", "resave"} :
          \/ MaySave /\ SaveProfile(call.form) /\ Answer(op, "ok", row', 0)
          \/ \E part \in Parts : Answer(op, part, NoRow, 0) /\ UNCHANGED row
          \/ ~MaySave /\ Answer(op, "refused", NoRow, 0) /\ UNCHANGED row
    /\ UNCHANGED <<made, late, codes, signedIn, sent>>

ServeLate ==
    /\ late # NoCall
    /\ IF MaySave THEN SaveProfile(late.form) ELSE UNCHANGED row
    /\ late' = NoCall
    /\ UNCHANGED <<page, draft, made, codes, signedIn, past>>

\* What must be there before staff are asked to decide.
Missing(r) ==
    \/ r.text.identity = 0 \/ r.text.course = 0
    \/ OfKind(r.files, "work") = {} \/ OfKind(r.files, "document") = {}

ServeSubmit ==
    /\ IF ~Missing(row) /\ row.status \in {"draft", "changes"}
       THEN /\ row' = [row EXCEPT !.status = "pending"]
            /\ sent' = call.form
            /\ Answer("submit", "ok", NoRow, 0)
       ELSE Answer("submit", "refused", NoRow, 0) /\ UNCHANGED <<row, sent>>
    /\ UNCHANGED <<made, late, codes, signedIn>>

ServeChecklist ==
    /\ Answer("checklist", "ok", NoRow, 0)
    /\ UNCHANGED <<server, sent>>

\* The request, or its answer, does not arrive; the page sees an error.
LoseAnswer ==
    /\ call # NoCall /\ call.reply # "lost" /\ Fault
    /\ call' = [call EXCEPT !.reply = "lost", !.seen = NoRow]
    /\ UNCHANGED <<step, form, photos, upload, removals, challenge, age, draft, server, typed, sent>>

LoseFileAnswer ==
    /\ upload # NoUpload /\ upload.reply # "refused" /\ Fault
    /\ upload' = [upload EXCEPT !.reply = "refused"]
    /\ UNCHANGED <<step, form, photos, call, removals, challenge, age, draft, server, typed, sent>>

LoseRemovalAnswer ==
    /\ Fault
    /\ \E r \in removals :
          /\ r.reply # "refused"
          /\ removals' = (removals \ {r}) \cup {[r EXCEPT !.reply = "refused"]}
    /\ UNCHANGED <<step, form, photos, call, upload, challenge, age, draft, server, typed, sent>>

\* Mutant of MayFile: files are taken whatever the listing's status.
MayFileAny == row # NoRow

MayFile == row.status \in Editable

Taken(kind, of) ==
    /\ Cardinality(OfKind(row.files, kind)) < MaxPerKind \/ kind \in Replaced
    /\ kind = "before" =>
          /\ \E w \in OfKind(row.files, "work") : w.id = of
          /\ \A b \in OfKind(row.files, "before") : b.of # of

ServeFile ==
    /\ upload # NoUpload /\ upload.reply = ""
    /\ \/ /\ MayFile /\ Taken(upload.kind, upload.of) /\ made < MaxFiles
          /\ made' = made + 1
          /\ row' = [row EXCEPT !.files = Others(@, upload.kind)
                       \cup {[id |-> made', kind |-> upload.kind, of |-> upload.of]}]
          /\ upload' = [upload EXCEPT !.reply = "ok", !.id = made']
       \/ /\ ~(MayFile /\ Taken(upload.kind, upload.of))
          /\ upload' = [upload EXCEPT !.reply = "refused"]
          /\ UNCHANGED <<row, made>>
    /\ UNCHANGED <<step, form, photos, call, removals, challenge, age, draft,
                   late, codes, signedIn, past>>

ServeRemoval ==
    /\ \E r \in removals :
          /\ r.reply = ""
          /\ \/ /\ MayFile /\ \E f \in row.files : f.id = r.id
                /\ row' = [row EXCEPT !.files = Without(@, r.id)]
                /\ removals' = (removals \ {r}) \cup {[r EXCEPT !.reply = "ok"]}
             \/ /\ ~(MayFile /\ \E f \in row.files : f.id = r.id)
                /\ removals' = (removals \ {r}) \cup {[r EXCEPT !.reply = "refused"]}
                /\ UNCHANGED row
    /\ UNCHANGED <<step, form, photos, call, upload, challenge, age, draft,
                   made, late, codes, signedIn, past>>

\* Staff publish a listing under review or ask for changes.
Decide ==
    /\ row.status = "pending"
    /\ \E decision \in {"published", "changes"} : row' = [row EXCEPT !.status = decision]
    /\ sent' = Blank
    /\ UNCHANGED <<page, draft, made, late, codes, signedIn, typed, faults>>

-----------------------------------------------------------------------------
JoinInit ==
    /\ step = "loading" /\ form = Blank /\ photos = {} /\ call = SessionCall
    /\ upload = NoUpload /\ removals = {} /\ challenge = 0 /\ age = "cooling"
    /\ draft = Blank /\ signedIn = FALSE /\ codes = 0
    /\ row = NoRow /\ made = 0 /\ late = NoCall
    /\ typed = Blank /\ sent = Blank /\ faults = 0

SignIn == RequestCode \/ ResendCode \/ CodeSent \/ Tick \/ VerifyCode \/ CodeVerified \/ ChangePhone

Write ==
    \/ (\E part \in Parts : Type(part)) \/ Located \/ Turn
    \/ SaveThenContinue \/ SaveAndSubmit
    \/ SaveAnswered \/ ResaveAnswered \/ SubmitAnswered \/ ChecklistAnswered

Files == AddFile \/ FileAnswered \/ RemovePhoto \/ PhotoRemoved

Serve ==
    \/ ReadSession \/ SendCode \/ CheckCode \/ ServeSave \/ ServeLate
    \/ ServeSubmit \/ ServeChecklist \/ ServeFile \/ ServeRemoval

Lose == LoseAnswer \/ LoseFileAnswer \/ LoseRemovalAnswer

JoinNext == PageLoads \/ Reload \/ SignIn \/ Write \/ Files \/ Serve \/ Lose \/ Decide

JoinSpec == JoinInit /\ [][JoinNext]_joinVars

-----------------------------------------------------------------------------
(* What the wizard promises.                                               *)

\* What staff are asked to decide on is what the trainer had in front of them
\* when they pressed Submit: no save of theirs, late, repeated or of another
\* step, has put an older text there, and the course was not left out.
UnderReviewIsWhatWasSent ==
    row.status = "pending" /\ sent # Blank => row.text = sent

\* While staff read a listing nothing the trainer does, and nothing still on
\* its way from an earlier step, changes its text or its files: uploading into
\* it would change what they are looking at midway through the decision
\* (_editable_provider_or_error).
UnderReviewIsStill ==
    [][row.status = "pending" => row'.text = row.text /\ row'.files = row.files]_joinVars

\* Until there is a profile, a reload of the tab gives back all that was typed
\* but the identity document: a dropped connection does not cost someone the
\* whole wizard (trainer-profile.ts, NEVER_STORED).
DraftComesBack ==
    row = NoRow /\ step \in Profile =>
        form.workshop = typed.workshop /\ form.course = typed.course
=============================================================================

---------------------------- MODULE VideoUpload ----------------------------
(***************************************************************************)
(* The trainer's page of teaching videos: sendFile (lib/video-upload.ts),  *)
(* which sends a file a piece at a time over a network that drops requests *)
(* and answers, and TrainerVideos.tsx, which starts, pauses, resumes and   *)
(* removes uploads and shows how far each has got.  The server is that of  *)
(* VideoPipeline, reduced to what the page is told: how much of each file  *)
(* has arrived, and whether it waits for the encoder ("queued", which here *)
(* stands for everything that may come of it).                             *)
(***************************************************************************)
EXTENDS Naturals, FiniteSets

CONSTANTS
    MaxVideos,    \* bound: videos the trainer adds
    Sends,        \* bound: calls of sendFile under way at one time
    Pieces,       \* pieces each file is sent in, by video
    MaxLate,      \* bound: pieces given up by the page that may still arrive
    MaxRetries,   \* MAX_RETRIES: times a piece is tried again
    None          \* no video, and no send

ASSUME UploadAssumption ==
    /\ Pieces \in [1..MaxVideos -> Nat \ {0}] /\ MaxRetries \in Nat /\ MaxLate \in Nat
    /\ None \notin Sends \cup Nat /\ MaxVideos \in Nat \ {0}

Videos == 1..MaxVideos

VARIABLES
    row,        \* the rows: received and status of each video
    late,       \* pieces the page gave up on that may still arrive
    shown,      \* the list on the page
    loop,       \* the calls of sendFile under way
    sending,    \* the one the page shows and can pause, or None
    starting    \* the video being added, or None

uploadVars == <<row, late, shown, loop, sending, starting>>

Statuses == {"none", "uploading", "queued", "removed"}
MOVING == {"queued"}
Longest == CHOOSE n \in {Pieces[v] : v \in Videos} : \A v \in Videos : Pieces[v] <= n
Row == [received : 0..Longest, status : Statuses]
NoRow == [received |-> 0, status |-> "none"]

\* latest: the video as sendFile was called with it, or as a piece was last
\* answered; told: where the server last refused one.
Phases == {"off", "ready", "asked", "failed"}
Never == Longest + 1
Loop == [of : Videos \cup {None}, phase : Phases, offset : 0..Longest,
         failures : 0..MaxRetries, told : 0..Never, latest : Row,
         aborted : BOOLEAN]
Off == [of |-> None, phase |-> "off", offset |-> 0, failures |-> 0, told |-> Never,
        latest |-> NoRow, aborted |-> FALSE]

UploadTypeOK ==
    /\ row \in [Videos -> Row] /\ late \subseteq Videos \X (0..Longest)
    /\ shown \in [Videos -> Row] /\ loop \in [Sends -> Loop]
    /\ sending \in Sends \cup {None}
    /\ starting \in Videos \cup {None}

\* Some of the pieces on their way may arrive after the page has given up.
GivenUp(asking) ==
    {l \in {late \cup {<<loop[s].of, loop[s].offset>> : s \in some} : some \in SUBSET asking} :
        Cardinality(l) <= MaxLate}

There(v) == row[v].status \notin {"none", "removed"}
On(s) == loop[s] # Off
TheList == [v \in Videos |-> IF There(v) THEN row[v] ELSE NoRow]
InList(v) == shown[v] # NoRow

-----------------------------------------------------------------------------
(* The page.                                                               *)

\* replace: the row changes, or joins the list again.
Replace(v, video) == shown' = [shown EXCEPT ![v] = video]

\* Mutant of Aborting: setting what is sent leaves the send before it alone.
AbortingNothing(now) == loop

\* The effect on `sending`: what the page showed before is told to stop.
Aborting(now) ==
    [s \in Sends |-> IF s = sending /\ s # now /\ On(s)
                     THEN [loop[s] EXCEPT !.aborted = TRUE] ELSE loop[s]]

\* send: a call of sendFile, from where the list says the file has got to.
Send(v, video) ==
    /\ \E s \in Sends : ~On(s)
    /\ LET s == CHOOSE s \in Sends : ~On(s) IN
       /\ sending' = s
       /\ loop' = [Aborting(s) EXCEPT ![s] = [Off EXCEPT
                     !.of = v, !.phase = "ready", !.offset = video.received,
                     !.latest = video]]

\* One upload at a time: two would share one phone's signal.
MayAdd == starting = None /\ sending = None

Add(v) ==
    /\ MayAdd /\ row[v] = NoRow /\ \A u \in 1..v - 1 : row[u] # NoRow
    /\ starting' = v
    /\ UNCHANGED <<row, late, shown, loop, sending>>

\* The buttons of an upload that stopped: carry on, or pick the file again.
MayResume(v) == shown[v].status = "uploading" /\ sending = None

Resume(v) ==
    /\ MayResume(v)
    /\ Send(v, shown[v])
    /\ UNCHANGED <<row, late, shown, starting>>

Pause ==
    /\ sending # None
    /\ loop' = [loop EXCEPT ![sending].aborted = TRUE]
    /\ UNCHANGED <<row, late, shown, sending, starting>>

\* Whatever is being sent of it stops after the piece under way, and the row
\* goes on the server; without the answer the page keeps it, and with it the
\* list is read again, or is not.
RemoveVideo(v) ==
    /\ InList(v)
    /\ loop' = IF sending # None /\ loop[sending].of = v
               THEN [loop EXCEPT ![sending].aborted = TRUE] ELSE loop
    /\ \/ /\ row' = [row EXCEPT ![v] = [received |-> 0, status |-> "removed"]]
          /\ shown' \in {shown, [shown EXCEPT ![v] = NoRow], TheList'}
       \/ UNCHANGED <<row, shown>>
    /\ UNCHANGED <<late, sending, starting>>

\* Every POLL_MS while a video is prepared the list is read again.
Listed ==
    /\ \E v \in Videos : shown[v].status \in MOVING
    /\ shown' = TheList
    /\ UNCHANGED <<row, late, loop, sending, starting>>

\* The page is loaded again: the files are no longer in hand.
Load ==
    /\ shown' = TheList
    /\ loop' = [s \in Sends |-> Off] /\ sending' = None
    /\ late' \in GivenUp({s \in Sends : loop[s].phase = "asked"})
    /\ starting' = None
    /\ UNCHANGED row

-----------------------------------------------------------------------------
(* sendFile.                                                               *)

Quiet == UNCHANGED <<late, starting>>
InPhase(s, phase) == loop[s].phase = phase
Step(s, state) == loop' = [loop EXCEPT ![s] = state]

\* onProgress: the upload as it was when the send began, with what has arrived.
Progress(s, received) ==
    Replace(loop[s].of, [received |-> received, status |-> "uploading"])

\* finally: the page sends nothing now, whichever call of sendFile this was.
Ends(s) == loop' = [Aborting(None) EXCEPT ![s] = Off] /\ sending' = None

Piece(s) ==
    /\ InPhase(s, "ready") /\ loop[s].offset < Pieces[loop[s].of] /\ ~loop[s].aborted
    /\ Step(s, [loop[s] EXCEPT !.phase = "asked"])
    /\ UNCHANGED <<row, shown, sending>> /\ Quiet

\* The piece is in, and the answer says where the file has got to.
Taken(s, answer) ==
    /\ Step(s, [loop[s] EXCEPT !.phase = "ready", !.offset = answer.received,
                  !.failures = 0, !.told = Never, !.latest = answer])
    /\ Progress(s, answer.received)
    /\ UNCHANGED sending

\* The server has a different idea of where the file has got to.
Refused(s, received) ==
    /\ received # loop[s].told
    /\ Step(s, [loop[s] EXCEPT !.phase = "ready", !.told = received,
                  !.offset = received])
    /\ Progress(s, received)
    /\ UNCHANGED sending

\* Told the same twice, or that there is no such video: the send fails.
Fails(s) ==
    /\ Step(s, [loop[s] EXCEPT !.phase = "failed"])
    /\ UNCHANGED <<shown, sending>>

\* Mutant of Failure: a piece that failed is tried as if it were the first time.
SameFailure(failures) == failures

Failure(failures) == failures + 1

\* The network, or the server having a moment.
TryAgain(s) ==
    /\ loop[s].failures < MaxRetries
    /\ Step(s, [loop[s] EXCEPT !.phase = "ready", !.failures = Failure(@)])
    /\ UNCHANGED <<shown, sending>>

\* Mutant of Pauses: the piece under way is taken to have arrived.
PausesPast(s) ==
    /\ Progress(s, loop[s].offset + 1)
    /\ Ends(s)

\* UploadPaused: what has been sent is kept.
Pauses(s) ==
    /\ Progress(s, loop[s].offset)
    /\ Ends(s)

Dropped(s) ==
    \/ TryAgain(s)
    \/ loop[s].failures = MaxRetries /\ Pauses(s)

Stopped(s) ==
    /\ InPhase(s, "ready") /\ loop[s].offset < Pieces[loop[s].of] /\ loop[s].aborted
    /\ Pauses(s)
    /\ UNCHANGED row /\ Quiet

\* Once the list has been read again, or has not.
FailedEnds(s) ==
    /\ InPhase(s, "failed")
    /\ Ends(s)
    /\ shown' \in {shown, TheList}
    /\ UNCHANGED row /\ Quiet

\* The file is in: the row is the last one a piece was answered with.
Finishes(s) ==
    /\ InPhase(s, "ready") /\ loop[s].offset = Pieces[loop[s].of]
    /\ Replace(loop[s].of, loop[s].latest)
    /\ Ends(s)
    /\ UNCHANGED row /\ Quiet

-----------------------------------------------------------------------------
(* The server.                                                             *)

PageStays == UNCHANGED <<shown, sending, starting>>

\* start_upload: the page is given a row to send, is refused one, or does not
\* hear of it.
StartUpload ==
    /\ starting # None
    /\ \/ /\ row' = [row EXCEPT ![starting] = [received |-> 0, status |-> "uploading"]]
          /\ \/ Replace(starting, row'[starting]) /\ Send(starting, row'[starting])
             \/ UNCHANGED <<shown, loop, sending>>
       \/ UNCHANGED <<row, shown, loop, sending>>
    /\ starting' = None
    /\ UNCHANGED late

Fits(v, offset) == row[v].status = "uploading" /\ offset = row[v].received

\* receive_chunk: the piece is appended, and a whole file is queued.
Appended(v) ==
    [received |-> row[v].received + 1,
     status |-> IF row[v].received + 1 = Pieces[v] THEN "queued" ELSE "uploading"]

ReceivePiece(s) ==
    /\ InPhase(s, "asked")
    /\ LET v == loop[s].of IN
       \/ /\ Fits(v, loop[s].offset)
          /\ row' = [row EXCEPT ![v] = Appended(v)]
          /\ (Taken(s, row'[v]) \/ Dropped(s))
       \/ /\ There(v) /\ ~Fits(v, loop[s].offset)
          /\ Refused(s, row[v].received)
          /\ UNCHANGED row
       \/ /\ There(v) => ~Fits(v, loop[s].offset) /\ row[v].received = loop[s].told
          /\ Fails(s)
          /\ UNCHANGED row
    /\ Quiet

\* A piece whose page has given up on it.
LateArrives ==
    /\ \E o \in late :
          /\ late' = late \ {o}
          /\ row' = IF Fits(o[1], o[2]) THEN [row EXCEPT ![o[1]] = Appended(o[1])] ELSE row
    /\ UNCHANGED loop /\ PageStays

\* The piece is lost, or arrives late, or the video goes while it is read.
DropPiece(s) ==
    /\ InPhase(s, "asked")
    /\ Dropped(s)
    /\ late' \in GivenUp({s})
    /\ UNCHANGED <<row, starting>>

-----------------------------------------------------------------------------
UploadInit ==
    /\ row = [v \in Videos |-> NoRow] /\ late = {}
    /\ shown = [v \in Videos |-> NoRow] /\ loop = [s \in Sends |-> Off]
    /\ sending = None /\ starting = None

SendFile(s) == Piece(s) \/ Stopped(s) \/ FailedEnds(s) \/ Finishes(s)

Trainer ==
    \/ \E v \in Videos : Add(v) \/ Resume(v) \/ RemoveVideo(v)
    \/ Pause \/ Load

Server == StartUpload \/ LateArrives

Network(s) == ReceivePiece(s) \/ DropPiece(s)

UploadNext ==
    \/ Trainer \/ Listed \/ Server
    \/ \E s \in Sends : SendFile(s) \/ Network(s)

\* A call of sendFile runs, and a request of its own is answered or is lost.
Fairness == \A s \in Sends : WF_uploadVars(SendFile(s)) /\ WF_uploadVars(Network(s))

UploadSpec == UploadInit /\ [][UploadNext]_uploadVars
FairSpec == UploadSpec /\ Fairness

-----------------------------------------------------------------------------
(* What the page promises.                                                 *)

\* One upload at a time (TrainerVideos.tsx:320): whatever starts while another
\* send is under way, a send the page does not show has been told to stop, so
\* that no file goes on being sent which Pause and Remove cannot reach.
OneSendAtATime == \A s \in Sends : On(s) /\ s # sending => loop[s].aborted

\* The bar never claims more than has arrived: what it shows of a video that is
\* there was in the file when it was told, and stays in it, over every retry,
\* refusal and list that comes back out of turn ("everything sent so far is
\* kept", video-upload.ts:52).
NothingClaimedThatIsNotKept ==
    \A v \in Videos : There(v) /\ InList(v) => shown[v].received <= row[v].received

\* Every send comes to an end: it finishes, pauses or fails, however often the
\* network drops a piece and whatever the server answers (the retries are
\* counted, and told the same twice "going round again would never end").
EverySendEnds == \A s \in Sends : On(s) ~> ~On(s)
=============================================================================

--------------------------- MODULE VideoPipeline ---------------------------
(***************************************************************************)
(* One teaching video, from the first piece of the upload to the listing:  *)
(* receive_chunk (providers/video_uploads.py), the worker that encodes it  *)
(* and cuts its stream (video_encoding.py, video_hls.py, process_videos),  *)
(* the review (videos.py, decide) and the trainer removing it.             *)
(*                                                                         *)
(* The database row, the upload's work file and the stored files are kept  *)
(* apart: no transaction covers two of them.  The 360p, the 720p and the   *)
(* poster are one file here, as they are moved one after the other.        *)
(***************************************************************************)
EXTENDS Naturals, Sequences

CONSTANTS
    Workers,      \* process_videos processes
    Pieces,       \* pieces the file is sent in
    MaxFiles,     \* bound: files and folders made
    MaxDeaths     \* bound: times a worker dies

ASSUME VideoAssumption ==
    /\ Workers # {} /\ Pieces \in Nat \ {0}
    /\ MaxFiles \in Nat /\ MaxDeaths \in Nat

VARIABLES
    row,        \* the ProviderVideo, or NoRow
    work,       \* pieces in the work file (0: half of one)
    private,    \* files in private storage
    public,     \* files in public storage
    folders,    \* streams in public storage
    made,       \* names given to files and folders so far; none is used twice
    worker,     \* what each worker is doing
    seen,       \* the row as a reviewer's open request loaded it, or NoRow
    deaths,     \* workers that died
    removed     \* history: the trainer has removed the video

files == <<private, public, folders, made>>
vars == <<row, work, files, worker, seen, deaths, removed>>

Reviewable == {"pending", "approved", "rejected"}
Statuses == Reviewable \cup {"uploading", "queued", "processing", "failed"}
HlsStates == {"", "processing", "ready", "failed"}

Names == 1..MaxFiles
None == 0
Row == [status : Statuses, received : 0..Pieces,
        review : Names \cup {None}, public : Names \cup {None},
        hls : HlsStates, dir : Names \cup {None}]
NoRow == [status |-> "none"]

Doing == {"idle", "encoding", "saving", "clearing", "cutting", "publishing"}

\* A worker holds the row as it was when it claimed it.
Worker == [doing : Doing, video : Row \cup {NoRow}, folder : Names \cup {None}]
Resting == [doing |-> "idle", video |-> NoRow, folder |-> None]

TypeOK ==
    /\ row \in Row \cup {NoRow}
    /\ work \in Seq(0..Pieces) /\ Len(work) <= Pieces
    /\ private \subseteq Names /\ public \subseteq Names /\ folders \subseteq Names
    /\ made \in 0..MaxFiles
    /\ worker \in [Workers -> Worker]
    /\ seen \in Row \cup {NoRow}
    /\ deaths \in 0..MaxDeaths
    /\ removed \in BOOLEAN

Is(status) == row.status = status
Whole == [n \in 1..Pieces |-> n]
Busy(w, doing) == worker[w].doing = doing
WorkerIs(w, state) == worker' = [worker EXCEPT ![w] = state]
Now(w, doing) == worker' = [worker EXCEPT ![w].doing = doing]

\* A file saved to storage gets a name of its own.
New == made + 1
MaySave == made < MaxFiles

-----------------------------------------------------------------------------
(* Uploading.                                                              *)

StartUpload ==
    /\ row = NoRow /\ ~removed
    /\ row' = [status |-> "uploading", received |-> 0, review |-> None,
               public |-> None, hls |-> "", dir |-> None]
    /\ UNCHANGED <<work, files, worker, seen, deaths, removed>>

\* Mutant of InPlace: pieces are taken as they come.
AsItComes(offset) == offset \in Nat

InPlace(offset) == offset = row.received

CutBack(file) == SubSeq(file, 1, row.received)

\* A piece arrives, perhaps for the second time; the row is locked until the
\* file is written and the row says so.
ReceiveChunk(offset) ==
    /\ Is("uploading") /\ InPlace(offset)
    /\ work' = Append(CutBack(work), offset + 1)
    /\ row' = [row EXCEPT !.received = @ + 1,
                          !.status = IF row.received + 1 = Pieces THEN "queued" ELSE @]
    /\ UNCHANGED <<files, worker, seen, deaths, removed>>

\* The request dies with some or all of the piece written, the row as it was.
ChunkDies(offset) ==
    /\ Is("uploading") /\ InPlace(offset)
    /\ \E piece \in {0, offset + 1} : work' = Append(CutBack(work), piece)
    /\ UNCHANGED <<row, files, worker, seen, deaths, removed>>

\* The trainer removes the video, or tidy an upload given up: the files its row
\* names go with it.
Remove ==
    /\ row # NoRow
    /\ row' = NoRow
    /\ work' = <<>>
    /\ private' = private \ {row.review}
    /\ public' = public \ {row.public}
    /\ folders' = folders \ {row.dir}
    /\ removed' = TRUE
    /\ UNCHANGED <<made, worker, seen, deaths>>

-----------------------------------------------------------------------------
(* The worker encodes.                                                     *)

MayClaim == Is("queued")

Claim(w) ==
    /\ Busy(w, "idle") /\ MayClaim
    /\ row' = [row EXCEPT !.status = "processing"]
    /\ WorkerIs(w, [doing |-> "encoding", video |-> row', folder |-> None])
    /\ UNCHANGED <<work, files, seen, deaths, removed>>

\* The last of the encoders has opened the work file.
Encode(w) ==
    /\ Busy(w, "encoding") /\ work # <<>>
    /\ Now(w, "saving")
    /\ UNCHANGED <<row, work, files, seen, deaths, removed>>

\* The whole row is saved, from what the worker holds: if it has been deleted
\* it is inserted again.
SaveEncoded(w) ==
    /\ Busy(w, "saving") /\ MaySave
    /\ private' = private \cup {New}
    /\ made' = New
    /\ row' = [worker[w].video EXCEPT !.status = "pending", !.review = New]
    /\ Now(w, "clearing")
    /\ UNCHANGED <<work, public, folders, seen, deaths, removed>>

\* Not a video, too long, over the allowance, or its work file is gone.  Only a
\* row that is there can be marked; otherwise the error ends the worker, and
\* systemd starts it again.
FailEncode(w) ==
    /\ worker[w].doing \in {"encoding", "saving"}
    /\ \/ /\ row # NoRow
          /\ row' = [row EXCEPT !.status = "failed"]
          /\ Now(w, "clearing")
       \/ /\ row = NoRow
          /\ WorkerIs(w, Resting)
          /\ UNCHANGED row
    /\ UNCHANGED <<work, files, seen, deaths, removed>>

RemoveWorkFile(w) ==
    /\ Busy(w, "clearing")
    /\ work' = <<>>
    /\ WorkerIs(w, Resting)
    /\ UNCHANGED <<row, files, seen, deaths, removed>>

\* Mutants of MayRequeue: whatever a dead worker left is queued; what failed is.
MayRequeueAny == row.status \in {"processing", "pending"}
MayRequeueFailed == Is("failed")

MayRequeue == Is("processing")

\* tidy, VIDEO_ENCODE_LEASE_HOURS after the claim.  The lease is taken to
\* outlast an encoding.
Requeue ==
    /\ MayRequeue
    /\ \A w \in Workers : worker[w].doing \notin {"encoding", "saving"}
    /\ row' = [row EXCEPT !.status = "queued"]
    /\ UNCHANGED <<work, files, worker, seen, deaths, removed>>

-----------------------------------------------------------------------------
(* The worker cuts a stream of an approved video.                          *)

ClaimStream(w) ==
    /\ Busy(w, "idle")
    /\ Is("approved") /\ row.hls = "" /\ row.public # None
    /\ row' = [row EXCEPT !.hls = "processing"]
    /\ WorkerIs(w, [doing |-> "cutting", video |-> row', folder |-> None])
    /\ UNCHANGED <<work, files, seen, deaths, removed>>

\* The pieces go to public storage before the row is asked again.
Cut(w) ==
    /\ Busy(w, "cutting") /\ worker[w].video.public \in public /\ MaySave
    /\ folders' = folders \cup {New}
    /\ made' = New
    /\ worker' = [worker EXCEPT ![w].doing = "publishing", ![w].folder = New]
    /\ UNCHANGED <<row, work, private, public, seen, deaths, removed>>

\* Mutant of MayPublish: the review is not asked again.
MayPublishAnyway == row # NoRow

MayPublish == Is("approved")

\* Under the row's lock: the stream is shown, or thrown away.
Publish(w) ==
    /\ Busy(w, "publishing")
    /\ \/ /\ MayPublish
          /\ row' = [row EXCEPT !.hls = "ready", !.dir = worker[w].folder]
          /\ UNCHANGED folders
       \/ /\ ~MayPublish
          /\ folders' = folders \ {worker[w].folder}
          /\ UNCHANGED row
    /\ WorkerIs(w, Resting)
    /\ UNCHANGED <<work, private, public, made, seen, deaths, removed>>

\* Whatever the row has become, if it is still there.
FailStream(w) ==
    /\ Busy(w, "cutting")
    /\ row' = IF row = NoRow THEN row ELSE [row EXCEPT !.hls = "failed"]
    /\ WorkerIs(w, Resting)
    /\ UNCHANGED <<work, files, seen, deaths, removed>>

MayRequeueStream == row # NoRow /\ row.hls = "processing"

\* tidy, LEASE after the claim.
RequeueStream ==
    /\ MayRequeueStream
    /\ \A w \in Workers : worker[w].doing \notin {"cutting", "publishing"}
    /\ row' = [row EXCEPT !.hls = ""]
    /\ UNCHANGED <<work, files, worker, seen, deaths, removed>>

\* A worker is killed; systemd starts another.
WorkerDies(w) ==
    /\ ~Busy(w, "idle") /\ deaths < MaxDeaths
    /\ deaths' = deaths + 1
    /\ WorkerIs(w, Resting)
    /\ UNCHANGED <<row, work, files, seen, removed>>

-----------------------------------------------------------------------------
(* The review.                                                             *)

\* A request loads the video; its decision is applied to what it loaded.
OpenReview ==
    /\ seen = NoRow /\ row.status \in Reviewable
    /\ seen' = row
    /\ UNCHANGED <<row, work, files, worker, deaths, removed>>

Changes(decision) == seen # NoRow /\ seen.status # decision

\* Mutant of Gone: a file is copied, and stays where it was.
Left(file) == {}

Gone(file) == {file}

\* The file is copied to public storage and deleted where it was; then the
\* whole row is saved.  If the file is gone, the decision fails.
Approve ==
    /\ Changes("approved")
    /\ \/ /\ seen.review \in private /\ MaySave
          /\ public' = public \cup {New} /\ private' = private \ Gone(seen.review)
          /\ made' = New
          /\ row' = [seen EXCEPT !.status = "approved", !.hls = "",
                                 !.review = None, !.public = New]
       \/ /\ seen.review \notin private
          /\ UNCHANGED <<row, private, public, made>>
    /\ seen' = NoRow
    /\ UNCHANGED <<work, folders, worker, deaths, removed>>

\* The other way, and the stream goes too.  What was never public has no file
\* to move: its row is saved, or inserted again.
TakeDown(decision) ==
    /\ Changes(decision)
    /\ \/ /\ seen.public \in public /\ MaySave
          /\ private' = private \cup {New} /\ public' = public \ Gone(seen.public)
          /\ made' = New
          /\ folders' = folders \ Gone(seen.dir)
          /\ row' = [seen EXCEPT !.status = decision, !.hls = "", !.dir = None,
                                 !.review = New, !.public = None]
       \/ /\ seen.public = None
          /\ row' = [seen EXCEPT !.status = decision, !.hls = "", !.dir = None]
          /\ UNCHANGED files
       \/ /\ seen.public \notin public \cup {None}
          /\ UNCHANGED <<row, files>>
    /\ seen' = NoRow
    /\ UNCHANGED <<work, worker, deaths, removed>>

-----------------------------------------------------------------------------
(* The specification.                                                      *)

Init ==
    /\ row = NoRow /\ work = <<>>
    /\ private = {} /\ public = {} /\ folders = {} /\ made = 0
    /\ worker = [w \in Workers |-> Resting]
    /\ seen = NoRow
    /\ deaths = 0 /\ removed = FALSE

WorkerStep(w) ==
    \/ Claim(w) \/ Encode(w) \/ SaveEncoded(w) \/ FailEncode(w) \/ RemoveWorkFile(w)
    \/ ClaimStream(w) \/ Cut(w) \/ Publish(w) \/ FailStream(w)

Review == OpenReview \/ Approve \/ \E d \in {"pending", "rejected"} : TakeDown(d)

Next ==
    \/ StartUpload \/ Remove \/ Review
    \/ \E offset \in 0..(Pieces - 1) : ReceiveChunk(offset) \/ ChunkDies(offset)
    \/ \E w \in Workers : WorkerStep(w) \/ WorkerDies(w)
    \/ Requeue \/ RequeueStream

Spec == Init /\ [][Next]_vars

\* The worker runs for ever (systemd restarts it) and tidies every few minutes.
Fairness ==
    /\ \A w \in Workers : WF_vars(WorkerStep(w))
    /\ WF_vars(Requeue) /\ WF_vars(RequeueStream)

FairSpec == Spec /\ Fairness

-----------------------------------------------------------------------------
(* Properties.                                                             *)

\* What is queued for the encoder, and what it reads, is the file: every piece
\* once, in order, however often pieces were sent and requests died.
WholeFile == row.status \in {"queued", "processing"} => work = Whole

\* While the trainer has not removed it, a video's row names a file where its
\* decision says it is, and nothing is at a public address before it has been
\* approved or after it has been taken down.
FilesFollowTheReview ==
    removed \/ row = NoRow \/
        /\ row.status = "approved" => row.public \in public /\ row.review = None
        /\ row.status \in {"pending", "rejected"} => row.review \in private
        /\ row.status # "approved" => public = {}

\* A stream the player is told of is there, of an approved video.
StreamPlays ==
    row # NoRow /\ row.hls = "ready" => row.dir \in folders /\ row.status = "approved"

\* What staff can decide on, and have decided, does not go back to being
\* prepared: a worker that comes back never takes it from them.
ReviewIsNotUndone ==
    [][row.status \in Reviewable => row'.status \in Reviewable \cup {"none"}]_vars

\* A video that arrived in full is prepared or refused, though workers die.
IsDecided == Is("queued") ~> ~(Is("queued") \/ Is("processing"))

\* An approved video gets its stream, or is told it has none.
StreamIsMade ==
    Is("approved") ~> (~Is("approved") \/ row.hls \in {"ready", "failed"})

\* Nothing the worker was given is left half made: files are decided on and
\* approved videos get their stream, through deaths, leases and take-downs.
NothingIsLeftHalfMade == IsDecided /\ StreamIsMade
=============================================================================

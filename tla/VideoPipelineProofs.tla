------------------------ MODULE VideoPipelineProofs ------------------------
(***************************************************************************)
(* What a teaching video keeps true from its first piece to its listing,   *)
(* for any number of pieces and workers and however often they die.        *)
(***************************************************************************)
EXTENDS VideoPipeline, SequenceTheorems, TLAPS

-----------------------------------------------------------------------------
(* The inductive invariant.                                                *)

Encoding(w) == worker[w].doing \in {"encoding", "saving"}
Streaming(w) == worker[w].doing \in {"cutting", "publishing"}

\* The work file starts with the pieces the row counts, and is whole from then on.
PiecesInOrder ==
    /\ row.status = "uploading" =>
           row.received <= Len(work) /\ \A n \in 1..row.received : work[n] = n
    /\ WholeFile

\* A video is encoded once: its worker finds the row as it left it, or removed, and
\* nobody reviews it meanwhile.
EncodedOnce ==
    /\ \A v, w \in Workers : Encoding(v) /\ Encoding(w) => v = w
    /\ \A w \in Workers : Encoding(w) =>
           /\ row.status \in {"processing", "none"}
           /\ row = NoRow => removed
           /\ seen = NoRow
           /\ worker[w].video \in Row
           /\ worker[w].video.hls = "" /\ worker[w].video.dir = None
    /\ \A w \in Workers : Busy(w, "clearing") =>
           /\ row.status \notin {"uploading", "queued", "processing"}
           /\ row = NoRow => removed

\* Once the trainer removed it, the video is not uploaded again.
RemovedForGood == removed => row.status \notin {"uploading", "queued", "processing"}

\* There is no stream before there is a decision: who cuts one finds the video decided
\* on, or removed.
NoStreamYet ==
    /\ row.status \notin Reviewable \cup {"none"} => row.hls = "" /\ row.dir = None
    /\ \A w \in Workers : Streaming(w) =>
           /\ row.status \in Reviewable \cup {"none"}
           /\ row = NoRow => removed

\* What the reviewer loaded can be decided on; only the stream is newer, and the video
\* may have been removed.
ReviewIsOpen ==
    seen # NoRow =>
        /\ seen.status \in Reviewable
        /\ ~removed => /\ row.status = seen.status
                       /\ row.review = seen.review /\ row.public = seen.public

\* Before it is removed its files are where its decision says, and public ones are
\* those of its row.
FilesFit ==
    /\ FilesFollowTheReview
    /\ ~removed => /\ row.status # "approved" => public = {}
                   /\ row.status = "approved" => public = {row.public}

\* A stream that is being cut is its worker's alone until it is shown.
Known(folder) == folder # None /\ folder <= made
StreamIsItsWorkers ==
    /\ row # NoRow => row.dir <= made
    /\ seen # NoRow => seen.dir <= made
    /\ \A w \in Workers : Busy(w, "publishing") =>
           /\ worker[w].folder \in folders /\ Known(worker[w].folder)
           /\ row # NoRow => row.dir # worker[w].folder
           /\ seen # NoRow => seen.dir # worker[w].folder
    /\ \A v, w \in Workers : /\ Busy(v, "publishing") /\ Busy(w, "publishing")
                             /\ worker[v].folder = worker[w].folder
                             => v = w

IInv == /\ TypeOK /\ PiecesInOrder /\ EncodedOnce /\ RemovedForGood /\ NoStreamYet
        /\ ReviewIsOpen /\ FilesFit /\ StreamIsItsWorkers /\ StreamPlays

-----------------------------------------------------------------------------
(* Types.                                                                  *)

\* What no step does to a video that can be decided on.
Stays == row.status \in Reviewable => row'.status \in Reviewable \cup {"none"}

LEMMA NoRowIsNone ==
    /\ NoRow.status = "none" /\ NoRow \notin Row
    /\ \A r \in Row : r.status # "none"
    /\ None \notin Names
BY VideoAssumption DEF NoRow, Row, Statuses, Reviewable, None, Names

LEMMA RowIsThere ==
    ASSUME TypeOK
    PROVE  /\ row.status # "none" => row \in Row
           /\ row # NoRow => row \in Row
           /\ seen # NoRow => seen \in Row
           /\ row.status = "none" <=> row = NoRow
BY NoRowIsNone DEF TypeOK

LEMMA NewName ==
    ASSUME TypeOK, MaySave
    PROVE  New \in Names /\ New # None /\ New \in 0..MaxFiles
BY VideoAssumption DEF TypeOK, MaySave, New, Names, None

LEMMA FirstPieces ==
    ASSUME NEW S, NEW file \in Seq(S), NEW k \in Nat, k <= Len(file)
    PROVE  /\ SubSeq(file, 1, k) \in Seq(S) /\ Len(SubSeq(file, 1, k)) = k
           /\ \A n \in 1..k : SubSeq(file, 1, k)[n] = file[n]
<1>1. \A n \in 1..k : file[n] \in S /\ 1 + n - 1 = n
    BY ElementOfSeq, LenProperties
<1>2. 1 \in Int /\ k \in Int /\ k - 1 + 1 = k /\ (1 <= k \/ k = 0)
    OBVIOUS
<1>3. /\ SubSeq(file, 1, k) \in Seq(S)
      /\ Len(SubSeq(file, 1, k)) = IF 1 <= k THEN k - 1 + 1 ELSE 0
      /\ \A n \in 1..k - 1 + 1 : SubSeq(file, 1, k)[n] = file[1 + n - 1]
    BY <1>1, <1>2, SubSeqProperties
<1>. QED BY <1>1, <1>2, <1>3

LEMMA PieceIsAppended ==
    ASSUME TypeOK, PiecesInOrder, Is("uploading"), NEW x \in 0..Pieces, row.received < Pieces
    PROVE  LET file == Append(CutBack(work), x)
           IN  /\ file \in Seq(0..Pieces) /\ Len(file) = row.received + 1
               /\ \A n \in 1..row.received : file[n] = n
               /\ file[row.received + 1] = x
<1>. DEFINE k == row.received
<1>1. k \in Nat /\ k <= Len(work) /\ work \in Seq(0..Pieces)
    BY RowIsThere DEF TypeOK, Is, Row, PiecesInOrder
<1>2. /\ CutBack(work) \in Seq(0..Pieces) /\ Len(CutBack(work)) = k
      /\ \A n \in 1..k : CutBack(work)[n] = work[n]
    BY <1>1, FirstPieces DEF CutBack
<1>. HIDE DEF k
<1>3. \A n \in 1..k : CutBack(work)[n] = n
    BY <1>2 DEF PiecesInOrder, Is, k
<1>. QED BY <1>1, <1>2, <1>3, AppendProperties DEF k

-----------------------------------------------------------------------------
(* The upload.                                                             *)

\* A step that leaves the row, the files that decisions move and the review alone.
LEMMA ReviewLeft ==
    ASSUME IInv, UNCHANGED <<row, private, public, seen, removed>>
    PROVE  RemovedForGood' /\ ReviewIsOpen' /\ FilesFit' /\ Stays
BY DEF IInv, RemovedForGood, ReviewIsOpen, FilesFit, FilesFollowTheReview, Stays

\* A step that leaves the workers, the streams and the names alone, and gives neither
\* row another stream than theirs.
LEMMA StreamsLeft ==
    ASSUME IInv, UNCHANGED <<worker, folders, made>>,
           row' # NoRow => row'.dir = None \/ (row # NoRow /\ row'.dir = row.dir),
           seen' # NoRow => (seen # NoRow /\ seen'.dir = seen.dir)
                            \/ (row # NoRow /\ seen'.dir = row.dir)
    PROVE  StreamIsItsWorkers'
<1>1. None <= made
    BY DEF IInv, TypeOK, None
<1>2. \A w \in Workers : Busy(w, "publishing") => worker[w].folder # None
    BY DEF IInv, StreamIsItsWorkers, Known
<1>. QED BY <1>1, <1>2 DEF IInv, StreamIsItsWorkers, Busy, Known

\* What a worker may do that leaves rows, files and streams alone: go on, or give up.
GoesOn(v) ==
    /\ Encoding(v)' => Encoding(v) /\ worker'[v].video = worker[v].video
    /\ Busy(v, "clearing")' => Busy(v, "clearing")
    /\ Streaming(v)' => Streaming(v)
    /\ Busy(v, "publishing")' => Busy(v, "publishing") /\ worker'[v].folder = worker[v].folder

LEMMA WorkersLeft ==
    ASSUME IInv, UNCHANGED <<row, folders, made, seen, removed>>, \A v \in Workers : GoesOn(v)
    PROVE  EncodedOnce' /\ NoStreamYet' /\ StreamIsItsWorkers'
<1>1. EncodedOnce'
    <2>1. \A v \in Workers : Encoding(v)' => Encoding(v) /\ worker'[v].video = worker[v].video
        BY DEF GoesOn
    <2>2. \A v \in Workers : Busy(v, "clearing")' => Busy(v, "clearing")
        BY DEF GoesOn
    <2>. QED BY <2>1, <2>2 DEF IInv, EncodedOnce
<1>2. NoStreamYet'
    BY DEF GoesOn, IInv, NoStreamYet
<1>3. StreamIsItsWorkers'
    <2>1. \A v \in Workers : Busy(v, "publishing")' =>
              Busy(v, "publishing") /\ worker'[v].folder = worker[v].folder
        BY DEF GoesOn
    <2>. QED BY <2>1 DEF IInv, StreamIsItsWorkers, Known
<1>. QED BY <1>1, <1>2, <1>3

\* One worker changes, the others do not.
LEMMA OneGoesOn ==
    ASSUME TypeOK, NEW w \in Workers, NEW state, WorkerIs(w, state),
           state.doing \in {"encoding", "saving"} => Encoding(w) /\ state.video = worker[w].video,
           state.doing = "clearing" => Busy(w, "clearing"),
           state.doing \notin {"cutting", "publishing"}
    PROVE  \A v \in Workers : GoesOn(v)
<1>1. worker'[w] = state /\ \A v \in Workers \ {w} : worker'[v] = worker[v]
    BY DEF TypeOK, WorkerIs
<1>. QED BY <1>1 DEF GoesOn, Encoding, Streaming, Busy

LEMMA StartUploadKeeps ==
    ASSUME IInv, StartUpload
    PROVE  IInv' /\ Stays
<1>. DEFINE new == [status |-> "uploading", received |-> 0, review |-> None,
                    public |-> None, hls |-> "", dir |-> None]
<1>1. /\ row' = new /\ row = NoRow /\ row.status = "none" /\ ~removed
      /\ row'.status = "uploading" /\ row'.received = 0 /\ row'.hls = "" /\ row'.dir = None
    BY NoRowIsNone DEF StartUpload
<1>2. new \in Row
    BY VideoAssumption DEF Row, Statuses, Reviewable, HlsStates
<1>3. TypeOK' /\ row' # NoRow
    BY <1>1, <1>2, NoRowIsNone DEF StartUpload, files, IInv, TypeOK
<1>. HIDE DEF new
<1>4. seen = NoRow
    BY <1>1, NoRowIsNone DEF IInv, ReviewIsOpen, Reviewable
<1>5. \A w \in Workers : ~Encoding(w) /\ ~Busy(w, "clearing") /\ ~Streaming(w)
    BY <1>1 DEF IInv, EncodedOnce, NoStreamYet
<1>6. PiecesInOrder'
    <2>1. work' = work /\ work \in Seq(0..Pieces)
        BY DEF StartUpload, IInv, TypeOK
    <2>2. 0 <= Len(work')
        BY <2>1, LenProperties
    <2>3. WholeFile'
        BY <1>1 DEF WholeFile
    <2>4. row'.received = 0
        BY <1>1
    <2>5. row'.received <= Len(work') /\ \A n \in 1..row'.received : FALSE
        BY <2>2, <2>4
    <2>. QED BY <2>3, <2>5 DEF PiecesInOrder
<1>7. EncodedOnce' /\ NoStreamYet'
    BY <1>1, <1>5 DEF StartUpload, files, EncodedOnce, NoStreamYet, Encoding, Streaming, Busy
<1>8. RemovedForGood' /\ ReviewIsOpen'
    BY <1>1, <1>4 DEF StartUpload, files, RemovedForGood, ReviewIsOpen
<1>9. FilesFit' /\ StreamPlays' /\ Stays
    BY <1>1 DEF StartUpload, files, IInv, FilesFit, FilesFollowTheReview, StreamPlays, Stays, Reviewable
<1>10. StreamIsItsWorkers'
    BY <1>1, <1>4, StreamsLeft DEF StartUpload, files
<1>. QED BY <1>3, <1>6, <1>7, <1>8, <1>9, <1>10 DEF IInv

LEMMA ReceiveChunkKeeps ==
    ASSUME IInv, NEW offset \in 0..(Pieces - 1), ReceiveChunk(offset)
    PROVE  IInv' /\ Stays
<1>1. /\ row \in Row /\ row # NoRow /\ row.status = "uploading"
      /\ offset = row.received /\ row.received \in 0..(Pieces - 1)
    BY RowIsThere DEF ReceiveChunk, files, Is, InPlace, IInv
<1>2. row' = [row EXCEPT !.received = @ + 1,
                         !.status = IF row.received + 1 = Pieces THEN "queued" ELSE @]
    BY DEF ReceiveChunk, files
<1>3. /\ row' \in Row /\ row' # NoRow /\ row'.received = row.received + 1
      /\ row'.status \in {"uploading", "queued"}
      /\ row'.status = "queued" => row'.received = Pieces
      /\ row'.hls = row.hls /\ row'.dir = row.dir
    <2>. DEFINE status == IF row.received + 1 = Pieces THEN "queued" ELSE "uploading"
    <2>1. row' = [row EXCEPT !.received = row.received + 1, !.status = status]
        BY <1>1, <1>2
    <2>2. status \in {"uploading", "queued"} /\ row.received + 1 \in 0..Pieces
        BY <1>1, VideoAssumption
    <2>3. status = "queued" => row.received + 1 = Pieces
        OBVIOUS
    <2>. HIDE DEF status
    <2>4. row' \in Row /\ row'.received = row.received + 1 /\ row'.status = status
          /\ row'.hls = row.hls /\ row'.dir = row.dir
        BY <1>1, <2>1, <2>2 DEF Row, Statuses
    <2>. QED BY <2>2, <2>3, <2>4, NoRowIsNone
<1>4. /\ work' \in Seq(0..Pieces) /\ Len(work') = row'.received
      /\ \A n \in 1..row'.received : work'[n] = n
    <2>1. offset + 1 \in 0..Pieces /\ row.received < Pieces /\ row.received \in Nat
        BY <1>1, VideoAssumption
    <2>2. work' = Append(CutBack(work), offset + 1)
        BY DEF ReceiveChunk, files
    <2>3. /\ work' \in Seq(0..Pieces) /\ Len(work') = row.received + 1
          /\ \A n \in 1..row.received : work'[n] = n
          /\ work'[row.received + 1] = row.received + 1
        BY <1>1, <2>1, <2>2, PieceIsAppended DEF IInv, Is
    <2>. QED BY <1>3, <2>1, <2>3
<1>5. TypeOK'
    BY <1>1, <1>3, <1>4, VideoAssumption DEF ReceiveChunk, files, IInv, TypeOK
<1>6. PiecesInOrder'
    <2>1. row'.status = "queued" => work' = Whole
        <3>1. work' \in [1..Len(work') -> 0..Pieces]
            BY <1>4, LenProperties
        <3>. QED BY <1>3, <1>4, <3>1 DEF Whole
    <2>2. row'.received <= Len(work')
        BY <1>3, <1>4 DEF Row
    <2>. QED BY <1>3, <1>4, <2>1, <2>2 DEF PiecesInOrder, WholeFile, Whole
<1>7. /\ \A w \in Workers : ~Encoding(w) /\ ~Busy(w, "clearing") /\ ~Streaming(w)
      /\ seen = NoRow /\ ~removed
    BY <1>1 DEF IInv, EncodedOnce, NoStreamYet, ReviewIsOpen, Reviewable, RemovedForGood
<1>8. EncodedOnce' /\ NoStreamYet'
    BY <1>1, <1>3, <1>7
       DEF ReceiveChunk, files, IInv, EncodedOnce, NoStreamYet, Encoding, Streaming, Busy,
           Reviewable
<1>9. RemovedForGood' /\ ReviewIsOpen'
    BY <1>1, <1>3, <1>7 DEF ReceiveChunk, files, IInv, RemovedForGood, ReviewIsOpen
<1>10. FilesFit' /\ StreamPlays' /\ Stays
    BY <1>1, <1>3
       DEF ReceiveChunk, files, IInv, FilesFit, FilesFollowTheReview, NoStreamYet, StreamPlays, Stays,
           Reviewable
<1>11. StreamIsItsWorkers'
    BY <1>1, <1>3, StreamsLeft DEF ReceiveChunk, files
<1>. QED BY <1>5, <1>6, <1>8, <1>9, <1>10, <1>11 DEF IInv

LEMMA ChunkDiesKeeps ==
    ASSUME IInv, NEW offset \in 0..(Pieces - 1), ChunkDies(offset)
    PROVE  IInv' /\ Stays
<1>1. /\ row \in Row /\ row.status = "uploading"
      /\ offset = row.received /\ row.received \in 0..(Pieces - 1)
    BY RowIsThere DEF ChunkDies, files, Is, InPlace, IInv
<1>2. PICK piece \in {0, offset + 1} : work' = Append(CutBack(work), piece)
    BY DEF ChunkDies, files
<1>3. /\ work' \in Seq(0..Pieces) /\ Len(work') = row.received + 1
      /\ \A n \in 1..row.received : work'[n] = n
    <2>1. piece \in 0..Pieces /\ row.received < Pieces
        BY <1>1, VideoAssumption
    <2>. QED BY <1>1, <1>2, <2>1, PieceIsAppended DEF IInv, Is
<1>4. TypeOK'
    BY <1>1, <1>3, VideoAssumption DEF ChunkDies, files, IInv, TypeOK
<1>5. PiecesInOrder'
    <2>1. row.received <= Len(work')
        BY <1>1, <1>3
    <2>. QED BY <1>1, <1>3, <2>1 DEF ChunkDies, files, PiecesInOrder, WholeFile
<1>6. EncodedOnce' /\ NoStreamYet' /\ StreamPlays'
    BY DEF ChunkDies, files, IInv, EncodedOnce, NoStreamYet, StreamPlays, Encoding, Streaming, Busy
<1>7. RemovedForGood' /\ ReviewIsOpen' /\ FilesFit' /\ Stays
    BY ReviewLeft DEF ChunkDies, files
<1>8. StreamIsItsWorkers'
    BY StreamsLeft DEF ChunkDies, files
<1>. QED BY <1>4, <1>5, <1>6, <1>7, <1>8 DEF IInv

LEMMA RemoveKeeps ==
    ASSUME IInv, Remove
    PROVE  IInv' /\ Stays
<1>1. /\ row' = NoRow /\ row'.status = "none" /\ removed' = TRUE
      /\ row \in Row /\ row # NoRow
    BY NoRowIsNone, RowIsThere DEF Remove, IInv
<1>2. TypeOK'
    <2>1. <<>> \in Seq(0..Pieces) /\ Len(<<>>) = 0 /\ 0 <= Pieces
        BY VideoAssumption
    <2>. QED BY <1>1, <2>1 DEF Remove, IInv, TypeOK
<1>3. PiecesInOrder' /\ RemovedForGood' /\ FilesFit' /\ StreamPlays' /\ Stays
    BY <1>1 DEF Remove, PiecesInOrder, WholeFile, RemovedForGood, FilesFit,
                FilesFollowTheReview, StreamPlays, Stays
<1>4. EncodedOnce' /\ NoStreamYet'
    BY <1>1 DEF Remove, IInv, EncodedOnce, NoStreamYet, Encoding, Streaming, Busy
<1>5. ReviewIsOpen'
    BY <1>1 DEF Remove, IInv, ReviewIsOpen
<1>6. StreamIsItsWorkers'
    BY <1>1 DEF Remove, IInv, StreamIsItsWorkers, Busy, Known
<1>. QED BY <1>2, <1>3, <1>4, <1>5, <1>6 DEF IInv

-----------------------------------------------------------------------------
(* The encoder.                                                            *)

LEMMA ClaimKeeps ==
    ASSUME IInv, NEW w \in Workers, Claim(w)
    PROVE  IInv' /\ Stays
<1>1. /\ row \in Row /\ row # NoRow /\ row.status = "queued"
      /\ row' = [row EXCEPT !.status = "processing"]
    BY NoRowIsNone, RowIsThere DEF Claim, MayClaim, Is, IInv
<1>2. /\ row' \in Row /\ row' # NoRow /\ row'.status = "processing"
      /\ row'.hls = "" /\ row'.dir = None
    BY <1>1, NoRowIsNone DEF IInv, NoStreamYet, Reviewable, Row, Statuses
<1>3. /\ worker'[w] = [doing |-> "encoding", video |-> row', folder |-> None]
      /\ \A v \in Workers \ {w} : worker'[v] = worker[v]
    BY DEF Claim, WorkerIs, IInv, TypeOK
<1>4. /\ \A v \in Workers : ~Encoding(v) /\ ~Busy(v, "clearing") /\ ~Streaming(v)
      /\ seen = NoRow /\ ~removed
    BY <1>1, NoRowIsNone
       DEF IInv, EncodedOnce, NoStreamYet, ReviewIsOpen, Reviewable, RemovedForGood
<1>5. TypeOK'
    BY <1>2 DEF Claim, files, WorkerIs, IInv, TypeOK, Worker, Doing
<1>6. PiecesInOrder'
    BY <1>1, <1>2 DEF Claim, IInv, PiecesInOrder, WholeFile
<1>7. /\ \A v \in Workers : Encoding(v)' => v = w
      /\ \A v \in Workers : ~Busy(v, "clearing")' /\ ~Streaming(v)' /\ ~Busy(v, "publishing")'
      /\ worker'[w].video = row' /\ seen' = NoRow
    BY <1>3, <1>4 DEF Claim, Encoding, Streaming, Busy
<1>8. EncodedOnce' /\ NoStreamYet' /\ StreamIsItsWorkers'
    <2>1. EncodedOnce'
        BY <1>2, <1>7 DEF EncodedOnce
    <2>2. NoStreamYet'
        BY <1>2, <1>7 DEF NoStreamYet
    <2>3. StreamIsItsWorkers'
        <3>1. None <= made'
            BY DEF Claim, files, IInv, TypeOK, None
        <3>. QED BY <1>2, <1>7, <3>1 DEF StreamIsItsWorkers
    <2>. QED BY <2>1, <2>2, <2>3
<1>9. RemovedForGood' /\ ReviewIsOpen'
    BY <1>4 DEF Claim, RemovedForGood, ReviewIsOpen
<1>10. FilesFit' /\ StreamPlays' /\ Stays
    BY <1>1, <1>2
       DEF Claim, files, IInv, FilesFit, FilesFollowTheReview, StreamPlays, Stays, Reviewable
<1>. QED BY <1>5, <1>6, <1>7, <1>8, <1>9, <1>10 DEF IInv

LEMMA EncodeKeeps ==
    ASSUME IInv, NEW w \in Workers, Encode(w)
    PROVE  IInv' /\ Stays
<1>1. /\ worker'[w] = [worker[w] EXCEPT !.doing = "saving"]
      /\ \A v \in Workers \ {w} : worker'[v] = worker[v]
      /\ worker[w] \in Worker /\ worker[w].doing = "encoding"
    BY DEF Encode, Busy, Now, IInv, TypeOK
<1>2. /\ worker'[w] \in Worker /\ worker'[w].doing = "saving"
      /\ worker'[w].video = worker[w].video
    BY <1>1 DEF Worker, Doing
<1>3. TypeOK'
    BY <1>2 DEF Encode, files, Now, IInv, TypeOK
<1>4. PiecesInOrder' /\ StreamPlays'
    BY DEF Encode, files, IInv, PiecesInOrder, WholeFile, StreamPlays
<1>5. \A v \in Workers : GoesOn(v)
    BY <1>1, <1>2 DEF GoesOn, Encoding, Streaming, Busy
<1>6. EncodedOnce' /\ NoStreamYet' /\ StreamIsItsWorkers'
    BY <1>5, WorkersLeft DEF Encode, files
<1>7. RemovedForGood' /\ ReviewIsOpen' /\ FilesFit' /\ Stays
    BY ReviewLeft DEF Encode, files
<1>. QED BY <1>3, <1>4, <1>5, <1>6, <1>7 DEF IInv

LEMMA SaveEncodedKeeps ==
    ASSUME IInv, NEW w \in Workers, SaveEncoded(w)
    PROVE  IInv' /\ Stays
<1>. DEFINE video == worker[w].video
<1>1. /\ Encoding(w) /\ video \in Row /\ video.hls = "" /\ video.dir = None
      /\ row.status \in {"processing", "none"} /\ (row = NoRow => removed) /\ seen = NoRow
    BY DEF SaveEncoded, Busy, Encoding, IInv, EncodedOnce
<1>2. New \in Names /\ New # None /\ New \in 0..MaxFiles
    BY NewName DEF SaveEncoded, IInv
<1>3. row' = [video EXCEPT !.status = "pending", !.review = New]
    BY DEF SaveEncoded
<1>. HIDE DEF video
<1>4. /\ row' \in Row /\ row' # NoRow /\ row'.status = "pending" /\ row'.review = New
      /\ row'.hls = "" /\ row'.dir = None
    BY <1>1, <1>2, <1>3, NoRowIsNone DEF Row, Statuses, Reviewable
<1>5. /\ worker'[w] = [worker[w] EXCEPT !.doing = "clearing"]
      /\ \A v \in Workers \ {w} : worker'[v] = worker[v] /\ ~Encoding(v)
      /\ worker[w] \in Worker
    BY <1>1 DEF SaveEncoded, Now, IInv, TypeOK, EncodedOnce
<1>6. worker'[w] \in Worker /\ worker'[w].doing = "clearing"
    BY <1>5 DEF Worker, Doing
<1>7. TypeOK'
    BY <1>2, <1>4, <1>6 DEF SaveEncoded, Now, IInv, TypeOK
<1>8. PiecesInOrder' /\ RemovedForGood'
    BY <1>4 DEF PiecesInOrder, WholeFile, RemovedForGood
<1>9. EncodedOnce'
    BY <1>4, <1>5, <1>6 DEF EncodedOnce, Encoding, Busy
<1>10. NoStreamYet'
    BY <1>4, <1>5, <1>6 DEF SaveEncoded, IInv, NoStreamYet, Streaming, Reviewable
<1>11. ReviewIsOpen' /\ StreamPlays' /\ Stays
    BY <1>1, <1>4 DEF SaveEncoded, ReviewIsOpen, StreamPlays, Stays, Reviewable
<1>12. FilesFit'
    <2>1. ~removed => public' = {}
        BY <1>1 DEF SaveEncoded, IInv, FilesFit
    <2>2. private' = private \cup {New} /\ removed' = removed
        BY DEF SaveEncoded
    <2>. QED BY <1>4, <2>1, <2>2 DEF FilesFit, FilesFollowTheReview
<1>13. StreamIsItsWorkers'
    <2>1. \A v \in Workers : Busy(v, "publishing")' =>
              /\ Busy(v, "publishing") /\ worker'[v].folder = worker[v].folder
              /\ worker[v].folder # None /\ worker[v].folder <= made
        BY <1>5, <1>6 DEF Busy, IInv, StreamIsItsWorkers, Known
    <2>2. made' = made + 1 /\ made \in Nat /\ folders' = folders /\ None <= made'
          /\ \A v \in Workers : worker[v].folder \in Nat
        BY VideoAssumption DEF SaveEncoded, New, IInv, TypeOK, None, Worker, Names
    <2>3. \A v \in Workers : Busy(v, "publishing")' =>
              (worker[v].folder \in folders /\ Known(worker[v].folder))'
        BY <2>1, <2>2 DEF IInv, StreamIsItsWorkers, Known
    <2>4. \A v \in Workers : Busy(v, "publishing")' => row'.dir # worker'[v].folder
        BY <1>4, <2>1
    <2>5. \A u, v \in Workers : /\ Busy(u, "publishing")' /\ Busy(v, "publishing")'
                                /\ worker'[u].folder = worker'[v].folder
                                => u = v
        BY <2>1 DEF IInv, StreamIsItsWorkers
    <2>6. row'.dir <= made' /\ seen' = NoRow
        BY <1>1, <1>4, <2>2 DEF SaveEncoded
    <2>. QED BY <2>3, <2>4, <2>5, <2>6 DEF StreamIsItsWorkers
<1>. QED BY <1>7, <1>8, <1>9, <1>10, <1>11, <1>12, <1>13 DEF IInv

LEMMA FailEncodeKeeps ==
    ASSUME IInv, NEW w \in Workers, FailEncode(w)
    PROVE  IInv' /\ Stays
<1>1. /\ Encoding(w) /\ row.status \in {"processing", "none"} /\ (row = NoRow => removed)
      /\ seen = NoRow /\ \A v \in Workers \ {w} : ~Encoding(v)
    BY DEF FailEncode, Encoding, IInv, EncodedOnce
<1>2. CASE row # NoRow
    <2>1. /\ row \in Row /\ row.status = "processing" /\ ~removed
          /\ row' = [row EXCEPT !.status = "failed"]
        BY <1>1, <1>2, RowIsThere, NoRowIsNone DEF FailEncode, IInv, RemovedForGood
    <2>2. /\ row' \in Row /\ row' # NoRow /\ row'.status = "failed"
          /\ row'.hls = "" /\ row'.dir = None
        BY <2>1, NoRowIsNone DEF IInv, NoStreamYet, Reviewable, Row, Statuses
    <2>3. /\ worker'[w] = [worker[w] EXCEPT !.doing = "clearing"]
          /\ \A v \in Workers \ {w} : worker'[v] = worker[v]
          /\ worker[w] \in Worker
        BY <1>2 DEF FailEncode, Now, IInv, TypeOK
    <2>4. worker'[w] \in Worker /\ worker'[w].doing = "clearing"
        BY <2>3 DEF Worker, Doing
    <2>5. \A v \in Workers : ~Streaming(v)
        BY <2>1 DEF IInv, NoStreamYet, Reviewable
    <2>6. TypeOK'
        BY <1>2, <2>2, <2>4 DEF FailEncode, files, Now, IInv, TypeOK
    <2>7. PiecesInOrder' /\ RemovedForGood'
        BY <2>2 DEF PiecesInOrder, WholeFile, RemovedForGood
    <2>8. EncodedOnce' /\ NoStreamYet'
        BY <1>1, <2>2, <2>3, <2>4, <2>5
           DEF FailEncode, EncodedOnce, NoStreamYet, Encoding, Streaming, Busy
    <2>9. ReviewIsOpen' /\ StreamPlays' /\ FilesFit' /\ Stays
        BY <1>1, <2>1, <2>2
           DEF FailEncode, files, IInv, ReviewIsOpen, StreamPlays, FilesFit,
               FilesFollowTheReview, Stays, Reviewable
    <2>10. StreamIsItsWorkers'
        <3>1. \A v \in Workers : ~Busy(v, "publishing")'
            BY <2>3, <2>4, <2>5 DEF Busy, Streaming
        <3>2. None <= made
            BY DEF IInv, TypeOK, None
        <3>. QED BY <1>1, <2>2, <3>1, <3>2 DEF FailEncode, files, StreamIsItsWorkers
    <2>. QED BY <2>6, <2>7, <2>8, <2>9, <2>10 DEF IInv
<1>3. CASE row = NoRow
    <2>1. /\ worker'[w] = Resting /\ Resting \in Worker /\ Resting.doing = "idle"
          /\ \A v \in Workers \ {w} : worker'[v] = worker[v]
        BY <1>3 DEF FailEncode, WorkerIs, IInv, TypeOK, Resting, Worker, Doing
    <2>2. UNCHANGED <<row, work, files, seen, deaths, removed>>
        BY <1>3 DEF FailEncode
    <2>3. TypeOK'
        BY <1>3, <2>1, <2>2 DEF FailEncode, WorkerIs, files, IInv, TypeOK
    <2>4. PiecesInOrder' /\ StreamPlays'
        BY <2>2 DEF files, IInv, PiecesInOrder, WholeFile, StreamPlays
    <2>5. EncodedOnce' /\ NoStreamYet'
        BY <2>1, <2>2 DEF IInv, EncodedOnce, NoStreamYet, Encoding, Streaming, Busy
    <2>6. StreamIsItsWorkers'
        BY <2>1, <2>2 DEF files, IInv, StreamIsItsWorkers, Busy, Known
    <2>7. RemovedForGood' /\ ReviewIsOpen' /\ FilesFit' /\ Stays
        BY <2>2, ReviewLeft DEF files
    <2>. QED BY <2>3, <2>4, <2>5, <2>6, <2>7 DEF IInv
<1>. QED BY <1>2, <1>3

LEMMA RemoveWorkFileKeeps ==
    ASSUME IInv, NEW w \in Workers, RemoveWorkFile(w)
    PROVE  IInv' /\ Stays
<1>1. Resting \in Worker /\ Resting.doing = "idle"
    BY DEF Resting, Worker, Doing
<1>2. row.status \notin {"uploading", "queued", "processing"}
    BY DEF RemoveWorkFile, IInv, EncodedOnce
<1>3. TypeOK'
    <2>1. <<>> \in Seq(0..Pieces) /\ Len(<<>>) = 0 /\ 0 <= Pieces
        BY VideoAssumption
    <2>. QED BY <1>1, <2>1 DEF RemoveWorkFile, files, WorkerIs, IInv, TypeOK
<1>4. PiecesInOrder' /\ StreamPlays'
    BY <1>2 DEF RemoveWorkFile, files, IInv, PiecesInOrder, WholeFile, StreamPlays
<1>5. EncodedOnce' /\ NoStreamYet' /\ StreamIsItsWorkers'
    <2>1. \A v \in Workers : GoesOn(v)
        BY <1>1, OneGoesOn DEF RemoveWorkFile, IInv
    <2>. QED BY <2>1, WorkersLeft DEF RemoveWorkFile, files
<1>6. RemovedForGood' /\ ReviewIsOpen' /\ FilesFit' /\ Stays
    BY ReviewLeft DEF RemoveWorkFile, files
<1>. QED BY <1>3, <1>4, <1>5, <1>6 DEF IInv

LEMMA WorkerDiesKeeps ==
    ASSUME IInv, NEW w \in Workers, WorkerDies(w)
    PROVE  IInv' /\ Stays
<1>1. Resting \in Worker /\ Resting.doing = "idle"
    BY DEF Resting, Worker, Doing
<1>2. TypeOK'
    BY <1>1, VideoAssumption DEF WorkerDies, files, WorkerIs, IInv, TypeOK
<1>3. PiecesInOrder' /\ StreamPlays'
    BY DEF WorkerDies, files, IInv, PiecesInOrder, WholeFile, StreamPlays
<1>4. EncodedOnce' /\ NoStreamYet' /\ StreamIsItsWorkers'
    <2>1. \A v \in Workers : GoesOn(v)
        BY <1>1, OneGoesOn DEF WorkerDies, IInv
    <2>. QED BY <2>1, WorkersLeft DEF WorkerDies, files
<1>5. RemovedForGood' /\ ReviewIsOpen' /\ FilesFit' /\ Stays
    BY ReviewLeft DEF WorkerDies, files
<1>. QED BY <1>2, <1>3, <1>4, <1>5 DEF IInv

LEMMA RequeueKeeps ==
    ASSUME IInv, Requeue
    PROVE  IInv' /\ Stays
<1>1. /\ row \in Row /\ row # NoRow /\ row.status = "processing"
      /\ row' = [row EXCEPT !.status = "queued"]
    BY NoRowIsNone, RowIsThere DEF Requeue, MayRequeue, Is, IInv
<1>2. /\ row' \in Row /\ row' # NoRow /\ row'.status = "queued"
      /\ row'.hls = "" /\ row'.dir = None
    BY <1>1, NoRowIsNone DEF IInv, NoStreamYet, Reviewable, Row, Statuses
<1>3. /\ \A v \in Workers : ~Encoding(v) /\ ~Busy(v, "clearing") /\ ~Streaming(v)
      /\ seen = NoRow /\ ~removed
    BY <1>1, NoRowIsNone
       DEF Requeue, Encoding, IInv, EncodedOnce, NoStreamYet, ReviewIsOpen, Reviewable,
           RemovedForGood
<1>4. UNCHANGED <<work, private, public, folders, made, worker, seen, deaths, removed>>
    BY DEF Requeue, files
<1>5. TypeOK' /\ PiecesInOrder'
    BY <1>1, <1>2, <1>4 DEF IInv, TypeOK, PiecesInOrder, WholeFile
<1>6. EncodedOnce' /\ NoStreamYet'
    BY <1>2, <1>3, <1>4 DEF EncodedOnce, NoStreamYet, Encoding, Streaming, Busy
<1>7. RemovedForGood' /\ ReviewIsOpen'
    BY <1>3, <1>4 DEF RemovedForGood, ReviewIsOpen
<1>8. FilesFit' /\ StreamPlays' /\ Stays
    BY <1>1, <1>2, <1>4
       DEF IInv, FilesFit, FilesFollowTheReview, StreamPlays, Stays, Reviewable
<1>9. StreamIsItsWorkers'
    BY <1>2, <1>4, StreamsLeft
<1>. QED BY <1>5, <1>6, <1>7, <1>8, <1>9 DEF IInv

-----------------------------------------------------------------------------
(* The stream.                                                             *)

\* A step that marks the stream of the row and leaves the rest of it.
Marked(state) ==
    /\ row' = [row EXCEPT !.hls = state]
    /\ state \in HlsStates \ {"ready"}
    /\ row.status \in Reviewable

LEMMA MarkedRow ==
    ASSUME IInv, NEW state, Marked(state)
    PROVE  /\ row \in Row /\ row # NoRow /\ row' \in Row /\ row' # NoRow
           /\ row'.status = row.status /\ row'.dir = row.dir /\ row'.hls = state
           /\ row'.review = row.review /\ row'.public = row.public
<1>1. row \in Row
    BY RowIsThere, NoRowIsNone DEF IInv, Marked, Reviewable
<1>. QED BY <1>1, NoRowIsNone DEF Marked, Row

LEMMA MarkedKeeps ==
    ASSUME IInv, NEW state, Marked(state),
           UNCHANGED <<work, private, public, folders, made, seen, removed>>
    PROVE  /\ PiecesInOrder' /\ RemovedForGood' /\ ReviewIsOpen' /\ FilesFit'
           /\ StreamPlays' /\ Stays
<1>1. /\ row # NoRow /\ row' # NoRow
      /\ row'.status = row.status /\ row'.dir = row.dir /\ row'.hls = state
      /\ row'.review = row.review /\ row'.public = row.public
      /\ state # "ready" /\ row.status \in Reviewable
    BY MarkedRow DEF Marked
<1>2. PiecesInOrder' /\ RemovedForGood'
    BY <1>1 DEF PiecesInOrder, WholeFile, RemovedForGood, Reviewable
<1>3. ReviewIsOpen'
    BY <1>1 DEF IInv, ReviewIsOpen
<1>4. FilesFit'
    BY <1>1 DEF IInv, FilesFit, FilesFollowTheReview
<1>5. StreamPlays' /\ Stays
    BY <1>1 DEF StreamPlays, Stays
<1>. QED BY <1>2, <1>3, <1>4, <1>5

LEMMA ClaimStreamKeeps ==
    ASSUME IInv, NEW w \in Workers, ClaimStream(w)
    PROVE  IInv' /\ Stays
<1>1. Marked("processing")
    BY DEF ClaimStream, Is, Marked, HlsStates, Reviewable
<1>2. /\ row # NoRow /\ row' \in Row /\ row' # NoRow /\ row'.dir = row.dir
      /\ row'.status = "approved"
    BY <1>1, MarkedRow DEF ClaimStream, Is
<1>3. /\ worker'[w] = [doing |-> "cutting", video |-> row', folder |-> None]
      /\ \A v \in Workers \ {w} : worker'[v] = worker[v]
      /\ UNCHANGED <<work, private, public, folders, made, seen, deaths, removed>>
    BY DEF ClaimStream, files, WorkerIs, IInv, TypeOK
<1>4. PiecesInOrder' /\ RemovedForGood' /\ ReviewIsOpen' /\ FilesFit' /\ StreamPlays' /\ Stays
    BY <1>1, <1>3, MarkedKeeps
<1>5. TypeOK'
    BY <1>2 DEF ClaimStream, files, WorkerIs, IInv, TypeOK, Worker, Doing
<1>6. /\ \A v \in Workers : ~Encoding(v)'
      /\ \A v \in Workers : Busy(v, "publishing")' =>
             Busy(v, "publishing") /\ worker'[v].folder = worker[v].folder
    <2>1. \A v \in Workers : ~Encoding(v)
        BY DEF ClaimStream, Is, IInv, EncodedOnce
    <2>. QED BY <1>3, <2>1 DEF Encoding, Busy
<1>7. EncodedOnce' /\ NoStreamYet'
    <2>1. row'.status \notin {"uploading", "queued", "processing"}
        BY <1>2
    <2>. QED BY <1>2, <1>6, <2>1 DEF EncodedOnce, NoStreamYet, Reviewable
<1>8. StreamIsItsWorkers'
    <2>1. \A v \in Workers : Busy(v, "publishing")' =>
              (worker[v].folder \in folders /\ Known(worker[v].folder))'
        BY <1>3, <1>6 DEF IInv, StreamIsItsWorkers, Known
    <2>. QED BY <1>2, <1>3, <1>6, <2>1 DEF IInv, StreamIsItsWorkers
<1>. QED BY <1>4, <1>5, <1>7, <1>8 DEF IInv

LEMMA CutKeeps ==
    ASSUME IInv, NEW w \in Workers, Cut(w)
    PROVE  IInv' /\ Stays
<1>1. New \in Names /\ New # None /\ New \in 0..MaxFiles /\ made \in Nat /\ New = made + 1
    BY NewName, VideoAssumption DEF Cut, IInv, TypeOK, New
<1>2. /\ worker'[w] = [worker[w] EXCEPT !.doing = "publishing", !.folder = New]
      /\ \A v \in Workers \ {w} : worker'[v] = worker[v]
      /\ worker[w] \in Worker /\ worker[w].doing = "cutting"
      /\ folders' = folders \cup {New} /\ made' = New
      /\ UNCHANGED <<row, work, private, public, seen, deaths, removed>>
    BY DEF Cut, Busy, IInv, TypeOK
<1>3. worker'[w] \in Worker /\ worker'[w].doing = "publishing" /\ worker'[w].folder = New
    BY <1>1, <1>2 DEF Worker, Doing
<1>4. TypeOK'
    BY <1>1, <1>2, <1>3 DEF Cut, IInv, TypeOK
<1>5. PiecesInOrder' /\ StreamPlays'
    BY <1>2 DEF IInv, PiecesInOrder, WholeFile, StreamPlays
<1>6. RemovedForGood' /\ ReviewIsOpen' /\ FilesFit' /\ Stays
    BY <1>2, ReviewLeft
<1>7. \A v \in Workers : /\ Encoding(v)' => Encoding(v) /\ worker'[v].video = worker[v].video
                         /\ Busy(v, "clearing")' => Busy(v, "clearing")
                         /\ Streaming(v)' => Streaming(v)
    BY <1>2, <1>3 DEF Encoding, Streaming, Busy
<1>8. EncodedOnce'
    BY <1>2, <1>7 DEF IInv, EncodedOnce
<1>9. NoStreamYet'
    BY <1>2, <1>7 DEF IInv, NoStreamYet
<1>10. StreamIsItsWorkers'
    <2>1. \A v \in Workers \ {w} : Busy(v, "publishing")' =>
              /\ Busy(v, "publishing") /\ worker'[v].folder = worker[v].folder
              /\ worker[v].folder \in folders /\ worker[v].folder # None
              /\ worker[v].folder <= made /\ worker[v].folder \in Nat
        BY <1>2 DEF Busy, IInv, TypeOK, Worker, Names, None, StreamIsItsWorkers, Known
    <2>2. /\ row # NoRow => row.dir <= made /\ row.dir \in Nat
          /\ seen # NoRow => seen.dir <= made /\ seen.dir \in Nat
        BY RowIsThere DEF IInv, StreamIsItsWorkers, Row, Names, None
    <2>3. \A v \in Workers : Busy(v, "publishing")' =>
              /\ (worker[v].folder \in folders /\ Known(worker[v].folder))'
              /\ row' # NoRow => row'.dir # worker'[v].folder
              /\ seen' # NoRow => seen'.dir # worker'[v].folder
        <3>1. made' = made + 1 /\ made \in Nat /\ New = made + 1 /\ New # None
            BY <1>1, <1>2
        <3>2. ASSUME NEW v \in Workers \ {w}, Busy(v, "publishing")'
              PROVE  /\ (worker[v].folder \in folders /\ Known(worker[v].folder))'
                     /\ row' # NoRow => row'.dir # worker'[v].folder
                     /\ seen' # NoRow => seen'.dir # worker'[v].folder
            BY <1>2, <2>1, <3>1, <3>2 DEF Known, IInv, StreamIsItsWorkers
        <3>3. /\ (worker[w].folder \in folders /\ Known(worker[w].folder))'
              /\ row' # NoRow => row'.dir # worker'[w].folder
              /\ seen' # NoRow => seen'.dir # worker'[w].folder
            BY <1>2, <1>3, <2>2, <3>1 DEF Known
        <3>. QED BY <3>2, <3>3
    <2>4. \A u, v \in Workers : /\ Busy(u, "publishing")' /\ Busy(v, "publishing")'
                                /\ worker'[u].folder = worker'[v].folder
                                => u = v
        BY <1>1, <1>3, <2>1 DEF IInv, StreamIsItsWorkers
    <2>5. (row' # NoRow => row'.dir <= made') /\ (seen' # NoRow => seen'.dir <= made')
        BY <1>1, <1>2, <2>2
    <2>. QED BY <2>3, <2>4, <2>5 DEF StreamIsItsWorkers
<1>. QED BY <1>4, <1>5, <1>6, <1>8, <1>9, <1>10 DEF IInv

LEMMA PublishKeeps ==
    ASSUME IInv, NEW w \in Workers, Publish(w)
    PROVE  IInv' /\ Stays
<1>1. Resting \in Worker /\ Resting.doing = "idle"
    BY DEF Resting, Worker, Doing
<1>2. /\ \A v \in Workers : GoesOn(v)
      /\ \A v \in Workers \ {w} : worker'[v] = worker[v]
      /\ ~Busy(w, "publishing")'
    BY <1>1, OneGoesOn DEF Publish, IInv, WorkerIs, TypeOK, Busy
<1>3. UNCHANGED <<work, private, public, made, seen, deaths, removed>>
    BY DEF Publish
<1>4. worker[w].folder \in folders /\ Known(worker[w].folder) /\ worker[w].folder \in Names
    BY DEF Publish, IInv, TypeOK, Worker, StreamIsItsWorkers, Known
<1>5. \A v \in Workers : Busy(v, "publishing")' =>
          /\ Busy(v, "publishing") /\ worker'[v].folder = worker[v].folder
          /\ worker[v].folder # worker[w].folder
    BY <1>2 DEF Publish, GoesOn, IInv, StreamIsItsWorkers
<1>6. CASE MayPublish
    <2>1. /\ row \in Row /\ row # NoRow /\ row.status = "approved"
          /\ row' = [row EXCEPT !.hls = "ready", !.dir = worker[w].folder]
          /\ folders' = folders
        BY <1>6, RowIsThere, NoRowIsNone DEF Publish, MayPublish, Is, IInv
    <2>2. /\ row' \in Row /\ row' # NoRow /\ row'.status = "approved"
          /\ row'.dir = worker[w].folder /\ row'.review = row.review /\ row'.public = row.public
        BY <1>4, <2>1, NoRowIsNone DEF Row, HlsStates
    <2>3. TypeOK'
        BY <1>1, <1>3, <2>1, <2>2 DEF Publish, WorkerIs, IInv, TypeOK
    <2>4. PiecesInOrder' /\ RemovedForGood' /\ Stays
        BY <2>2 DEF PiecesInOrder, WholeFile, RemovedForGood, Stays, Reviewable
    <2>5. EncodedOnce' /\ NoStreamYet'
        <3>1. \A v \in Workers : ~Encoding(v)
            BY <2>1 DEF IInv, EncodedOnce
        <3>2. \A v \in Workers : ~Encoding(v)'
            BY <1>2, <3>1 DEF GoesOn
        <3>. QED BY <2>2, <3>2 DEF EncodedOnce, NoStreamYet, Reviewable
    <2>6. ReviewIsOpen'
        BY <1>3, <2>1, <2>2 DEF IInv, ReviewIsOpen
    <2>7. FilesFit' /\ StreamPlays'
        BY <1>3, <1>4, <2>1, <2>2 DEF IInv, FilesFit, FilesFollowTheReview, StreamPlays
    <2>8. StreamIsItsWorkers'
        BY <1>3, <1>4, <1>5, <2>1, <2>2 DEF IInv, StreamIsItsWorkers, Known
    <2>. QED BY <2>3, <2>4, <2>5, <2>6, <2>7, <2>8 DEF IInv
<1>7. CASE ~MayPublish
    <2>1. row' = row /\ folders' = folders \ {worker[w].folder}
        BY <1>7 DEF Publish
    <2>2. TypeOK'
        BY <1>1, <1>3, <2>1 DEF Publish, WorkerIs, IInv, TypeOK
    <2>3. RemovedForGood' /\ ReviewIsOpen' /\ FilesFit' /\ Stays
        BY <1>3, <2>1, ReviewLeft
    <2>4. PiecesInOrder'
        BY <1>3, <2>1 DEF IInv, PiecesInOrder, WholeFile
    <2>5. StreamPlays'
        BY <1>7, <2>1 DEF IInv, StreamPlays, MayPublish, Is
    <2>6. EncodedOnce' /\ NoStreamYet'
        BY <1>2, <1>3, <2>1 DEF GoesOn, IInv, EncodedOnce, NoStreamYet
    <2>7. StreamIsItsWorkers'
        BY <1>3, <1>5, <2>1 DEF IInv, StreamIsItsWorkers, Known
    <2>. QED BY <2>2, <2>3, <2>4, <2>5, <2>6, <2>7 DEF IInv
<1>. QED BY <1>6, <1>7

LEMMA FailStreamKeeps ==
    ASSUME IInv, NEW w \in Workers, FailStream(w)
    PROVE  IInv' /\ Stays
<1>1. Resting \in Worker /\ Resting.doing = "idle"
    BY DEF Resting, Worker, Doing
<1>2. \A v \in Workers : GoesOn(v)
    BY <1>1, OneGoesOn DEF FailStream, IInv
<1>3. UNCHANGED <<work, private, public, folders, made, seen, deaths, removed>>
    BY DEF FailStream, files
<1>4. CASE row # NoRow
    <2>1. Marked("failed")
        BY <1>4, RowIsThere
           DEF FailStream, Busy, Streaming, IInv, NoStreamYet, Marked, HlsStates
    <2>2. /\ row' \in Row /\ row' # NoRow /\ row'.status = row.status
          /\ row'.dir = row.dir /\ row.status \in Reviewable
        BY <2>1, MarkedRow DEF Marked
    <2>3. TypeOK'
        BY <1>1, <1>3, <2>2 DEF FailStream, WorkerIs, IInv, TypeOK
    <2>4. /\ PiecesInOrder' /\ RemovedForGood' /\ ReviewIsOpen' /\ FilesFit'
          /\ StreamPlays' /\ Stays
        BY <1>3, <2>1, MarkedKeeps
    <2>5. EncodedOnce' /\ NoStreamYet'
        <3>1. \A v \in Workers : ~Encoding(v)
            BY <2>2 DEF IInv, EncodedOnce, Reviewable
        <3>2. \A v \in Workers : ~Encoding(v)'
            BY <1>2, <3>1 DEF GoesOn
        <3>. QED BY <2>2, <3>2 DEF EncodedOnce, NoStreamYet, Reviewable
    <2>6. StreamIsItsWorkers'
        BY <1>2, <1>3, <1>4, <2>2 DEF GoesOn, IInv, StreamIsItsWorkers, Known
    <2>. QED BY <2>3, <2>4, <2>5, <2>6 DEF IInv
<1>5. CASE row = NoRow
    <2>1. row' = row
        BY <1>5 DEF FailStream
    <2>2. TypeOK'
        BY <1>1, <1>3, <2>1 DEF FailStream, WorkerIs, IInv, TypeOK
    <2>3. PiecesInOrder' /\ StreamPlays'
        BY <1>3, <2>1 DEF IInv, PiecesInOrder, WholeFile, StreamPlays
    <2>4. EncodedOnce' /\ NoStreamYet' /\ StreamIsItsWorkers'
        BY <1>2, <1>3, <2>1, WorkersLeft
    <2>5. RemovedForGood' /\ ReviewIsOpen' /\ FilesFit' /\ Stays
        BY <1>3, <2>1, ReviewLeft
    <2>. QED BY <2>2, <2>3, <2>4, <2>5 DEF IInv
<1>. QED BY <1>4, <1>5

LEMMA RequeueStreamKeeps ==
    ASSUME IInv, RequeueStream
    PROVE  IInv' /\ Stays
<1>1. /\ Marked("")
      /\ UNCHANGED <<work, private, public, folders, made, worker, seen, deaths, removed>>
    BY RowIsThere DEF RequeueStream, MayRequeueStream, files, IInv, NoStreamYet, Marked, HlsStates
<1>2. /\ row # NoRow /\ row' \in Row /\ row' # NoRow /\ row'.status = row.status
      /\ row'.dir = row.dir /\ row.status \in Reviewable
    BY <1>1, MarkedRow DEF Marked
<1>3. TypeOK'
    BY <1>1, <1>2 DEF IInv, TypeOK
<1>4. /\ PiecesInOrder' /\ RemovedForGood' /\ ReviewIsOpen' /\ FilesFit'
      /\ StreamPlays' /\ Stays
    BY <1>1, MarkedKeeps
<1>5. EncodedOnce' /\ NoStreamYet'
    BY <1>1, <1>2 DEF IInv, EncodedOnce, NoStreamYet, Encoding, Streaming, Busy, Reviewable
<1>6. StreamIsItsWorkers'
    BY <1>1, <1>2, StreamsLeft
<1>. QED BY <1>3, <1>4, <1>5, <1>6 DEF IInv

-----------------------------------------------------------------------------
(* The review.                                                             *)

LEMMA OpenReviewKeeps ==
    ASSUME IInv, OpenReview
    PROVE  IInv' /\ Stays
<1>1. /\ row \in Row /\ row # NoRow /\ row.status \in Reviewable /\ seen' = row
      /\ UNCHANGED <<row, work, private, public, folders, made, worker, deaths, removed>>
    BY RowIsThere, NoRowIsNone DEF OpenReview, files, IInv, Reviewable
<1>2. TypeOK' /\ PiecesInOrder' /\ StreamPlays'
    BY <1>1 DEF IInv, TypeOK, PiecesInOrder, WholeFile, StreamPlays
<1>3. EncodedOnce'
    <2>1. \A v \in Workers : ~Encoding(v)
        BY <1>1 DEF IInv, EncodedOnce, Reviewable
    <2>. QED BY <1>1, <2>1 DEF IInv, EncodedOnce, Encoding, Busy
<1>4. NoStreamYet' /\ RemovedForGood' /\ ReviewIsOpen' /\ FilesFit' /\ Stays
    BY <1>1 DEF IInv, NoStreamYet, RemovedForGood, ReviewIsOpen, FilesFit, FilesFollowTheReview,
                Stays, Streaming
<1>5. StreamIsItsWorkers'
    BY <1>1, StreamsLeft
<1>. QED BY <1>2, <1>3, <1>4, <1>5 DEF IInv

\* A decision that saves a row, without a stream.
LEMMA DecisionKeeps ==
    ASSUME IInv, seen # NoRow, seen' = NoRow, UNCHANGED <<work, worker, removed>>,
           row' \in Row, row'.status \in Reviewable, row'.hls # "ready", TypeOK', FilesFit',
           row'.dir \in {None, seen.dir}, made <= made', folders \ folders' \subseteq {seen.dir}
    PROVE  IInv' /\ Stays
<1>1. row' # NoRow
    BY NoRowIsNone
<1>2. \A v \in Workers : ~Encoding(v)
    BY DEF IInv, EncodedOnce
<1>3. PiecesInOrder' /\ RemovedForGood' /\ ReviewIsOpen' /\ StreamPlays' /\ Stays
    BY DEF PiecesInOrder, WholeFile, RemovedForGood, ReviewIsOpen, StreamPlays, Stays, Reviewable
<1>4. EncodedOnce' /\ NoStreamYet'
    <2>1. row'.status \notin {"uploading", "queued", "processing"}
        BY DEF Reviewable
    <2>. QED BY <1>1, <1>2, <2>1 DEF EncodedOnce, NoStreamYet, Encoding, Streaming, Busy
<1>5. StreamIsItsWorkers'
    <2>1. \A v \in Workers : Busy(v, "publishing")' =>
              /\ Busy(v, "publishing") /\ worker'[v].folder = worker[v].folder
              /\ worker[v].folder # None /\ worker[v].folder # seen.dir
              /\ worker[v].folder \in folders' /\ worker[v].folder <= made
              /\ worker[v].folder \in Nat
        BY DEF Busy, IInv, TypeOK, StreamIsItsWorkers, Known, Worker, Names, None
    <2>2. made \in Nat /\ made' \in Nat /\ seen.dir <= made /\ seen.dir \in Nat /\ None <= made'
        BY RowIsThere, VideoAssumption
           DEF IInv, TypeOK, StreamIsItsWorkers, Row, Names, None
    <2>3. row'.dir <= made'
        BY <2>2
    <2>4. \A v \in Workers : Busy(v, "publishing")' =>
              /\ (worker[v].folder \in folders /\ Known(worker[v].folder))'
              /\ row'.dir # worker'[v].folder
        BY <2>1, <2>2 DEF Known
    <2>5. \A u, v \in Workers : /\ Busy(u, "publishing")' /\ Busy(v, "publishing")'
                                /\ worker'[u].folder = worker'[v].folder
                                => u = v
        BY <2>1 DEF IInv, StreamIsItsWorkers
    <2>. QED BY <2>3, <2>4, <2>5 DEF StreamIsItsWorkers
<1>. QED BY <1>3, <1>4, <1>5 DEF IInv

\* A decision that could not be carried out changes nothing.
LEMMA DecisionFails ==
    ASSUME IInv, seen # NoRow, seen' = NoRow, UNCHANGED <<row, work, files, worker, deaths, removed>>
    PROVE  IInv' /\ Stays
<1>1. UNCHANGED <<private, public, folders, made>>
    BY DEF files
<1>2. TypeOK' /\ PiecesInOrder' /\ StreamPlays' /\ RemovedForGood' /\ ReviewIsOpen' /\ Stays
    BY <1>1 DEF IInv, TypeOK, PiecesInOrder, WholeFile, StreamPlays, RemovedForGood, ReviewIsOpen,
                Stays
<1>3. FilesFit'
    BY <1>1 DEF IInv, FilesFit, FilesFollowTheReview
<1>4. EncodedOnce' /\ NoStreamYet'
    BY DEF IInv, EncodedOnce, NoStreamYet, Encoding, Streaming, Busy
<1>5. StreamIsItsWorkers'
    BY <1>1, StreamsLeft
<1>. QED BY <1>2, <1>3, <1>4, <1>5 DEF IInv

LEMMA ApproveKeeps ==
    ASSUME IInv, Approve
    PROVE  IInv' /\ Stays
<1>1. /\ seen # NoRow /\ seen \in Row /\ seen.status \in Reviewable \ {"approved"}
      /\ seen' = NoRow /\ UNCHANGED <<work, folders, worker, deaths, removed>>
    BY RowIsThere DEF Approve, Changes, IInv, ReviewIsOpen
<1>2. ASSUME seen.review \in private, MaySave,
             public' = public \cup {New}, private' = private \ {seen.review}, made' = New,
             row' = [seen EXCEPT !.status = "approved", !.hls = "",
                                 !.review = None, !.public = New]
      PROVE  IInv' /\ Stays
    <2>1. New \in Names /\ New # None /\ New \in 0..MaxFiles /\ made <= New
        BY <1>2, NewName DEF IInv, TypeOK, New
    <2>2. /\ row' \in Row /\ row'.status = "approved" /\ row'.hls = "" /\ row'.dir = seen.dir
          /\ row'.review = None /\ row'.public = New
        BY <1>1, <1>2, <2>1 DEF Row, Statuses, Reviewable, HlsStates
    <2>3. TypeOK'
        BY <1>1, <1>2, <2>1, <2>2 DEF IInv, TypeOK
    <2>4. ~removed => public' = {New}
        BY <1>1, <1>2 DEF IInv, ReviewIsOpen, FilesFit
    <2>5. FilesFit'
        BY <1>1, <2>2, <2>4 DEF FilesFit, FilesFollowTheReview
    <2>. QED BY <1>1, <1>2, <2>1, <2>2, <2>3, <2>5, DecisionKeeps DEF Reviewable
<1>3. CASE UNCHANGED <<row, private, public, made>>
    BY <1>1, <1>3, DecisionFails DEF files
<1>. QED BY <1>2, <1>3 DEF Approve, Gone

LEMMA TakeDownKeeps ==
    ASSUME IInv, NEW decision \in {"pending", "rejected"}, TakeDown(decision)
    PROVE  IInv' /\ Stays
<1>1. /\ seen # NoRow /\ seen \in Row /\ seen.status \in Reviewable \ {decision}
      /\ seen' = NoRow /\ UNCHANGED <<work, worker, deaths, removed>>
    BY RowIsThere DEF TakeDown, Changes, IInv, ReviewIsOpen
<1>2. ~removed => /\ seen.status # "approved" => public = {} /\ seen.review \in private
                  /\ seen.status = "approved" => public = {seen.public}
    BY <1>1, NoRowIsNone
       DEF IInv, ReviewIsOpen, FilesFit, FilesFollowTheReview, Reviewable
<1>3. None \notin public
    BY NoRowIsNone DEF IInv, TypeOK
<1>4. ASSUME seen.public \in public, MaySave,
             private' = private \cup {New}, public' = public \ {seen.public}, made' = New,
             folders' = folders \ {seen.dir},
             row' = [seen EXCEPT !.status = decision, !.hls = "", !.dir = None,
                                 !.review = New, !.public = None]
      PROVE  IInv' /\ Stays
    <2>1. New \in Names /\ New # None /\ New \in 0..MaxFiles /\ made <= New
        BY <1>4, NewName DEF IInv, TypeOK, New
    <2>2. /\ row' \in Row /\ row'.status = decision /\ row'.hls = "" /\ row'.dir = None
          /\ row'.review = New
        BY <1>1, <1>4, <2>1 DEF Row, Statuses, Reviewable, HlsStates
    <2>3. TypeOK'
        BY <1>1, <1>4, <2>1, <2>2 DEF IInv, TypeOK
    <2>4. FilesFit'
        BY <1>1, <1>2, <1>4, <2>2 DEF FilesFit, FilesFollowTheReview
    <2>. QED BY <1>1, <1>4, <2>1, <2>2, <2>3, <2>4, DecisionKeeps DEF Reviewable
<1>5. ASSUME seen.public = None, UNCHANGED files,
             row' = [seen EXCEPT !.status = decision, !.hls = "", !.dir = None]
      PROVE  IInv' /\ Stays
    <2>1. UNCHANGED <<private, public, folders, made>>
        BY <1>5 DEF files
    <2>2. /\ row' \in Row /\ row'.status = decision /\ row'.hls = "" /\ row'.dir = None
          /\ row'.review = seen.review
        BY <1>1, <1>5 DEF Row, Statuses, Reviewable, HlsStates, None
    <2>3. TypeOK'
        BY <1>1, <2>1, <2>2 DEF IInv, TypeOK
    <2>4. ~removed => public = {} /\ seen.review \in private
        BY <1>2, <1>3, <1>5
    <2>5. FilesFit'
        BY <1>1, <2>1, <2>2, <2>4 DEF FilesFit, FilesFollowTheReview
    <2>6. made <= made'
        BY <2>1 DEF IInv, TypeOK
    <2>. QED BY <1>1, <2>1, <2>2, <2>3, <2>5, <2>6, DecisionKeeps DEF Reviewable
<1>6. CASE UNCHANGED <<row, files>>
    BY <1>1, <1>6, DecisionFails
<1>. QED BY <1>4, <1>5, <1>6 DEF TakeDown, Gone

-----------------------------------------------------------------------------
(* The theorems.                                                           *)

LEMMA InitHolds == Init => IInv
<1>. SUFFICES ASSUME Init
              PROVE  IInv
    OBVIOUS
<1>1. /\ row.status = "none" /\ row = NoRow /\ seen = NoRow
      /\ \A w \in Workers : worker[w] = Resting
    BY NoRowIsNone DEF Init
<1>2. Resting \in Worker /\ Resting.doing = "idle"
    BY DEF Resting, Worker, Doing
<1>3. TypeOK
    <2>1. <<>> \in Seq(0..Pieces) /\ Len(<<>>) = 0 /\ 0 <= Pieces
        BY VideoAssumption
    <2>2. worker \in [Workers -> Worker]
        BY <1>2 DEF Init
    <2>3. made \in 0..MaxFiles /\ deaths \in 0..MaxDeaths
        BY VideoAssumption DEF Init
    <2>. QED BY <1>1, <2>1, <2>2, <2>3 DEF Init, TypeOK
<1>4. \A w \in Workers : ~Encoding(w) /\ ~Streaming(w)
                         /\ ~Busy(w, "clearing") /\ ~Busy(w, "publishing")
    BY <1>1, <1>2 DEF Encoding, Streaming, Busy
<1>5. PiecesInOrder /\ RemovedForGood /\ ReviewIsOpen /\ FilesFit /\ StreamPlays
    BY <1>1 DEF Init, PiecesInOrder, WholeFile, RemovedForGood, ReviewIsOpen, FilesFit,
                FilesFollowTheReview, StreamPlays
<1>6. EncodedOnce /\ NoStreamYet /\ StreamIsItsWorkers
    BY <1>1, <1>4 DEF EncodedOnce, NoStreamYet, StreamIsItsWorkers
<1>. QED BY <1>3, <1>5, <1>6 DEF IInv

LEMMA StutterKeeps ==
    ASSUME IInv, UNCHANGED vars
    PROVE  IInv' /\ Stays
<1>1. UNCHANGED <<row, work, private, public, folders, made, worker, seen, deaths, removed>>
    BY DEF vars, files
<1>2. TypeOK' /\ PiecesInOrder' /\ StreamPlays'
    BY <1>1 DEF IInv, TypeOK, PiecesInOrder, WholeFile, StreamPlays
<1>3. \A v \in Workers : GoesOn(v)
    BY <1>1 DEF GoesOn, Encoding, Streaming, Busy
<1>4. EncodedOnce' /\ NoStreamYet' /\ StreamIsItsWorkers'
    BY <1>1, <1>3, WorkersLeft
<1>5. RemovedForGood' /\ ReviewIsOpen' /\ FilesFit' /\ Stays
    BY <1>1, ReviewLeft
<1>. QED BY <1>2, <1>4, <1>5 DEF IInv

LEMMA StepKeeps ==
    ASSUME IInv, [Next]_vars
    PROVE  IInv' /\ Stays
<1>1. CASE StartUpload \/ Remove
    BY <1>1, StartUploadKeeps, RemoveKeeps
<1>2. ASSUME NEW offset \in 0..(Pieces - 1), ReceiveChunk(offset) \/ ChunkDies(offset)
      PROVE  IInv' /\ Stays
    BY <1>2, ReceiveChunkKeeps, ChunkDiesKeeps
<1>3. ASSUME NEW w \in Workers, WorkerStep(w) \/ WorkerDies(w)
      PROVE  IInv' /\ Stays
    <2>1. CASE Claim(w) \/ Encode(w) \/ SaveEncoded(w) \/ FailEncode(w) \/ RemoveWorkFile(w)
        BY <2>1, ClaimKeeps, EncodeKeeps, SaveEncodedKeeps, FailEncodeKeeps, RemoveWorkFileKeeps
    <2>2. CASE ClaimStream(w) \/ Cut(w) \/ Publish(w) \/ FailStream(w) \/ WorkerDies(w)
        BY <2>2, ClaimStreamKeeps, CutKeeps, PublishKeeps, FailStreamKeeps, WorkerDiesKeeps
    <2>. QED BY <1>3, <2>1, <2>2 DEF WorkerStep
<1>4. CASE Requeue \/ RequeueStream
    BY <1>4, RequeueKeeps, RequeueStreamKeeps
<1>5. CASE Review
    BY <1>5, OpenReviewKeeps, ApproveKeeps, TakeDownKeeps DEF Review
<1>6. CASE UNCHANGED vars
    BY <1>6, StutterKeeps
<1>. QED BY <1>1, <1>2, <1>3, <1>4, <1>5, <1>6 DEF Next

LEMMA Invariance == Spec => []IInv
BY InitHolds, StepKeeps, PTL DEF Spec

\* The row, the files and the workers keep their types.
THEOREM TypeCorrect == Spec => []TypeOK
<1>1. IInv => TypeOK
    BY DEF IInv
<1>. QED BY <1>1, Invariance, PTL

\* What the encoder is given is the file, every piece once and in order, however
\* often pieces were sent (receive_chunk) and requests or workers died.
THEOREM EncodesTheFile == Spec => []WholeFile
<1>1. IInv => WholeFile
    BY DEF IInv, PiecesInOrder
<1>. QED BY <1>1, Invariance, PTL

\* Until the trainer removes a video, its files are where its decision says (decide,
\* videos.py), and nothing is at a public address that is not approved.
THEOREM FilesAreWhereDecided == Spec => []FilesFollowTheReview
<1>1. IInv => FilesFollowTheReview
    BY DEF IInv, FilesFit
<1>. QED BY <1>1, Invariance, PTL

\* A stream the player is told of (video_hls.py) exists, and of an approved video.
THEOREM ShownStreamsPlay == Spec => []StreamPlays
<1>1. IInv => StreamPlays
    BY DEF IInv
<1>. QED BY <1>1, Invariance, PTL

\* No worker takes a video back that staff can decide on.
THEOREM DecisionsStand == Spec => ReviewIsNotUndone
<1>1. IInv /\ [Next]_vars => [Stays]_vars
    BY StepKeeps
<1>2. [Stays]_vars => [row.status \in Reviewable => row'.status \in Reviewable \cup {"none"}]_vars
    BY DEF Stays
<1>. QED BY <1>1, <1>2, Invariance, PTL DEF Spec, ReviewIsNotUndone

=============================================================================

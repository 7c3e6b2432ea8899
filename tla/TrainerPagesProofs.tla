------------------------- MODULE TrainerPagesProofs -------------------------
(***************************************************************************)
(* Proofs about the two pages a trainer teaches from: the course studio    *)
(* (CourseStudio) and the page that sends videos (VideoUpload).  The two   *)
(* have no variable in common, and each is proved from its own assumption. *)
(***************************************************************************)
EXTENDS CourseStudio, VideoUpload, FiniteSetTheorems, WellFoundedInduction, TLAPS

-----------------------------------------------------------------------------
(* Sending a video.                                                        *)

KeptRow == [received : Nat, status : Statuses]
KeptLoop == [of : Videos \cup {None}, phase : Phases, offset : Nat, failures : Nat,
             told : Nat \cup {Never}, latest : KeptRow, aborted : BOOLEAN]

UploadShapes ==
    /\ row \in [Videos -> KeptRow] /\ shown \in [Videos -> KeptRow]
    /\ loop \in [Sends -> KeptLoop]
    /\ sending \in Sends \cup {None} /\ starting \in Videos \cup {None}

Present(r) == r.status \notin {"none", "removed"}

\* What the page shows of a video against what the server has of it.
Claims(video, r) ==
    /\ r.status = "none" => r = NoRow
    /\ r = NoRow => video = NoRow
    /\ Present(r) => video.received <= r.received

\* What a call of sendFile has in hand against what the server has.
InHand(c, r) ==
    c = Off \/ ( /\ c.phase # "off" /\ c.of \in Videos /\ r[c.of] # NoRow
                 /\ Present(r[c.of]) => /\ c.offset <= r[c.of].received
                                        /\ c.latest.received <= r[c.of].received )

\* The inductive invariant: nothing the page shows or a send has in hand is more
\* than has arrived, of a video that may still be there; and what is sent but
\* not shown has been told to stop.
UploadInv ==
    /\ UploadShapes
    /\ \A v \in Videos : Claims(shown[v], row[v])
    /\ \A s \in Sends : InHand(loop[s], row)
    /\ sending # None => On(sending)
    /\ starting # None => row[starting] = NoRow
    /\ OneSendAtATime

LEMMA UploadStarts == ASSUME UploadInit PROVE UploadInv
<1>1. UploadShapes
  BY UploadAssumption DEF UploadInit, UploadShapes, KeptRow, KeptLoop, NoRow, Off, Statuses, Phases
<1>2. \A v \in Videos : Claims(shown[v], row[v])
  BY DEF UploadInit, Claims, NoRow, Present
<1>3. \A s \in Sends : InHand(loop[s], row)
  BY DEF UploadInit, InHand
<1>4. OneSendAtATime
  BY DEF UploadInit, OneSendAtATime, On
<1> QED
  BY <1>1, <1>2, <1>3, <1>4 DEF UploadInit, UploadInv

\* A call of sendFile that is under way.
LEMMA UnderWay ==
    ASSUME UploadInv, NEW s \in Sends, On(s)
    PROVE  /\ loop[s] \in KeptLoop /\ loop[s].of \in Videos /\ loop[s].phase # "off"
           /\ row[loop[s].of] # NoRow
           /\ Present(row[loop[s].of]) => /\ loop[s].offset <= row[loop[s].of].received
                                          /\ loop[s].latest.received <= row[loop[s].of].received
  BY DEF UploadInv, UploadShapes, InHand, On

LEMMA Asked ==
    ASSUME NEW s \in Sends, loop[s].phase # "off"
    PROVE  On(s)
  BY DEF On, Off

\* One step of sendFile that leaves it under way.
LEMMA GoesOn ==
    ASSUME UploadInv, NEW s \in Sends, On(s), NEW d \in KeptLoop,
           d.of = loop[s].of, d.phase # "off", d.aborted = loop[s].aborted,
           loop' = [loop EXCEPT ![s] = d], sending' = sending,
           Present(row'[d.of]) => d.offset <= row'[d.of].received /\ d.latest.received <= row'[d.of].received,
           \A t \in Sends : t # s => InHand(loop[t], row'),
           row'[d.of] # NoRow
    PROVE  /\ loop' \in [Sends -> KeptLoop] /\ \A t \in Sends : InHand(loop'[t], row')
           /\ sending' # None => On(sending)'
           /\ OneSendAtATime'
<1>1. loop' \in [Sends -> KeptLoop] /\ loop'[s] = d /\ \A t \in Sends : t # s => loop'[t] = loop[t]
  BY DEF UploadInv, UploadShapes
<1>2. InHand(d, row')
  BY UnderWay DEF InHand
<1>3. \A t \in Sends : InHand(loop'[t], row')
  BY <1>1, <1>2
<1>4. d # Off
  BY DEF Off
<1>5. sending' # None => On(sending)'
  BY <1>1, <1>4 DEF UploadInv, UploadShapes, On
<1>6. OneSendAtATime'
  BY <1>1, <1>4 DEF UploadInv, OneSendAtATime, On
<1> QED
  BY <1>1, <1>3, <1>5, <1>6

\* A send that is over: whichever the page showed has been told to stop.
LEMMA ItEnds ==
    ASSUME UploadInv, NEW s \in Sends, Ends(s), \A t \in Sends : InHand(loop[t], row')
    PROVE  /\ loop' \in [Sends -> KeptLoop] /\ \A t \in Sends : InHand(loop'[t], row')
           /\ sending' = None /\ OneSendAtATime'
<1>0. None \notin Sends
  BY UploadAssumption
<1> DEFINE Told(t) == IF t = sending /\ t # None /\ On(t) THEN [loop[t] EXCEPT !.aborted = TRUE] ELSE loop[t]
<1>1. loop' = [[t \in Sends |-> Told(t)] EXCEPT ![s] = Off] /\ sending' = None
  BY DEF Ends, Aborting
<1>2. Off \in KeptLoop
  BY DEF Off, KeptLoop, KeptRow, NoRow, Phases, Statuses
<1>3. \A t \in Sends : Told(t) \in KeptLoop
  BY DEF UploadInv, UploadShapes, KeptLoop
<1>4. loop' \in [Sends -> KeptLoop] /\ loop'[s] = Off /\ \A t \in Sends : t # s => loop'[t] = Told(t)
  <2> HIDE DEF Told
  <2> QED
    BY <1>1, <1>2, <1>3
<1>5. ASSUME NEW t \in Sends
      PROVE  InHand(Told(t), row') /\ (On(t) /\ t # s => Told(t).aborted)
  <2>1. CASE ~On(t)
    BY <2>1 DEF InHand, On
  <2>2. CASE On(t) /\ t = sending
    <3>1. Told(t) = [loop[t] EXCEPT !.aborted = TRUE] /\ loop[t] \in KeptLoop
      BY <2>2, <1>0, UnderWay
    <3>2. InHand(loop[t], row') /\ loop[t] # Off
      BY <2>2 DEF On
    <3>3. InHand(Told(t), row') /\ Told(t).aborted
      BY <3>1, <3>2 DEF InHand, KeptLoop
    <3> QED
      BY <3>3
  <2>3. CASE On(t) /\ t # sending
    BY <2>3 DEF UploadInv, OneSendAtATime
  <2> QED
    BY <2>1, <2>2, <2>3
<1>6. \A t \in Sends : InHand(loop'[t], row')
  <2>1. InHand(Off, row')
    BY DEF InHand
  <2> HIDE DEF Told
  <2> QED
    BY <1>4, <1>5, <2>1
<1>7. OneSendAtATime'
  <2>1. \A t \in Sends : ~On(t) => Told(t) = Off
    BY DEF On
  <2>2. ASSUME NEW t \in Sends, loop'[t] # Off
        PROVE  loop'[t].aborted
    <3> HIDE DEF Told
    <3> QED
      BY <1>4, <1>5, <2>1, <2>2
  <2> QED
    BY <2>2 DEF OneSendAtATime, On
<1> QED
  BY <1>1, <1>4, <1>6, <1>7

\* A call of sendFile begins, and the one before it is told to stop.
LEMMA ItBegins ==
    ASSUME UploadInv, NEW v \in Videos, NEW video \in KeptRow, Send(v, video),
           row'[v] # NoRow, Present(row'[v]) => video.received <= row'[v].received,
           \A t \in Sends : InHand(loop[t], row')
    PROVE  /\ loop' \in [Sends -> KeptLoop] /\ \A t \in Sends : InHand(loop'[t], row')
           /\ sending' \in Sends /\ On(sending)' /\ OneSendAtATime'
<1>1. PICK s \in Sends : /\ ~On(s) /\ sending' = s
                         /\ loop' = [Aborting(s) EXCEPT ![s] = [Off EXCEPT
                              !.of = v, !.phase = "ready", !.offset = video.received, !.latest = video]]
  BY DEF Send
<1> DEFINE Told(t) == IF t = sending /\ t # s /\ On(t) THEN [loop[t] EXCEPT !.aborted = TRUE] ELSE loop[t]
           new == [Off EXCEPT !.of = v, !.phase = "ready", !.offset = video.received, !.latest = video]
<1>2. loop' = [[t \in Sends |-> Told(t)] EXCEPT ![s] = new]
  <2>1. Aborting(s) = [t \in Sends |-> Told(t)]
    BY DEF Aborting
  <2> HIDE DEF Told, new
  <2> QED
    BY <1>1, <2>1 DEF new
<1>3. new \in KeptLoop /\ new # Off /\ InHand(new, row')
  <2>1. Off \in KeptLoop
    BY DEF Off, KeptLoop, KeptRow, NoRow, Phases, Statuses
  <2>2. new \in KeptLoop
    BY <2>1 DEF KeptLoop, KeptRow, Phases
  <2>3. new.of = v /\ new.phase = "ready" /\ new.offset = video.received /\ new.latest = video
    BY <2>1 DEF KeptLoop
  <2> HIDE DEF new
  <2> QED
    BY <2>2, <2>3 DEF Off, InHand
<1>4. \A t \in Sends : Told(t) \in KeptLoop
  BY DEF UploadInv, UploadShapes, KeptLoop
<1>5. loop' \in [Sends -> KeptLoop] /\ loop'[s] = new /\ \A t \in Sends : t # s => loop'[t] = Told(t)
  <2> HIDE DEF Told, new
  <2> QED
    BY <1>2, <1>3, <1>4
<1>6. ASSUME NEW t \in Sends, t # s
      PROVE  InHand(Told(t), row') /\ (Told(t) # Off => Told(t).aborted)
  <2>1. CASE ~On(t)
    BY <2>1 DEF On
  <2>2. CASE On(t) /\ t = sending
    <3>1. Told(t) = [loop[t] EXCEPT !.aborted = TRUE] /\ loop[t] \in KeptLoop
      BY <2>2, <1>6, UnderWay
    <3>2. InHand(loop[t], row') /\ loop[t] # Off
      BY <2>2 DEF On
    <3>3. InHand(Told(t), row') /\ Told(t).aborted
      BY <3>1, <3>2 DEF InHand, KeptLoop
    <3> QED
      BY <3>3
  <2>3. CASE On(t) /\ t # sending
    BY <2>3 DEF UploadInv, OneSendAtATime
  <2> QED
    BY <2>1, <2>2, <2>3
<1> HIDE DEF Told, new
<1>7. \A t \in Sends : InHand(loop'[t], row')
  BY <1>3, <1>5, <1>6
<1>8. OneSendAtATime' /\ On(sending)'
  BY <1>1, <1>3, <1>5, <1>6 DEF OneSendAtATime, On
<1> QED
  BY <1>1, <1>5, <1>7, <1>8

\* The page shows something else of one video.
LEMMA ShownAgain ==
    ASSUME UploadInv, NEW v \in Videos, NEW received \in Nat, NEW status \in Statuses,
           Replace(v, [received |-> received, status |-> status]),
           row' \in [Videos -> KeptRow], \A u \in Videos : u # v => row'[u] = row[u],
           row'[v] # NoRow, row'[v].status # "none",
           Present(row'[v]) => received <= row'[v].received
    PROVE  shown' \in [Videos -> KeptRow] /\ \A u \in Videos : Claims(shown[u], row[u])'
<1> DEFINE video == [received |-> received, status |-> status]
<1>1. video \in KeptRow /\ video.received = received
  BY DEF KeptRow
<1>2. shown' = [shown EXCEPT ![v] = video]
  BY DEF Replace
<1> HIDE DEF video
<1>3. shown' \in [Videos -> KeptRow] /\ shown'[v] = video /\ \A u \in Videos : u # v => shown'[u] = shown[u]
  BY <1>1, <1>2 DEF UploadInv, UploadShapes
<1>4. Claims(shown'[v], row'[v])
  BY <1>1, <1>3 DEF Claims
<1> QED
  BY <1>3, <1>4 DEF UploadInv

\* What the list that is read now would show.
LEMMA ListIsTrue ==
    ASSUME NEW r \in [Videos -> KeptRow], NEW list, \A v \in Videos : r[v].status = "none" => r[v] = NoRow,
           list = [v \in Videos |-> IF r[v].status \notin {"none", "removed"} THEN r[v] ELSE NoRow]
    PROVE  list \in [Videos -> KeptRow] /\ \A v \in Videos : Claims(list[v], r[v])
  BY DEF Claims, KeptRow, NoRow, Statuses, Present

LEMMA RowsSoFar ==
    ASSUME UploadInv
    PROVE  /\ \A v \in Videos : row[v].status = "none" => row[v] = NoRow
           /\ \A v \in Videos : row[v].status = "none" <=> row[v] = NoRow
  BY DEF UploadInv, Claims, NoRow

\* A piece is appended: what was shown and what is in hand stay true.
LEMMA MoreArrives ==
    ASSUME UploadInv, NEW v \in Videos, NEW offset, Fits(v, offset),
           row' = [row EXCEPT ![v] = Appended(v)]
    PROVE  /\ row' \in [Videos -> KeptRow] /\ \A u \in Videos : u # v => row'[u] = row[u]
           /\ \A u \in Videos : row'[u] = NoRow <=> row[u] = NoRow
           /\ row'[v].received = row[v].received + 1 /\ row'[v].status \in {"queued", "uploading"}
           /\ row'[v] # NoRow
           /\ \A u \in Videos : Claims(shown[u], row'[u])
           /\ \A t \in Sends : InHand(loop[t], row')
<1>1. Appended(v).received = row[v].received + 1 /\ Appended(v).status \in {"queued", "uploading"}
      /\ Appended(v) \in KeptRow
  BY DEF UploadInv, UploadShapes, KeptRow, Appended, Statuses
<1>2. row' \in [Videos -> KeptRow] /\ row'[v] = Appended(v) /\ \A u \in Videos : u # v => row'[u] = row[u]
  BY <1>1 DEF UploadInv, UploadShapes
<1>3. row[v] # NoRow /\ row'[v] # NoRow
  BY <1>1, <1>2 DEF Fits, NoRow
<1>4. row[v].received \in Nat /\ shown[v].received \in Nat
  BY DEF UploadInv, UploadShapes, KeptRow
<1>5. Present(row[v])
  BY DEF Fits, Present
<1>6. \A u \in Videos : Claims(shown[u], row'[u])
  <2>1. Claims(shown[v], row'[v])
    BY <1>1, <1>2, <1>3, <1>4, <1>5 DEF UploadInv, Claims
  <2> QED
    BY <2>1, <1>2 DEF UploadInv
<1>7. ASSUME NEW t \in Sends
      PROVE  InHand(loop[t], row')
  <2>1. CASE ~On(t)
    BY <2>1 DEF On, InHand
  <2>2. CASE On(t) /\ loop[t].of = v
    <3>1. loop[t].offset \in Nat /\ loop[t].latest.received \in Nat
      BY <2>2, UnderWay DEF KeptLoop, KeptRow
    <3> QED
      BY <2>2, <3>1, <1>1, <1>2, <1>3, <1>4, <1>5, UnderWay DEF InHand
  <2>3. CASE On(t) /\ loop[t].of # v
    BY <2>3, <1>2, UnderWay DEF InHand
  <2> QED
    BY <2>1, <2>2, <2>3
<1> QED
  BY <1>1, <1>2, <1>3, <1>6, <1>7

LEMMA LateArrivesKeeps == ASSUME UploadInv, LateArrives PROVE UploadInv'
<1>1. PICK o \in late : row' = IF Fits(o[1], o[2]) THEN [row EXCEPT ![o[1]] = Appended(o[1])] ELSE row
  BY DEF LateArrives
<1>2. loop' = loop /\ shown' = shown /\ sending' = sending /\ starting' = starting
  BY DEF LateArrives, PageStays
<1>3. CASE o[1] \in Videos /\ Fits(o[1], o[2])
  <2>1. /\ row' \in [Videos -> KeptRow] /\ \A u \in Videos : row'[u] = NoRow <=> row[u] = NoRow
        /\ \A u \in Videos : Claims(shown[u], row'[u]) /\ \A t \in Sends : InHand(loop[t], row')
    BY <1>1, <1>3, MoreArrives
  <2> QED
    BY <1>2, <2>1, UploadAssumption DEF UploadInv, UploadShapes, OneSendAtATime, On
<1>4. CASE ~(o[1] \in Videos /\ Fits(o[1], o[2]))
  <2>1. row' = row
    BY <1>1, <1>4 DEF UploadInv, UploadShapes
  <2> QED
    BY <1>2, <2>1 DEF UploadInv, UploadShapes, OneSendAtATime, On
<1> QED
  BY <1>3, <1>4

LEMMA AddKeeps == ASSUME UploadInv, NEW v \in Videos, Add(v) PROVE UploadInv'
  BY DEF Add, UploadInv, UploadShapes, OneSendAtATime, On

LEMMA ResumeKeeps == ASSUME UploadInv, NEW v \in Videos, Resume(v) PROVE UploadInv'
<1>1. shown[v].status = "uploading" /\ Send(v, shown[v]) /\ UNCHANGED <<row, late, shown, starting>>
  BY DEF Resume, MayResume
<1>2. shown[v] \in KeptRow /\ row[v] # NoRow /\ (Present(row[v]) => shown[v].received <= row[v].received)
  BY <1>1 DEF UploadInv, UploadShapes, Claims, NoRow
<1>3. \A t \in Sends : InHand(loop[t], row')
  BY <1>1 DEF UploadInv
<1>4. /\ loop' \in [Sends -> KeptLoop] /\ \A t \in Sends : InHand(loop'[t], row')
      /\ sending' \in Sends /\ On(sending)' /\ OneSendAtATime'
  BY <1>1, <1>2, <1>3, ItBegins
<1> QED
  BY <1>1, <1>4 DEF UploadInv, UploadShapes

\* One send is told to stop.
LEMMA ToldToStop ==
    ASSUME UploadInv, NEW s \in Sends, On(s), loop' = [loop EXCEPT ![s].aborted = TRUE],
           sending' = sending
    PROVE  /\ loop' \in [Sends -> KeptLoop]
           /\ \A t \in Sends : loop'[t].of = loop[t].of /\ loop'[t].offset = loop[t].offset
                 /\ loop'[t].latest = loop[t].latest /\ loop'[t].phase = loop[t].phase
                 /\ (loop'[t] = Off <=> loop[t] = Off)
           /\ sending' # None => On(sending)'
           /\ OneSendAtATime'
<1> DEFINE d == [loop[s] EXCEPT !.aborted = TRUE]
<1>1. loop[s] \in KeptLoop /\ loop[s].phase # "off" /\ loop[s] # Off
  BY UnderWay DEF On
<1>2. d \in KeptLoop /\ d.of = loop[s].of /\ d.offset = loop[s].offset /\ d.latest = loop[s].latest
      /\ d.phase = loop[s].phase /\ d.aborted
  BY <1>1 DEF KeptLoop
<1>3. d # Off
  BY <1>1, <1>2 DEF Off
<1>4. loop' = [loop EXCEPT ![s] = d]
  BY DEF UploadInv, UploadShapes
<1> HIDE DEF d
<1>5. loop' \in [Sends -> KeptLoop] /\ loop'[s] = d /\ \A t \in Sends : t # s => loop'[t] = loop[t]
  BY <1>2, <1>4 DEF UploadInv, UploadShapes
<1>6. OneSendAtATime' /\ (sending' # None => On(sending)')
  BY <1>2, <1>3, <1>5 DEF UploadInv, UploadShapes, OneSendAtATime, On
<1> QED
  BY <1>1, <1>2, <1>3, <1>5, <1>6

LEMMA PauseKeeps == ASSUME UploadInv, Pause PROVE UploadInv'
<1>1. sending \in Sends /\ On(sending) /\ loop' = [loop EXCEPT ![sending].aborted = TRUE]
      /\ UNCHANGED <<row, late, shown, sending, starting>>
  BY DEF Pause, UploadInv, UploadShapes
<1>2. /\ loop' \in [Sends -> KeptLoop]
      /\ \A t \in Sends : loop'[t].of = loop[t].of /\ loop'[t].offset = loop[t].offset
            /\ loop'[t].latest = loop[t].latest /\ loop'[t].phase = loop[t].phase
            /\ (loop'[t] = Off <=> loop[t] = Off)
      /\ sending' # None => On(sending)'
      /\ OneSendAtATime'
  BY <1>1, ToldToStop
<1>3. \A t \in Sends : InHand(loop'[t], row')
  BY <1>1, <1>2 DEF UploadInv, InHand
<1> QED
  BY <1>1, <1>2, <1>3 DEF UploadInv, UploadShapes

LEMMA RemoveVideoKeeps == ASSUME UploadInv, NEW v \in Videos, RemoveVideo(v) PROVE UploadInv'
<1>1. InList(v) /\ UNCHANGED <<late, sending, starting>>
  BY DEF RemoveVideo
<1> DEFINE gone == [received |-> 0, status |-> "removed"]
<1>2. /\ loop' \in [Sends -> KeptLoop]
      /\ \A t \in Sends : loop'[t].of = loop[t].of /\ loop'[t].offset = loop[t].offset
            /\ loop'[t].latest = loop[t].latest /\ loop'[t].phase = loop[t].phase
            /\ (loop'[t] = Off <=> loop[t] = Off)
      /\ sending' # None => On(sending)'
      /\ OneSendAtATime'
  <2>1. CASE sending # None /\ loop[sending].of = v
    <3>1. sending \in Sends /\ On(sending) /\ loop' = [loop EXCEPT ![sending].aborted = TRUE]
      BY <2>1 DEF RemoveVideo, UploadInv, UploadShapes
    <3> QED
      BY <1>1, <3>1, ToldToStop
  <2>2. CASE ~(sending # None /\ loop[sending].of = v)
    <3>1. loop' = loop
      BY <2>2 DEF RemoveVideo
    <3> QED
      BY <1>1, <3>1 DEF UploadInv, UploadShapes, OneSendAtATime, On
  <2> QED
    BY <2>1, <2>2
<1>3. row[v] # NoRow
  BY <1>1 DEF InList, UploadInv, Claims
<1>4. /\ row' \in [Videos -> KeptRow] /\ \A u \in Videos : row'[u] = NoRow <=> row[u] = NoRow
      /\ \A u \in Videos : row'[u].status = "none" => row'[u] = NoRow
      /\ \A u \in Videos : Present(row'[u]) => row'[u] = row[u]
      /\ shown' \in {shown, [shown EXCEPT ![v] = NoRow], TheList'}
  <2>1. CASE row' = [row EXCEPT ![v] = gone] /\ shown' \in {shown, [shown EXCEPT ![v] = NoRow], TheList'}
    <3>1. gone \in KeptRow /\ gone.status = "removed" /\ gone # NoRow
      BY DEF KeptRow, Statuses, NoRow
    <3> HIDE DEF gone
    <3>2. row' \in [Videos -> KeptRow] /\ row'[v] = gone /\ \A u \in Videos : u # v => row'[u] = row[u]
      BY <2>1, <3>1 DEF UploadInv, UploadShapes
    <3> QED
      BY <1>3, <2>1, <3>1, <3>2, RowsSoFar DEF Present
  <2>2. CASE row' = row /\ shown' = shown
    BY <2>2, RowsSoFar DEF UploadInv, UploadShapes
  <2> QED
    BY <2>1, <2>2 DEF RemoveVideo
<1>5. shown' \in [Videos -> KeptRow] /\ \A u \in Videos : Claims(shown'[u], row'[u])
  <2>1. CASE shown' = shown
    BY <1>4, <2>1 DEF UploadInv, UploadShapes, Claims
  <2>2. CASE shown' = [shown EXCEPT ![v] = NoRow]
    <3>1. NoRow \in KeptRow /\ NoRow.received = 0
      BY DEF KeptRow, NoRow, Statuses
    <3>2. shown' \in [Videos -> KeptRow] /\ \A u \in Videos : shown'[u] = IF u = v THEN NoRow ELSE shown[u]
      BY <2>2, <3>1 DEF UploadInv, UploadShapes
    <3>3. row'[v].received \in Nat
      BY <1>4 DEF KeptRow
    <3> QED
      BY <1>4, <3>1, <3>2, <3>3 DEF UploadInv, Claims
  <2>3. CASE shown' = TheList'
    <3>1. shown' = [u \in Videos |-> IF row'[u].status \notin {"none", "removed"} THEN row'[u] ELSE NoRow]
      BY <2>3 DEF TheList, There
    <3> QED
      BY <1>4, <3>1, ListIsTrue
  <2> QED
    BY <1>4, <2>1, <2>2, <2>3
<1>6. \A t \in Sends : InHand(loop'[t], row')
  BY <1>2, <1>4 DEF UploadInv, InHand
<1> QED
  BY <1>1, <1>2, <1>4, <1>5, <1>6 DEF UploadInv, UploadShapes

\* The list is read again.
LEMMA ReadAgain ==
    ASSUME UploadInv, shown' = TheList', row' = row
    PROVE  shown' \in [Videos -> KeptRow] /\ \A u \in Videos : Claims(shown'[u], row'[u])
<1>1. shown' = [u \in Videos |-> IF row'[u].status \notin {"none", "removed"} THEN row'[u] ELSE NoRow]
  BY DEF TheList, There
<1> QED
  BY <1>1, ListIsTrue, RowsSoFar DEF UploadInv, UploadShapes

LEMMA ListedKeeps == ASSUME UploadInv, Listed PROVE UploadInv'
<1>1. shown' = TheList' /\ UNCHANGED <<row, late, loop, sending, starting>>
  BY DEF Listed, TheList, There
<1> QED
  BY <1>1, ReadAgain DEF UploadInv, UploadShapes, OneSendAtATime, On

LEMMA LoadKeeps == ASSUME UploadInv, Load PROVE UploadInv'
<1>1. /\ shown' = TheList' /\ row' = row /\ starting' = None /\ sending' = None
      /\ loop' = [s \in Sends |-> Off]
  BY DEF Load, TheList, There
<1>2. Off \in KeptLoop
  BY DEF Off, KeptLoop, KeptRow, NoRow, Phases, Statuses
<1>3. loop' \in [Sends -> KeptLoop] /\ OneSendAtATime' /\ \A s \in Sends : InHand(loop'[s], row')
  BY <1>1, <1>2 DEF OneSendAtATime, On, InHand
<1> QED
  BY <1>1, <1>3, ReadAgain DEF UploadInv, UploadShapes

LEMMA StartUploadKeeps == ASSUME UploadInv, StartUpload PROVE UploadInv'
<1>1. starting \in Videos /\ row[starting] = NoRow /\ starting' = None
  BY DEF StartUpload, UploadInv, UploadShapes
<1> DEFINE new == [received |-> 0, status |-> "uploading"]
<1>2. CASE row' = [row EXCEPT ![starting] = new]
  <2>1. new \in KeptRow /\ new.received = 0 /\ new.status = "uploading" /\ new # NoRow
    BY DEF KeptRow, Statuses, NoRow
  <2> HIDE DEF new
  <2>2. row' \in [Videos -> KeptRow] /\ row'[starting] = new /\ \A u \in Videos : u # starting => row'[u] = row[u]
    BY <1>1, <1>2, <2>1 DEF UploadInv, UploadShapes
  <2>3. shown[starting] = NoRow /\ NoRow.received = 0
    BY <1>1 DEF UploadInv, Claims, NoRow
  <2>4. \A u \in Videos : Claims(shown[u], row'[u])
    BY <2>1, <2>2, <2>3 DEF UploadInv, Claims
  <2>5. \A t \in Sends : InHand(loop[t], row')
    BY <1>1, <2>2 DEF UploadInv, InHand
  <2>6. CASE Replace(starting, row'[starting]) /\ Send(starting, row'[starting])
    <3>1. /\ loop' \in [Sends -> KeptLoop] /\ \A t \in Sends : InHand(loop'[t], row')
          /\ sending' \in Sends /\ On(sending)' /\ OneSendAtATime'
      BY <1>1, <2>1, <2>2, <2>5, <2>6, ItBegins
    <3>2. shown' = [shown EXCEPT ![starting] = new]
      BY <2>2, <2>6 DEF Replace
    <3>3. shown' \in [Videos -> KeptRow] /\ shown'[starting] = new
          /\ \A u \in Videos : u # starting => shown'[u] = shown[u]
      BY <1>1, <2>1, <3>2 DEF UploadInv, UploadShapes
    <3>4. \A u \in Videos : Claims(shown'[u], row'[u])
      BY <2>1, <2>2, <2>4, <3>3 DEF Claims
    <3> QED
      BY <1>1, <2>2, <3>1, <3>3, <3>4 DEF UploadInv, UploadShapes
  <2>7. CASE UNCHANGED <<shown, loop, sending>>
    BY <1>1, <2>2, <2>4, <2>5, <2>7 DEF UploadInv, UploadShapes, OneSendAtATime, On
  <2> QED
    BY <1>2, <2>6, <2>7, <1>1, <2>1, <2>2 DEF StartUpload
<1>3. CASE UNCHANGED <<row, shown, loop, sending>>
  BY <1>1, <1>3 DEF UploadInv, UploadShapes, OneSendAtATime, On
<1> QED
  BY <1>2, <1>3 DEF StartUpload

LEMMA PieceKeeps == ASSUME UploadInv, NEW s \in Sends, Piece(s) PROVE UploadInv'
<1>1. On(s)
  BY Asked DEF Piece, InPhase
<1> DEFINE d == [loop[s] EXCEPT !.phase = "asked"]
<1>2. loop' = [loop EXCEPT ![s] = d] /\ UNCHANGED <<row, shown, sending, late, starting>>
  BY DEF Piece, Step, Quiet
<1>3. d \in KeptLoop /\ d.of = loop[s].of /\ d.phase = "asked" /\ d.aborted = loop[s].aborted
      /\ d.offset = loop[s].offset /\ d.latest = loop[s].latest
  BY <1>1, UnderWay DEF KeptLoop, Phases
<1> HIDE DEF d
<1>4. /\ loop' \in [Sends -> KeptLoop] /\ \A t \in Sends : InHand(loop'[t], row')
      /\ sending' # None => On(sending)'
      /\ OneSendAtATime'
  BY <1>1, <1>2, <1>3, UnderWay, GoesOn DEF UploadInv
<1> QED
  BY <1>2, <1>4 DEF UploadInv, UploadShapes

LEMMA PausesKeeps ==
    ASSUME UploadInv, NEW s \in Sends, On(s), Pauses(s), UNCHANGED <<row, starting>>
    PROVE  UploadInv'
<1>1. /\ loop' \in [Sends -> KeptLoop] /\ \A t \in Sends : InHand(loop'[t], row')
      /\ sending' = None /\ OneSendAtATime'
  BY ItEnds DEF Pauses, UploadInv
<1>2. Replace(loop[s].of, [received |-> loop[s].offset, status |-> "uploading"])
  BY DEF Pauses, Progress
<1>3. loop[s].offset \in Nat
  BY UnderWay DEF KeptLoop
<1>4. row[loop[s].of].status # "none"
  BY UnderWay, RowsSoFar
<1>5. shown' \in [Videos -> KeptRow] /\ \A u \in Videos : Claims(shown[u], row[u])'
  BY <1>2, <1>3, <1>4, UnderWay, ShownAgain DEF UploadInv, UploadShapes, Statuses
<1> QED
  BY <1>1, <1>5 DEF UploadInv, UploadShapes

LEMMA StoppedKeeps == ASSUME UploadInv, NEW s \in Sends, Stopped(s) PROVE UploadInv'
  BY Asked, PausesKeeps DEF Stopped, InPhase, Quiet

LEMMA FailedEndsKeeps == ASSUME UploadInv, NEW s \in Sends, FailedEnds(s) PROVE UploadInv'
<1>1. /\ loop' \in [Sends -> KeptLoop] /\ \A t \in Sends : InHand(loop'[t], row')
      /\ sending' = None /\ OneSendAtATime'
  BY ItEnds DEF FailedEnds, UploadInv
<1>2. row' = row /\ starting' = starting /\ shown' \in {shown, TheList}
  BY DEF FailedEnds, Quiet
<1>3. shown' = shown \/ shown' = TheList'
  BY <1>2 DEF TheList, There
<1>4. shown' \in [Videos -> KeptRow] /\ \A u \in Videos : Claims(shown'[u], row'[u])
  BY <1>2, <1>3, ReadAgain DEF UploadInv, UploadShapes
<1> QED
  BY <1>1, <1>2, <1>4 DEF UploadInv, UploadShapes

LEMMA FinishesKeeps == ASSUME UploadInv, NEW s \in Sends, Finishes(s) PROVE UploadInv'
<1>1. On(s) /\ Replace(loop[s].of, loop[s].latest) /\ row' = row /\ starting' = starting
  BY Asked DEF Finishes, InPhase, Quiet
<1>2. /\ loop' \in [Sends -> KeptLoop] /\ \A t \in Sends : InHand(loop'[t], row')
      /\ sending' = None /\ OneSendAtATime'
  BY <1>1, ItEnds DEF Finishes, UploadInv
<1>3. /\ loop[s].latest \in KeptRow /\ loop[s].of \in Videos /\ row[loop[s].of] # NoRow
      /\ row[loop[s].of].status # "none"
      /\ Present(row[loop[s].of]) => loop[s].latest.received <= row[loop[s].of].received
  BY <1>1, UnderWay, RowsSoFar DEF KeptLoop
<1> DEFINE v == loop[s].of
           video == loop[s].latest
<1> HIDE DEF v, video
<1>4. shown' = [shown EXCEPT ![v] = video]
  BY <1>1 DEF Replace, v, video
<1>5. shown' \in [Videos -> KeptRow] /\ shown'[v] = video /\ \A u \in Videos : u # v => shown'[u] = shown[u]
  BY <1>3, <1>4 DEF UploadInv, UploadShapes, v, video
<1>6. Claims(shown'[v], row[v])
  BY <1>3, <1>5 DEF Claims, v, video
<1>7. \A u \in Videos : Claims(shown'[u], row'[u])
  BY <1>1, <1>5, <1>6 DEF UploadInv
<1> QED
  BY <1>1, <1>2, <1>5, <1>7 DEF UploadInv, UploadShapes

\* A piece was answered, with where the file has got to.
LEMMA ToldHowFar ==
    ASSUME UploadInv, NEW s \in Sends, On(s), NEW received \in Nat, NEW d \in KeptLoop,
           d.of = loop[s].of, d.phase = "ready", d.aborted = loop[s].aborted, d.offset = received,
           loop' = [loop EXCEPT ![s] = d], Progress(s, received), UNCHANGED <<sending, starting>>,
           row' \in [Videos -> KeptRow], \A u \in Videos : u # d.of => row'[u] = row[u],
           \A u \in Videos : row'[u] = NoRow <=> row[u] = NoRow, row'[d.of].status # "none",
           \A t \in Sends : InHand(loop[t], row'),
           Present(row'[d.of]) => received <= row'[d.of].received /\ d.latest.received <= row'[d.of].received
    PROVE  UploadInv'
<1>1. loop[s].of \in Videos /\ row'[loop[s].of] # NoRow
  BY UnderWay
<1>2. /\ loop' \in [Sends -> KeptLoop] /\ \A t \in Sends : InHand(loop'[t], row')
      /\ sending' # None => On(sending)'
      /\ OneSendAtATime'
  BY <1>1, GoesOn
<1>3. shown' \in [Videos -> KeptRow] /\ \A u \in Videos : Claims(shown[u], row[u])'
  BY <1>1, ShownAgain DEF Progress, Statuses
<1> QED
  BY <1>2, <1>3 DEF UploadInv, UploadShapes

\* The network dropped a piece, whatever became of it.
LEMMA DroppedKeeps ==
    ASSUME UploadInv, NEW s \in Sends, On(s), Dropped(s), starting' = starting,
           row' \in [Videos -> KeptRow], \A u \in Videos : u # loop[s].of => row'[u] = row[u],
           \A u \in Videos : row'[u] = NoRow <=> row[u] = NoRow, row'[loop[s].of].status # "none",
           \A u \in Videos : Claims(shown[u], row'[u]),
           \A t \in Sends : InHand(loop[t], row')
    PROVE  UploadInv'
<1>1. /\ loop[s] \in KeptLoop /\ loop[s].of \in Videos /\ row'[loop[s].of] # NoRow
      /\ Present(row'[loop[s].of]) => /\ loop[s].offset <= row'[loop[s].of].received
                                      /\ loop[s].latest.received <= row'[loop[s].of].received
  BY UnderWay DEF InHand, On
<1>2. CASE TryAgain(s)
  <2> DEFINE d == [loop[s] EXCEPT !.phase = "ready", !.failures = Failure(@)]
  <2>1. loop' = [loop EXCEPT ![s] = d] /\ UNCHANGED <<shown, sending>>
    BY <1>2 DEF TryAgain, Step
  <2>2. d \in KeptLoop /\ d.of = loop[s].of /\ d.phase = "ready" /\ d.aborted = loop[s].aborted
        /\ d.offset = loop[s].offset /\ d.latest = loop[s].latest
    <3> DEFINE ready == [loop[s] EXCEPT !.phase = "ready"]
               failures == Failure(ready.failures)
    <3>1. ready \in KeptLoop /\ ready.of = loop[s].of /\ ready.phase = "ready"
          /\ ready.aborted = loop[s].aborted /\ ready.offset = loop[s].offset
          /\ ready.latest = loop[s].latest
      BY <1>1 DEF KeptLoop, Phases
    <3> HIDE DEF ready
    <3>2. failures \in Nat
      BY <3>1 DEF KeptLoop, Failure
    <3>3. d = [ready EXCEPT !.failures = failures]
      BY DEF ready
    <3> HIDE DEF failures, d
    <3> QED
      BY <3>1, <3>2, <3>3 DEF KeptLoop
  <2> HIDE DEF d
  <2>3. /\ loop' \in [Sends -> KeptLoop] /\ \A t \in Sends : InHand(loop'[t], row')
        /\ sending' # None => On(sending)'
        /\ OneSendAtATime'
    BY <1>1, <2>1, <2>2, GoesOn
  <2> QED
    BY <2>1, <2>3 DEF UploadInv, UploadShapes
<1>3. CASE Pauses(s)
  <2> DEFINE d == loop[s]
  <2>1. Replace(d.of, [received |-> d.offset, status |-> "uploading"]) /\ d.offset \in Nat
    BY <1>1, <1>3 DEF Pauses, Progress, KeptLoop
  <2>2. shown' \in [Videos -> KeptRow] /\ \A u \in Videos : Claims(shown[u], row[u])'
    BY <1>1, <2>1, ShownAgain DEF Statuses
  <2>3. /\ loop' \in [Sends -> KeptLoop] /\ \A t \in Sends : InHand(loop'[t], row')
        /\ sending' = None /\ OneSendAtATime'
    BY <1>3, ItEnds DEF Pauses
  <2> QED
    BY <2>2, <2>3 DEF UploadInv, UploadShapes
<1> QED
  BY <1>2, <1>3 DEF Dropped

LEMMA ReceivePieceKeeps == ASSUME UploadInv, NEW s \in Sends, ReceivePiece(s) PROVE UploadInv'
<1> DEFINE v == loop[s].of
<1>1. On(s) /\ starting' = starting
  BY Asked DEF ReceivePiece, InPhase, Quiet
<1>2. /\ loop[s] \in KeptLoop /\ v \in Videos /\ row[v] # NoRow /\ row[v].status # "none"
      /\ Present(row[v]) => loop[s].offset <= row[v].received /\ loop[s].latest.received <= row[v].received
  BY <1>1, UnderWay, RowsSoFar
<1>3. row[v] \in KeptRow /\ row[v].received \in Nat
  BY <1>2 DEF UploadInv, UploadShapes, KeptRow
<1>4. CASE /\ Fits(v, loop[s].offset) /\ row' = [row EXCEPT ![v] = Appended(v)]
           /\ (Taken(s, row'[v]) \/ Dropped(s))
  <2>1. /\ row' \in [Videos -> KeptRow] /\ \A u \in Videos : u # v => row'[u] = row[u]
        /\ \A u \in Videos : row'[u] = NoRow <=> row[u] = NoRow
        /\ row'[v].received = row[v].received + 1 /\ row'[v].status \in {"queued", "uploading"}
        /\ row'[v] # NoRow
        /\ \A u \in Videos : Claims(shown[u], row'[u])
        /\ \A t \in Sends : InHand(loop[t], row')
    BY <1>2, <1>4, MoreArrives
  <2>2. CASE Taken(s, row'[v])
    <3> DEFINE answer == row'[v]
               d == [loop[s] EXCEPT !.phase = "ready", !.offset = answer.received,
                       !.failures = 0, !.told = Never, !.latest = answer]
    <3>1. loop' = [loop EXCEPT ![s] = d] /\ Progress(s, answer.received) /\ sending' = sending
      BY <2>2 DEF Taken, Step
    <3>2. answer \in KeptRow /\ answer.received \in Nat
      BY <1>2, <2>1 DEF KeptRow
    <3>3. d \in KeptLoop /\ d.of = v /\ d.phase = "ready" /\ d.aborted = loop[s].aborted
          /\ d.offset = answer.received /\ d.latest = answer
      <4> HIDE DEF answer
      <4> QED
        BY <1>2, <3>2 DEF KeptLoop, Phases
    <3>4. Present(row'[v]) => answer.received <= row'[v].received /\ d.latest.received <= row'[v].received
      <4> HIDE DEF d
      <4> QED
        BY <3>2, <3>3
    <3> HIDE DEF d, answer
    <3> QED
      BY <1>1, <2>1, <3>1, <3>2, <3>3, <3>4, ToldHowFar
  <2>3. CASE Dropped(s)
    BY <1>1, <2>1, <2>3, DroppedKeeps
  <2> QED
    BY <1>4, <2>2, <2>3
<1>5. CASE There(v) /\ Refused(s, row[v].received) /\ row' = row
  <2> DEFINE received == row[v].received
             d == [loop[s] EXCEPT !.phase = "ready", !.told = received, !.offset = received]
  <2>1. loop' = [loop EXCEPT ![s] = d] /\ Progress(s, received) /\ sending' = sending
    BY <1>5 DEF Refused, Step
  <2>2. Present(row[v]) /\ received \in Nat
    BY <1>3, <1>5 DEF There, Present
  <2>3. d \in KeptLoop /\ d.of = v /\ d.phase = "ready" /\ d.aborted = loop[s].aborted
        /\ d.offset = received /\ d.latest = loop[s].latest
    <3> HIDE DEF received
    <3> QED
      BY <1>2, <2>2 DEF KeptLoop, Phases
  <2>4. Present(row'[v]) => received <= row'[v].received /\ d.latest.received <= row'[v].received
    <3> HIDE DEF d
    <3> QED
      BY <1>2, <1>3, <1>5, <2>3
  <2>5. row' \in [Videos -> KeptRow] /\ \A t \in Sends : InHand(loop[t], row')
    BY <1>5 DEF UploadInv, UploadShapes
  <2> HIDE DEF d, received
  <2> QED
    BY <1>1, <1>2, <1>5, <2>1, <2>2, <2>3, <2>4, <2>5, ToldHowFar
<1>6. CASE Fails(s) /\ row' = row
  <2> DEFINE d == [loop[s] EXCEPT !.phase = "failed"]
  <2>1. loop' = [loop EXCEPT ![s] = d] /\ UNCHANGED <<shown, sending>>
    BY <1>6 DEF Fails, Step
  <2>2. d \in KeptLoop /\ d.of = v /\ d.phase = "failed" /\ d.aborted = loop[s].aborted
        /\ d.offset = loop[s].offset /\ d.latest = loop[s].latest
    BY <1>2 DEF KeptLoop, Phases
  <2> HIDE DEF d
  <2>3. /\ loop' \in [Sends -> KeptLoop] /\ \A t \in Sends : InHand(loop'[t], row')
        /\ sending' # None => On(sending)'
        /\ OneSendAtATime'
    BY <1>1, <1>2, <1>6, <2>1, <2>2, GoesOn DEF UploadInv
  <2> QED
    BY <1>1, <1>6, <2>1, <2>3 DEF UploadInv, UploadShapes
<1> QED
  BY <1>4, <1>5, <1>6 DEF ReceivePiece

LEMMA DropPieceKeeps == ASSUME UploadInv, NEW s \in Sends, DropPiece(s) PROVE UploadInv'
<1>1. On(s) /\ Dropped(s) /\ starting' = starting /\ row' = row
  BY Asked DEF DropPiece, InPhase
<1>2. loop[s].of \in Videos /\ row'[loop[s].of].status # "none"
  BY <1>1, UnderWay, RowsSoFar
<1> QED
  BY <1>1, <1>2, DroppedKeeps DEF UploadInv, UploadShapes

LEMMA UploadSteps == ASSUME UploadInv, [UploadNext]_uploadVars PROVE UploadInv'
<1>1. CASE Trainer
  BY <1>1, AddKeeps, ResumeKeeps, RemoveVideoKeeps, PauseKeeps, LoadKeeps DEF Trainer
<1>2. CASE Listed \/ Server
  BY <1>2, ListedKeeps, StartUploadKeeps, LateArrivesKeeps DEF Server
<1>3. ASSUME NEW s \in Sends, SendFile(s)
      PROVE  UploadInv'
  BY <1>3, PieceKeeps, StoppedKeeps, FailedEndsKeeps, FinishesKeeps DEF SendFile
<1>4. ASSUME NEW s \in Sends, Network(s)
      PROVE  UploadInv'
  BY <1>4, ReceivePieceKeeps, DropPieceKeeps DEF Network
<1>5. CASE UNCHANGED uploadVars
  BY <1>5 DEF uploadVars, UploadInv, UploadShapes, OneSendAtATime, On
<1> QED
  BY <1>1, <1>2, <1>3, <1>4, <1>5 DEF UploadNext

\* The inductive invariant of sending a video holds throughout.
THEOREM UploadInvariance == UploadSpec => []UploadInv
  BY UploadStarts, UploadSteps, PTL DEF UploadSpec

\* One upload at a time (TrainerVideos.tsx): a call of sendFile that the page no
\* longer shows has been told to stop, however many are under way and whatever
\* the network does to their pieces.
THEOREM OneAtATime == UploadSpec => []OneSendAtATime
<1>1. UploadInv => OneSendAtATime
  BY DEF UploadInv
<1> QED
  BY <1>1, UploadInvariance, PTL

\* The bar never claims more than has arrived (sendFile): for any number of
\* videos and sends, and any number of retries, refusals and late pieces.
THEOREM ClaimsAreKept == UploadSpec => []NothingClaimedThatIsNotKept
<1>1. UploadInv => NothingClaimedThatIsNotKept
  BY DEF UploadInv, NothingClaimedThatIsNotKept, Claims, There, Present
<1> QED
  BY <1>1, UploadInvariance, PTL

-----------------------------------------------------------------------------
(* Sending a video: within the file, and the types.                        *)

\* One of the files is the longest.
LEMMA OneIsLongest == \E u \in Videos : \A v \in Videos : Pieces[v] <= Pieces[u]
<1> DEFINE HasLongest(k) == \E u \in 1..k : \A v \in 1..k : Pieces[v] <= Pieces[u]
           Others == {k \in Videos : ~HasLongest(k)}
<1>0. Videos = 1..MaxVideos /\ MaxVideos \in Nat \ {0} /\ \A v \in Videos : Pieces[v] \in Nat
  BY UploadAssumption DEF Videos
<1> SUFFICES ASSUME Others # {}
             PROVE  FALSE
  <2> HIDE DEF HasLongest
  <2>1. MaxVideos \in Videos
    BY <1>0
  <2>2. Others = {} => HasLongest(MaxVideos)
    BY <2>1
  <2>3. HasLongest(MaxVideos) => \E u \in Videos : \A v \in Videos : Pieces[v] <= Pieces[u]
    BY <1>0 DEF HasLongest
  <2> QED
    BY <2>2, <2>3
<1>1. Others \subseteq Nat
  BY <1>0
<1>2. \A x, y \in Nat : y < x => <<y, x>> \in OpToRel(<, Nat)
  BY Zenon DEF OpToRel
<1>3. \E x \in Others : \A y \in Others : ~(<<y, x>> \in OpToRel(<, Nat))
  <2> HIDE DEF Others
  <2> QED
    BY <1>1, WFMin, NatLessThanWellFounded, Zenon
<1>4. PICK k \in Others : \A n \in Others : ~(n < k)
  <2> HIDE DEF Others
  <2> QED
    BY <1>1, <1>2, <1>3, Zenon
<1>5. k \in Videos /\ k \in Nat \ {0} /\ ~HasLongest(k)
  BY <1>0, <1>4
<1>6. CASE k = 1
  BY <1>0, <1>5, <1>6
<1>7. CASE k # 1
  <2>1. k - 1 \in Videos /\ k - 1 < k /\ HasLongest(k - 1)
    <3> HIDE DEF HasLongest
    <3>1. k - 1 \in Videos /\ k - 1 < k
      BY <1>0, <1>5, <1>7
    <3> QED
      BY <1>4, <3>1
  <2>2. PICK u \in 1..(k - 1) : \A v \in 1..(k - 1) : Pieces[v] <= Pieces[u]
    BY <2>1
  <2>3. \A v \in 1..k : v \in 1..(k - 1) \/ v = k
    BY <1>5
  <2>4. u \in 1..k /\ k \in 1..k /\ \A v \in 1..k : Pieces[v] \in Nat
    BY <1>0, <1>5, <2>1, <2>2
  <2>5. CASE Pieces[k] <= Pieces[u]
    BY <1>5, <2>2, <2>3, <2>4, <2>5
  <2>6. CASE ~(Pieces[k] <= Pieces[u])
    <3>1. \A v \in 1..k : Pieces[v] <= Pieces[k]
      BY <2>2, <2>3, <2>4, <2>6
    <3> QED
      BY <1>5, <2>4, <3>1
  <2> QED
    BY <2>5, <2>6
<1> QED
  BY <1>6, <1>7

LEMMA LongestIsLongest == Longest \in Nat /\ \A v \in Videos : Pieces[v] \in Nat /\ Pieces[v] <= Longest
<1> DEFINE lengths == {Pieces[v] : v \in Videos}
           longest == CHOOSE n \in lengths : \A v \in Videos : Pieces[v] <= n
<1>1. \E n \in lengths : \A v \in Videos : Pieces[v] <= n
  BY OneIsLongest
<1>2. longest \in lengths /\ \A v \in Videos : Pieces[v] <= longest
  BY <1>1, Zenon
<1>3. \A n \in lengths : n \in Nat
  BY UploadAssumption DEF Videos
<1>4. longest = Longest
  BY DEF Longest
<1> HIDE DEF longest
<1> QED
  BY <1>2, <1>3, <1>4

\* A row has at most the pieces of its file, and fewer while more are to come.
RowFits(v, r) == r.received <= Pieces[v] /\ (r.status = "uploading" => r.received < Pieces[v])

\* A send is within its file and its retries.
SendFits(c) ==
    c = Off \/ ( /\ c.offset <= Pieces[c.of] /\ c.latest.received <= Pieces[c.of]
                 /\ c.failures <= MaxRetries /\ c.told <= Never )

RowsFit == \A v \in Videos : RowFits(v, row[v]) /\ shown[v].received <= Pieces[v]
SendsFit == \A s \in Sends : SendFits(loop[s])
LateFits == late \subseteq Videos \X (0..Longest)

UploadFits == UploadInv /\ RowsFit /\ SendsFit /\ LateFits

LEMMA FitsAreTyped == ASSUME UploadFits PROVE UploadTypeOK
<1>1. \A v \in Videos, n \in Nat : n <= Pieces[v] => n \in 0..Longest
  BY LongestIsLongest
<1>2. \A v \in Videos : row[v] \in Row /\ shown[v] \in Row
  BY <1>1 DEF UploadFits, UploadInv, UploadShapes, RowsFit, RowFits, KeptRow, Row
<1>3. ASSUME NEW s \in Sends
      PROVE  loop[s] \in Loop
  <2>1. CASE loop[s] = Off
    BY <2>1, LongestIsLongest, UploadAssumption DEF Off, Loop, NoRow, Row, Statuses, Phases, Never
  <2>2. CASE loop[s] # Off
    <3>1. loop[s] \in KeptLoop /\ loop[s].of \in Videos
      BY <2>2, UnderWay DEF UploadFits, On
    <3>2. loop[s].offset \in 0..Longest /\ loop[s].latest \in Row
      BY <1>1, <2>2, <3>1 DEF UploadFits, SendsFit, SendFits, KeptLoop, KeptRow, Row
    <3>3. loop[s].failures \in 0..MaxRetries /\ loop[s].told \in 0..Never
      BY <2>2, <3>1, LongestIsLongest, UploadAssumption
         DEF UploadFits, SendsFit, SendFits, KeptLoop, Never
    <3> QED
      BY <3>1, <3>2, <3>3 DEF KeptLoop, Loop
  <2> QED
    BY <2>1, <2>2
<1> QED
  BY <1>2, <1>3 DEF UploadFits, UploadInv, UploadShapes, UploadTypeOK, LateFits

LEMMA FitsStart == ASSUME UploadInit PROVE UploadFits
<1>1. UploadInv
  BY UploadStarts
<1>2. RowsFit
  BY LongestIsLongest DEF UploadInit, RowsFit, RowFits, NoRow
<1> QED
  BY <1>1, <1>2 DEF UploadInit, UploadFits, SendsFit, SendFits, LateFits

\* A send that is told to stop, one that begins where a row has got to, one that is over.
LEMMA ToldFits ==
    ASSUME NEW c \in KeptLoop, c # Off, SendFits(c)
    PROVE  SendFits([c EXCEPT !.aborted = TRUE])
BY DEF SendFits, KeptLoop

\* What loop is after a step of one send, with the one before it told to stop or not.
LEMMA OneSteps ==
    ASSUME UploadFits, NEW s \in Sends, NEW d, SendFits(d),
           loop' = [loop EXCEPT ![s] = d] \/ \E now : loop' = [Aborting(now) EXCEPT ![s] = d]
    PROVE  SendsFit'
<1>1. loop \in [Sends -> KeptLoop] /\ \A t \in Sends : SendFits(loop[t])
  BY DEF UploadFits, UploadInv, UploadShapes, SendsFit
<1>2. \A t \in Sends : On(t) => SendFits([loop[t] EXCEPT !.aborted = TRUE])
  BY <1>1, ToldFits DEF On
<1>3. CASE loop' = [loop EXCEPT ![s] = d]
  <2>1. \A t \in Sends : loop'[t] = IF t = s THEN d ELSE loop[t]
    BY <1>1, <1>3
  <2> QED
    BY <1>1, <2>1 DEF SendsFit
<1>4. ASSUME NEW now, loop' = [Aborting(now) EXCEPT ![s] = d]
      PROVE  SendsFit'
  <2>1. \A t \in Sends : \/ loop'[t] \in {d, loop[t]}
                          \/ (On(t) /\ loop'[t] = [loop[t] EXCEPT !.aborted = TRUE])
    <3> DEFINE stopped(t) == [loop[t] EXCEPT !.aborted = TRUE]
               Told(t) == IF t = sending /\ t # now /\ On(t) THEN stopped(t) ELSE loop[t]
    <3>1. loop' = [[t \in Sends |-> Told(t)] EXCEPT ![s] = d]
      <4>1. Aborting(now) = [t \in Sends |-> Told(t)]
        BY DEF Aborting
      <4> HIDE DEF Told
      <4> QED
        BY <1>4, <4>1
    <3>2. \A t \in Sends : loop'[t] = IF t = s THEN d ELSE Told(t)
      <4> HIDE DEF Told
      <4> QED
        BY <3>1
    <3> HIDE DEF stopped
    <3>3. \A t \in Sends : Told(t) = loop[t] \/ (On(t) /\ Told(t) = stopped(t))
      OBVIOUS
    <3> HIDE DEF Told
    <3>4. \A t \in Sends : loop'[t] \in {d, loop[t]} \/ (On(t) /\ loop'[t] = stopped(t))
      BY <3>2, <3>3
    <3>5. \A t \in Sends : stopped(t) = [loop[t] EXCEPT !.aborted = TRUE]
      BY Zenon DEF stopped
    <3> QED
      BY <3>4, <3>5, Zenon
  <2> QED
    BY <1>1, <1>2, <2>1 DEF SendsFit
<1> QED
  BY <1>3, <1>4

LEMMA BeginsFit ==
    ASSUME UploadFits, NEW v \in Videos, NEW video \in KeptRow, video.received <= Pieces[v], Send(v, video)
    PROVE  SendsFit'
<1>1. PICK s \in Sends :
         loop' = [Aborting(s) EXCEPT ![s] = [Off EXCEPT
                    !.of = v, !.phase = "ready", !.offset = video.received, !.latest = video]]
  BY DEF Send
<1> DEFINE d == [Off EXCEPT !.of = v, !.phase = "ready", !.offset = video.received, !.latest = video]
<1>2. d.of = v /\ d.offset = video.received /\ d.latest = video /\ d.failures = 0 /\ d.told = Never
  BY DEF Off
<1>3. SendFits(d)
  <2> HIDE DEF d
  <2> QED
    BY <1>2, LongestIsLongest, UploadAssumption DEF SendFits, Never
<1> HIDE DEF d
<1> QED
  BY <1>1, <1>3, OneSteps DEF d

LEMMA EndsFit == ASSUME UploadFits, NEW s \in Sends, Ends(s) PROVE SendsFit'
<1>1. SendFits(Off)
  BY DEF SendFits
<1> QED
  BY <1>1, OneSteps DEF Ends

\* A send under way, in the numbers of its file.
LEMMA InItsFile ==
    ASSUME UploadFits, NEW s \in Sends, loop[s].phase # "off"
    PROVE  /\ loop[s] \in KeptLoop /\ loop[s].of \in Videos /\ row[loop[s].of] \in KeptRow
           /\ loop[s].offset <= Pieces[loop[s].of] /\ loop[s].latest.received <= Pieces[loop[s].of]
           /\ loop[s].latest \in KeptRow /\ loop[s].failures <= MaxRetries /\ loop[s].told <= Never
           /\ RowFits(loop[s].of, row[loop[s].of])
<1>1. On(s) /\ loop[s] # Off
  BY Asked DEF On
<1>2. loop[s] \in KeptLoop /\ loop[s].of \in Videos
  BY <1>1, UnderWay DEF UploadFits
<1> QED
  BY <1>1, <1>2 DEF UploadFits, UploadInv, UploadShapes, SendsFit, SendFits, RowsFit, KeptLoop

\* The list that is read shows what is there.
LEMMA ListFits ==
    ASSUME \A v \in Videos : RowFits(v, row'[v]), shown' = TheList'
    PROVE  \A v \in Videos : shown'[v].received <= Pieces[v]
BY LongestIsLongest DEF TheList, NoRow, RowFits

\* What is given up was sent.
LEMMA GivenUpFits ==
    ASSUME UploadFits, NEW asking \in SUBSET Sends, \A s \in asking : loop[s].phase = "asked",
           late' \in GivenUp(asking)
    PROVE  LateFits'
<1>1. \A s \in asking : <<loop[s].of, loop[s].offset>> \in Videos \X (0..Longest)
  <2>1. ASSUME NEW s \in asking
        PROVE  loop[s].of \in Videos /\ loop[s].offset \in 0..Longest
    BY InItsFile, LongestIsLongest DEF KeptLoop
  <2> QED
    BY <2>1
<1>2. PICK some \in SUBSET asking : late' = late \cup {<<loop[s].of, loop[s].offset>> : s \in some}
  BY DEF GivenUp
<1> QED
  BY <1>1, <1>2 DEF UploadFits, LateFits

LEMMA AppendedFits ==
    ASSUME UploadFits, NEW v \in Videos, NEW offset, Fits(v, offset)
    PROVE  RowFits(v, Appended(v))
<1>1. row[v].received \in Nat /\ row[v].received < Pieces[v] /\ Pieces[v] \in Nat
  BY LongestIsLongest DEF Fits, UploadFits, UploadInv, UploadShapes, RowsFit, RowFits, KeptRow
<1> QED
  BY <1>1 DEF Appended, RowFits

LEMMA TrainerFits == ASSUME UploadFits, Trainer PROVE RowsFit' /\ SendsFit' /\ LateFits'
<1>0. RowsFit /\ SendsFit /\ LateFits /\ \A v \in Videos : Pieces[v] > 0
  BY UploadAssumption DEF UploadFits, Videos
<1>1. ASSUME NEW v \in Videos, Add(v)
      PROVE  RowsFit' /\ SendsFit' /\ LateFits'
  BY <1>0, <1>1 DEF Add, RowsFit, SendsFit, LateFits
<1>2. ASSUME NEW v \in Videos, Resume(v)
      PROVE  RowsFit' /\ SendsFit' /\ LateFits'
  <2>1. shown[v] \in KeptRow /\ shown[v].received <= Pieces[v] /\ Send(v, shown[v])
    BY <1>2 DEF Resume, UploadFits, UploadInv, UploadShapes, RowsFit
  <2> QED
    BY <1>0, <1>2, <2>1, BeginsFit DEF Resume, RowsFit, LateFits
\* One send is told to stop.
<1>3. ASSUME NEW s \in Sends, On(s), loop' = [loop EXCEPT ![s].aborted = TRUE]
      PROVE  SendsFit'
  <2>1. loop[s] \in KeptLoop /\ SendFits(loop[s]) /\ loop[s] # Off
    BY <1>3 DEF UploadFits, UploadInv, UploadShapes, SendsFit, On
  <2>2. SendFits([loop[s] EXCEPT !.aborted = TRUE])
    BY <2>1, ToldFits
  <2>3. loop' = [loop EXCEPT ![s] = [loop[s] EXCEPT !.aborted = TRUE]]
    BY <1>3
  <2> QED
    BY <2>2, <2>3, OneSteps
<1>4. CASE Pause
  <2>1. sending \in Sends /\ On(sending)
    BY <1>4 DEF Pause, UploadFits, UploadInv, UploadShapes
  <2> QED
    BY <1>0, <1>3, <1>4, <2>1 DEF Pause, RowsFit, LateFits
<1>5. ASSUME NEW v \in Videos, RemoveVideo(v)
      PROVE  RowsFit' /\ SendsFit' /\ LateFits'
  <2>1. SendsFit'
    <3>1. sending # None => sending \in Sends /\ On(sending)
      BY DEF UploadFits, UploadInv, UploadShapes
    <3> QED
      BY <1>0, <1>3, <1>5, <3>1 DEF RemoveVideo, SendsFit
  <2>2. RowsFit'
    <3>1. CASE UNCHANGED <<row, shown>>
      BY <1>0, <3>1 DEF RowsFit
    <3>2. CASE /\ row' = [row EXCEPT ![v] = [received |-> 0, status |-> "removed"]]
               /\ shown' \in {shown, [shown EXCEPT ![v] = NoRow], TheList'}
      <4>1. \A u \in Videos : RowFits(u, row'[u])
        BY <1>0, <3>2, LongestIsLongest DEF RowsFit, RowFits, UploadFits, UploadInv, UploadShapes
      <4>2. \A u \in Videos : shown'[u].received <= Pieces[u]
        <5>1. CASE shown' = shown
          BY <1>0, <5>1 DEF RowsFit
        <5>2. CASE shown' = [shown EXCEPT ![v] = NoRow]
          <6>1. \A u \in Videos : shown'[u] = IF u = v THEN NoRow ELSE shown[u]
            BY <5>2 DEF UploadFits, UploadInv, UploadShapes
          <6> QED
            BY <1>0, <6>1, LongestIsLongest DEF RowsFit, NoRow
        <5>3. CASE shown' = TheList'
          BY <4>1, <5>3, ListFits
        <5> QED
          BY <3>2, <5>1, <5>2, <5>3
      <4> QED
        BY <4>1, <4>2 DEF RowsFit
    <3> QED
      BY <1>5, <3>1, <3>2 DEF RemoveVideo
  <2> QED
    BY <1>0, <1>5, <2>1, <2>2 DEF RemoveVideo, LateFits
<1>6. CASE Load
  <2>1. row' = row /\ shown' = TheList'
    BY <1>6 DEF Load, TheList, There
  <2>2. RowsFit'
    BY <1>0, <2>1, ListFits DEF RowsFit
  <2>3. SendsFit'
    BY <1>6 DEF Load, SendsFit, SendFits
  <2>4. LateFits'
    BY <1>6, GivenUpFits DEF Load
  <2> QED
    BY <2>2, <2>3, <2>4
<1> QED
  BY <1>1, <1>2, <1>4, <1>5, <1>6 DEF Trainer

LEMMA ServerFits == ASSUME UploadFits, Listed \/ Server PROVE RowsFit' /\ SendsFit' /\ LateFits'
<1>0. RowsFit /\ SendsFit /\ LateFits
  BY DEF UploadFits
<1>1. CASE Listed
  <2>1. row' = row /\ shown' = TheList' /\ UNCHANGED <<late, loop>>
    BY <1>1 DEF Listed, TheList, There
  <2> QED
    BY <1>0, <2>1, ListFits DEF RowsFit, SendsFit, LateFits
<1>2. CASE StartUpload /\ row' = [row EXCEPT ![starting] = [received |-> 0, status |-> "uploading"]]
  <2> DEFINE new == [received |-> 0, status |-> "uploading"]
  <2>1. starting \in Videos /\ row \in [Videos -> KeptRow] /\ shown \in [Videos -> KeptRow]
    BY <1>2 DEF StartUpload, UploadFits, UploadInv, UploadShapes
  <2>2. new \in KeptRow /\ RowFits(starting, new) /\ new.received <= Pieces[starting]
    BY <2>1, UploadAssumption DEF KeptRow, Statuses, RowFits, Videos
  <2> HIDE DEF new
  <2>3. row' \in [Videos -> KeptRow] /\ row'[starting] = new /\ \A u \in Videos : u # starting => row'[u] = row[u]
    BY <1>2, <2>1, <2>2 DEF new
  <2>4. CASE Replace(starting, row'[starting]) /\ Send(starting, row'[starting])
    <3>1. SendsFit'
      BY <2>1, <2>2, <2>3, <2>4, BeginsFit
    <3>2. \A u \in Videos : shown'[u] = IF u = starting THEN new ELSE shown[u]
      BY <2>1, <2>3, <2>4 DEF Replace
    <3> QED
      BY <1>0, <1>2, <2>2, <2>3, <3>1, <3>2 DEF StartUpload, RowsFit, LateFits
  <2>5. CASE UNCHANGED <<shown, loop, sending>>
    BY <1>0, <1>2, <2>2, <2>3, <2>5 DEF StartUpload, RowsFit, SendsFit, LateFits
  <2> QED
    BY <1>2, <2>1, <2>2, <2>3, <2>4, <2>5 DEF StartUpload, UploadFits, UploadInv, new, NoRow
<1>3. CASE StartUpload /\ UNCHANGED <<row, shown, loop, sending>>
  BY <1>0, <1>3 DEF StartUpload, RowsFit, SendsFit, LateFits
<1>4. CASE LateArrives
  <2>1. PICK o \in late :
           row' = IF Fits(o[1], o[2]) THEN [row EXCEPT ![o[1]] = Appended(o[1])] ELSE row
    BY <1>4 DEF LateArrives
  <2>2. o[1] \in Videos
    BY <1>0 DEF LateFits
  <2>3. \A u \in Videos : RowFits(u, row'[u])
    BY <1>0, <2>1, <2>2, AppendedFits DEF RowsFit, UploadFits, UploadInv, UploadShapes
  <2>4. late' \subseteq late /\ UNCHANGED <<loop, shown>>
    BY <1>4 DEF LateArrives, PageStays
  <2> QED
    BY <1>0, <2>3, <2>4 DEF RowsFit, SendsFit, LateFits
<1> QED
  BY <1>1, <1>2, <1>3, <1>4 DEF Server, StartUpload

\* What the page shows of the video a send is of.
LEMMA ProgressFits ==
    ASSUME UploadFits, NEW s \in Sends, loop[s].phase # "off", NEW received,
           received <= Pieces[loop[s].of], Progress(s, received), \A v \in Videos : RowFits(v, row'[v])
    PROVE  RowsFit'
<1>1. loop[s].of \in Videos
  BY InItsFile
<1>2. \A v \in Videos : shown'[v] = IF v = loop[s].of THEN [received |-> received, status |-> "uploading"]
                                                      ELSE shown[v]
  BY <1>1 DEF Progress, Replace, UploadFits, UploadInv, UploadShapes
<1> QED
  BY <1>2 DEF RowsFit, UploadFits

\* A piece the network dropped: tried again, or the send pauses.
LEMMA DroppedFits ==
    ASSUME UploadFits, NEW s \in Sends, loop[s].phase # "off", Dropped(s),
           \A v \in Videos : RowFits(v, row'[v])
    PROVE  RowsFit' /\ SendsFit'
<1>1. /\ loop[s] \in KeptLoop /\ loop[s].of \in Videos
      /\ loop[s].offset <= Pieces[loop[s].of] /\ loop[s].latest.received <= Pieces[loop[s].of]
      /\ loop[s].failures <= MaxRetries /\ loop[s].told <= Never
  BY InItsFile
<1>2. CASE TryAgain(s)
  <2> DEFINE d == [loop[s] EXCEPT !.phase = "ready", !.failures = @ + 1]
  <2>1. loop' = [loop EXCEPT ![s] = d] /\ shown' = shown /\ loop[s].failures < MaxRetries
    BY <1>2 DEF TryAgain, Step, Failure
  <2>2. d.of = loop[s].of /\ d.offset = loop[s].offset /\ d.latest = loop[s].latest
        /\ d.failures = loop[s].failures + 1 /\ d.told = loop[s].told
    BY <1>1 DEF KeptLoop
  <2>3. d.failures <= MaxRetries
    <3>1. loop[s].failures \in Nat
      BY <1>1 DEF KeptLoop
    <3> HIDE DEF d
    <3> QED
      BY <2>1, <2>2, <3>1, UploadAssumption
  <2>4. SendFits(d)
    <3> HIDE DEF d
    <3> QED
      BY <1>1, <2>2, <2>3 DEF SendFits
  <2> HIDE DEF d
  <2> QED
    BY <2>1, <2>4, OneSteps DEF UploadFits, RowsFit
<1>3. CASE Pauses(s)
  BY <1>1, <1>3, ProgressFits, EndsFit DEF Pauses
<1> QED
  BY <1>2, <1>3 DEF Dropped

LEMMA SendFileFits ==
    ASSUME UploadFits, NEW s \in Sends, SendFile(s)
    PROVE  RowsFit' /\ SendsFit' /\ LateFits'
<1>0. RowsFit /\ SendsFit /\ LateFits /\ loop[s].phase # "off"
  BY DEF UploadFits, SendFile, Piece, Stopped, FailedEnds, Finishes, InPhase
<1>1. row' = row /\ late' = late /\ \A v \in Videos : RowFits(v, row'[v])
  BY <1>0 DEF SendFile, Piece, Stopped, FailedEnds, Finishes, Quiet, RowsFit
<1>2. /\ loop[s] \in KeptLoop /\ loop[s].of \in Videos
      /\ loop[s].offset <= Pieces[loop[s].of] /\ loop[s].latest.received <= Pieces[loop[s].of]
      /\ loop[s].failures <= MaxRetries /\ loop[s].told <= Never
  BY <1>0, InItsFile
<1>3. CASE Piece(s)
  <2> DEFINE d == [loop[s] EXCEPT !.phase = "asked"]
  <2>1. loop' = [loop EXCEPT ![s] = d] /\ shown' = shown
    BY <1>3 DEF Piece, Step
  <2>2. d.of = loop[s].of /\ d.offset = loop[s].offset /\ d.latest = loop[s].latest
        /\ d.failures = loop[s].failures /\ d.told = loop[s].told
    BY <1>2 DEF KeptLoop
  <2> HIDE DEF d
  <2>3. SendFits(d)
    BY <1>2, <2>2 DEF SendFits
  <2> QED
    BY <1>0, <1>1, <2>1, <2>3, OneSteps DEF RowsFit, LateFits
<1>4. CASE Stopped(s)
  BY <1>0, <1>1, <1>2, <1>4, ProgressFits, EndsFit DEF Stopped, Pauses, LateFits
<1>5. CASE FailedEnds(s)
  <2>1. shown' = shown \/ shown' = TheList'
    BY <1>1, <1>5 DEF FailedEnds, TheList, There
  <2> QED
    BY <1>0, <1>1, <1>5, <2>1, ListFits, EndsFit DEF FailedEnds, RowsFit, LateFits
<1>6. CASE Finishes(s)
  <2>1. \A v \in Videos : shown'[v] = IF v = loop[s].of THEN loop[s].latest ELSE shown[v]
    BY <1>2, <1>6 DEF Finishes, Replace, UploadFits, UploadInv, UploadShapes
  <2> QED
    BY <1>0, <1>1, <1>2, <1>6, <2>1, EndsFit DEF Finishes, RowsFit, LateFits
<1> QED
  BY <1>3, <1>4, <1>5, <1>6 DEF SendFile

\* A send that was told where the file has got to.
LEMMA HowFarFits ==
    ASSUME UploadFits, NEW s \in Sends, loop[s].phase # "off", NEW received \in Nat,
           received <= Pieces[loop[s].of], \A v \in Videos : RowFits(v, row'[v]), NEW d,
           loop' = [loop EXCEPT ![s] = d], Progress(s, received),
           d.of = loop[s].of, d.offset = received, d.latest.received <= Pieces[d.of],
           d.failures <= MaxRetries, d.told <= Never
    PROVE  RowsFit' /\ SendsFit'
<1>1. SendFits(d)
  BY DEF SendFits
<1> QED
  BY <1>1, ProgressFits, OneSteps

LEMMA NetworkFits ==
    ASSUME UploadFits, NEW s \in Sends, Network(s)
    PROVE  RowsFit' /\ SendsFit' /\ LateFits'
<1> DEFINE v == loop[s].of
<1>0. RowsFit /\ SendsFit /\ LateFits /\ loop[s].phase = "asked" /\ loop[s].phase # "off"
  BY DEF UploadFits, Network, ReceivePiece, DropPiece, InPhase
<1>1. /\ loop[s] \in KeptLoop /\ v \in Videos /\ row[v] \in KeptRow /\ row[v].received \in Nat
      /\ loop[s].latest.received <= Pieces[v] /\ loop[s].failures <= MaxRetries
      /\ row[v].received <= Pieces[v] /\ loop[s].offset <= Pieces[v] /\ loop[s].told <= Never
  BY <1>0, InItsFile DEF RowFits, KeptRow
<1>2. Pieces[v] \in Nat /\ Pieces[v] <= Never /\ Never \in Nat /\ MaxRetries \in Nat
  BY <1>1, LongestIsLongest, UploadAssumption DEF Never
<1>3. CASE DropPiece(s)
  <2>1. LateFits'
    BY <1>0, <1>3, GivenUpFits DEF DropPiece
  <2> QED
    BY <1>0, <1>3, <2>1, DroppedFits DEF DropPiece, RowsFit
<1>4. CASE /\ Fits(v, loop[s].offset) /\ row' = [row EXCEPT ![v] = Appended(v)] /\ late' = late
           /\ (Taken(s, row'[v]) \/ Dropped(s))
  <2>1. row'[v] = Appended(v) /\ \A u \in Videos : u # v => row'[u] = row[u]
    BY <1>1, <1>4 DEF UploadFits, UploadInv, UploadShapes
  <2>2. RowFits(v, row'[v]) /\ row'[v].received \in Nat
    BY <1>1, <1>4, <2>1, AppendedFits DEF Appended
  <2>3. \A u \in Videos : RowFits(u, row'[u])
    BY <1>0, <2>1, <2>2 DEF RowsFit
  <2>4. CASE Taken(s, row'[v])
    <3> DEFINE answer == row'[v]
               d == [loop[s] EXCEPT !.phase = "ready", !.offset = answer.received,
                       !.failures = 0, !.told = Never, !.latest = answer]
    <3>1. loop' = [loop EXCEPT ![s] = d] /\ Progress(s, answer.received)
      BY <2>4 DEF Taken, Step
    <3>2. d.of = v /\ d.offset = answer.received /\ d.latest = answer /\ d.failures = 0 /\ d.told = Never
      BY <1>1 DEF KeptLoop
    <3> HIDE DEF d
    <3>3. answer.received <= Pieces[v]
      BY <2>2 DEF RowFits
    <3>4. d.latest.received <= Pieces[d.of] /\ d.failures <= MaxRetries /\ d.told <= Never
      BY <1>2, <3>2, <3>3
    <3>5. answer.received \in Nat
      BY <2>2
    <3> HIDE DEF answer
    <3>6. RowsFit' /\ SendsFit'
      BY <1>0, <2>3, <3>1, <3>2, <3>3, <3>4, <3>5, HowFarFits
    <3> QED
      BY <1>0, <1>4, <3>6 DEF LateFits
  <2>5. CASE Dropped(s)
    BY <1>0, <1>4, <2>3, <2>5, DroppedFits DEF LateFits
  <2> QED
    BY <1>4, <2>4, <2>5
<1>5. CASE Refused(s, row[v].received) /\ row' = row /\ late' = late
  <2> DEFINE received == row[v].received
             d == [loop[s] EXCEPT !.phase = "ready", !.told = received, !.offset = received]
  <2>1. loop' = [loop EXCEPT ![s] = d] /\ Progress(s, received)
    BY <1>5 DEF Refused, Step
  <2>2. d.of = v /\ d.offset = received /\ d.latest = loop[s].latest
        /\ d.failures = loop[s].failures /\ d.told = received
    BY <1>1 DEF KeptLoop
  <2>3. received \in Nat /\ received <= Pieces[v] /\ received <= Never
    BY <1>1, <1>2
  <2>4. \A u \in Videos : RowFits(u, row'[u])
    BY <1>0, <1>5 DEF RowsFit
  <2> HIDE DEF d, received
  <2> QED
    BY <1>0, <1>1, <1>5, <2>1, <2>2, <2>3, <2>4, HowFarFits DEF LateFits
<1>6. CASE Fails(s) /\ row' = row /\ late' = late
  <2> DEFINE d == [loop[s] EXCEPT !.phase = "failed"]
  <2>1. loop' = [loop EXCEPT ![s] = d] /\ shown' = shown
    BY <1>6 DEF Fails, Step
  <2>2. d.of = v /\ d.offset = loop[s].offset /\ d.latest = loop[s].latest
        /\ d.failures = loop[s].failures /\ d.told = loop[s].told
    BY <1>1 DEF KeptLoop
  <2> HIDE DEF d
  <2>3. SendFits(d)
    BY <1>1, <2>2 DEF SendFits
  <2> QED
    BY <1>0, <1>6, <2>1, <2>3, OneSteps DEF RowsFit, LateFits
<1> QED
  BY <1>3, <1>4, <1>5, <1>6 DEF Network, ReceivePiece, Quiet

LEMMA UploadFitsSteps == ASSUME UploadFits, [UploadNext]_uploadVars PROVE UploadFits'
<1>1. UploadInv'
  BY UploadSteps DEF UploadFits
<1>2. RowsFit' /\ SendsFit' /\ LateFits'
  <2>1. CASE UNCHANGED uploadVars
    BY <2>1 DEF uploadVars, UploadFits, RowsFit, SendsFit, LateFits
  <2> QED
    BY <2>1, TrainerFits, ServerFits, SendFileFits, NetworkFits DEF UploadNext
<1> QED
  BY <1>1, <1>2 DEF UploadFits

\* The rows, sends and late pieces of VideoUpload are within their files throughout.
THEOREM UploadFitsThroughout == UploadSpec => []UploadFits
<1>1. UploadInit => UploadFits
  BY FitsStart
<1>2. UploadFits /\ [UploadNext]_uploadVars => UploadFits'
  BY UploadFitsSteps
<1> QED
  BY <1>1, <1>2, PTL DEF UploadSpec

\* Every variable of VideoUpload stays in its type: no piece is tried again more often than
\* MAX_RETRIES allows, and no more is counted than the longest file has.
THEOREM UploadTypeCorrect == UploadSpec => []UploadTypeOK
<1>1. UploadFits => UploadTypeOK
  BY FitsAreTyped
<1> QED
  BY <1>1, UploadFitsThroughout, PTL

\* No send, no row and no bar gets past the end of its own file, and one that has all of
\* it no longer takes pieces (sendFile stops at the file's size and nowhere beyond,
\* receive_chunk queues a whole file).
THEOREM NothingPastTheEnd == UploadSpec => [](RowsFit /\ SendsFit)
<1>1. UploadFits => RowsFit /\ SendsFit
  BY DEF UploadFits
<1> QED
  BY <1>1, UploadFitsThroughout, PTL

-----------------------------------------------------------------------------
(* The course studio.                                                      *)

\* What the lessons' order is plays no part: it is whatever it is.
Requests(list) ==
    [op : {"price", "sale", "page", "tools", "payout", "boost", "verify", "order"} \cup Rest,
     value : Nat, list : {list}, row : Offer,
     stage : {"asked", "read", "answered", "none", "success", "failed", "refused"},
     ok : BOOLEAN, shown : BOOLEAN]
Screens(list) ==
    [at : Tabs \cup Studio \cup {"paystack", "away"}, list : {list}, dirty : BOOLEAN,
     payable : BOOLEAN, price : Nat, answering : BOOLEAN, boost : Nat]

\* A request under way: the price it will write has somewhere to go, the row it will
\* write is featured for no longer than is paid for, the boost it is about is there.
Carries(c, payout, paid, n) ==
    /\ c \in Requests(c.list)
    /\ c.op \in {"price", "sale"} => c.value \in 0..TopPrice
    /\ c.op = "price" /\ c.stage = "read" => c.value = 0 \/ payout
    /\ c.op = "payout" /\ c.stage = "read" => c.row.featured <= paid
    /\ c.op = "verify" => c.value \in 1..n
    /\ c.op = "boost" /\ c.stage # "answered" => c.value \in {1, 4}
    /\ c.op = "boost" /\ c.stage = "answered" /\ c.ok => c.value \in 1..n

Requested(requests, payout, paid, n) ==
    /\ requests = [id \in DOMAIN requests |-> requests[id]]
    /\ \A id \in DOMAIN requests : Carries(requests[id], payout, paid, n)

OnScreen(p, n) == p \in Screens(p.list) /\ (p.at = "paystack" => p.boost \in 1..n)

\* The inductive invariant.
StudioInv ==
    /\ offer \in Offer /\ boosts \in Seq(Boost)
    /\ Requested(calls, offer.payout, PaidDays, Len(boosts))
    /\ OnScreen(page, Len(boosts))
    /\ FeaturedIsPaidFor
    /\ PricedMeansPayable

\* The days of the boosts b that are in `paid`.
DaysIn(b, paid) == UNION {{n} \X (1..b[n].days) : n \in paid}
PaidOf(b) == {n \in DOMAIN b : b[n].status = "paid"}

LEMMA DaysAreThose ==
    /\ PaidDays = Cardinality(DaysIn(boosts, PaidOf(boosts)))
    /\ PaidDays' = Cardinality(DaysIn(boosts', PaidOf(boosts')))
BY DEF PaidDays, DaysOf, DaysIn, PaidOf

LEMMA BoostRows ==
    ASSUME NEW b \in Seq(Boost)
    PROVE  /\ Len(b) \in Nat /\ DOMAIN b = 1..Len(b)
           /\ \A n \in 1..Len(b) : b[n] \in Boost /\ b[n].days \in {1, 4} /\ b[n].days \in 1..4 /\ b[n].days \in Nat
<1>1. \A n \in 1..Len(b) : b[n] \in Boost
  OBVIOUS
<1>2. \A r \in Boost : r.days \in {1, 4}
  BY DEF Boost
<1>3. \A d \in {1, 4} : d \in 1..4 /\ d \in Nat
  OBVIOUS
<1> QED
  BY <1>1, <1>2, <1>3

LEMMA DaysAreCounted ==
    ASSUME NEW b \in Seq(Boost)
    PROVE  IsFiniteSet(DaysIn(b, PaidOf(b))) /\ Cardinality(DaysIn(b, PaidOf(b))) \in Nat
<1> DEFINE all == (1..Len(b)) \X (1..4)
<1>1. IsFiniteSet(all)
  <2>1. IsFiniteSet(1..Len(b)) /\ IsFiniteSet(1..4)
    <3>1. Len(b) \in Int /\ 1 \in Int /\ 4 \in Int
      BY BoostRows
    <3> QED
      BY <3>1, FS_Interval, Zenon
  <2> QED
    BY <2>1, FS_Product
<1>2. \A n \in PaidOf(b) : n \in 1..Len(b) /\ 1..b[n].days \subseteq 1..4
  <2>1. \A d \in 1..4 : 1..d \subseteq 1..4
    OBVIOUS
  <2> QED
    BY <2>1, BoostRows DEF PaidOf
<1>3. DaysIn(b, PaidOf(b)) \subseteq all
  BY <1>2 DEF DaysIn
<1> HIDE DEF all
<1>4. IsFiniteSet(DaysIn(b, PaidOf(b)))
  BY <1>1, <1>3, FS_Subset
<1> QED
  BY <1>4, FS_CardinalityType

\* Another boost is paid.
LEMMA OneMorePaid ==
    ASSUME NEW b \in Seq(Boost), NEW c \in Seq(Boost), NEW n \in 1..Len(b), Len(c) = Len(b),
           b[n].status # "paid", c[n].status = "paid", c[n].days = b[n].days,
           \A m \in 1..Len(b) : m # n => c[m] = b[m]
    PROVE  Cardinality(DaysIn(c, PaidOf(c))) = Cardinality(DaysIn(b, PaidOf(b))) + b[n].days
<1> DEFINE old == DaysIn(b, PaidOf(b))
           more == {n} \X (1..b[n].days)
<1>1. PaidOf(c) = PaidOf(b) \cup {n} /\ n \notin PaidOf(b)
  BY DEF PaidOf
<1>2. \A m \in PaidOf(b) : c[m].days = b[m].days
  BY <1>1 DEF PaidOf
<1>3. DaysIn(c, PaidOf(c)) = old \cup more
  <2>1. ASSUME NEW x
        PROVE  x \in DaysIn(c, PaidOf(c)) <=> x \in old \/ x \in more
    <3>1. x \in DaysIn(c, PaidOf(c)) <=> \E m \in PaidOf(c) : x \in {m} \X (1..c[m].days)
      BY DEF DaysIn
    <3>2. x \in old <=> \E m \in PaidOf(b) : x \in {m} \X (1..b[m].days)
      BY DEF DaysIn
    <3> QED
      BY <1>1, <1>2, <3>1, <3>2
  <2> QED
    BY <2>1
<1>4. old \cap more = {}
  BY <1>1 DEF DaysIn
<1>5. IsFiniteSet(old) /\ Cardinality(old) \in Nat
  BY DaysAreCounted
<1>6. IsFiniteSet(more) /\ Cardinality(more) = b[n].days
  <2> DEFINE d == b[n].days
  <2>1. d \in Nat /\ d >= 1
    BY BoostRows
  <2>2. IsFiniteSet({n}) /\ Cardinality({n}) = 1
    BY FS_Singleton
  <2> HIDE DEF d
  <2>3. IsFiniteSet(1..d) /\ Cardinality(1..d) = d
    <3>1. /\ IsFiniteSet(1..d)
          /\ Cardinality(1..d) = IF 1 > d THEN 0 ELSE d - 1 + 1
      <4>1. 1 \in Int /\ d \in Int
        BY <2>1
      <4> QED
        BY ONLY <4>1, FS_Interval, Zenon
    <3> QED
      BY <2>1, <3>1
  <2>4. IsFiniteSet({n} \X (1..d)) /\ Cardinality({n} \X (1..d)) = 1 * d
    <3>1. /\ IsFiniteSet({n} \X (1..d))
          /\ Cardinality({n} \X (1..d)) = Cardinality({n}) * Cardinality(1..d)
      BY <2>2, <2>3, FS_Product, Zenon
    <3> QED
      BY <2>2, <2>3, <3>1, Zenon
  <2> QED
    BY <2>1, <2>4 DEF d
<1>7. Cardinality({}) = 0
  BY FS_EmptySet
<1> HIDE DEF old, more
<1>8. Cardinality(old \cup more) = Cardinality(old) + Cardinality(more) - Cardinality(old \cap more)
  BY <1>5, <1>6, FS_Union
<1>9. b[n].days \in Nat
  BY BoostRows
<1>10. Cardinality(old \cup more) = Cardinality(old) + b[n].days
  <2> DEFINE a == Cardinality(old)  d == b[n].days
  <2>1. Cardinality(old \cup more) = a + d - 0 /\ a \in Nat /\ d \in Nat
    BY <1>4, <1>5, <1>6, <1>7, <1>8, <1>9, Zenon
  <2> HIDE DEF a, d
  <2>2. a + d - 0 = a + d
    BY <2>1
  <2> QED
    BY <2>1, <2>2, Zenon DEF a, d
<1> QED
  BY <1>3, <1>10 DEF old

\* Nothing more is paid: boosts are asked for, charged and refused.
LEMMA NothingMorePaid ==
    ASSUME NEW b \in Seq(Boost), NEW c \in Seq(Boost), Len(b) <= Len(c),
           \A m \in 1..Len(b) : (c[m].status = "paid" <=> b[m].status = "paid") /\ c[m].days = b[m].days,
           \A m \in (Len(b) + 1)..Len(c) : c[m].status # "paid"
    PROVE  DaysIn(c, PaidOf(c)) = DaysIn(b, PaidOf(b))
<1>1. PaidOf(c) = PaidOf(b)
  BY DEF PaidOf
<1>2. \A m \in PaidOf(b) : c[m].days = b[m].days
  BY DEF PaidOf
<1>3. ASSUME NEW x
      PROVE  x \in DaysIn(c, PaidOf(c)) <=> x \in DaysIn(b, PaidOf(b))
  <2>1. x \in DaysIn(c, PaidOf(c)) <=> \E m \in PaidOf(c) : x \in {m} \X (1..c[m].days)
    BY DEF DaysIn
  <2>2. x \in DaysIn(b, PaidOf(b)) <=> \E m \in PaidOf(b) : x \in {m} \X (1..b[m].days)
    BY DEF DaysIn
  <2> QED
    BY <1>1, <1>2, <2>1, <2>2
<1> QED
  BY <1>3

\* A request keeps what it carries when more is paid and there are more boosts.
LEMMA CarriesOn ==
    ASSUME NEW c, NEW p \in BOOLEAN, NEW q \in BOOLEAN, NEW d \in Nat, NEW e \in Nat,
           NEW n \in Nat, NEW m \in Nat, Carries(c, p, d, n), p => q, d <= e, n <= m
    PROVE  Carries(c, q, e, m)
<1>1. c.op = "payout" /\ c.stage = "read" => c.row.featured <= e
  <2>1. c.row.featured \in Nat
    BY DEF Carries, Requests, Offer
  <2> QED
    BY <2>1 DEF Carries
<1>2. \A k : k \in 1..n => k \in 1..m
  OBVIOUS
<1> QED
  BY <1>1, <1>2 DEF Carries

LEMMA AllCarryOn ==
    ASSUME NEW r, NEW p \in BOOLEAN, NEW q \in BOOLEAN, NEW d \in Nat, NEW e \in Nat,
           NEW n \in Nat, NEW m \in Nat, Requested(r, p, d, n), p => q, d <= e, n <= m
    PROVE  Requested(r, q, e, m)
<1>1. \A id \in DOMAIN r : Carries(r[id], q, e, m)
  BY CarriesOn DEF Requested
<1> QED
  BY <1>1 DEF Requested

\* One request is changed.
LEMMA OneRequestChanges ==
    ASSUME NEW r, NEW s, NEW p, NEW d, NEW n, NEW id \in DOMAIN r, NEW c,
           Requested(r, p, d, n), s = [r EXCEPT ![id] = c], Carries(c, p, d, n)
    PROVE  Requested(s, p, d, n)
<1>1. DOMAIN s = DOMAIN r /\ s[id] = c /\ \A k \in DOMAIN r : k # id => s[k] = r[k]
  BY DEF Requested
<1>2. s = [k \in DOMAIN s |-> s[k]]
  BY <1>1
<1> QED
  BY <1>1, <1>2 DEF Requested

LEMMA OneRequestIsOver ==
    ASSUME NEW r, NEW p, NEW d, NEW n, NEW id, Requested(r, p, d, n)
    PROVE  Requested(Restrict(r, DOMAIN r \ {id}), p, d, n)
  BY DEF Requested, Restrict

\* What is answered, or dropped as nobody waits for it.
LEMMA Replied ==
    ASSUME NEW p, NEW d, NEW n, NEW id \in DOMAIN calls, NEW ok \in BOOLEAN,
           Requested(calls, p, d, n), Reply(id, ok), calls[id].op = "boost" => ~ok
    PROVE  Requested(calls', p, d, n)
<1> DEFINE c == [calls[id] EXCEPT !.stage = "answered", !.ok = ok]
<1>1. CASE calls[id].shown
  <2>1. Carries(calls[id], p, d, n)
    BY DEF Requested
  <2>2. /\ c.list = calls[id].list /\ c.op = calls[id].op /\ c.value = calls[id].value
        /\ c.stage = "answered" /\ c.ok = ok /\ c \in Requests(c.list)
    BY <2>1 DEF Carries, Requests
  <2>3. Carries(c, p, d, n)
    <3> HIDE DEF c
    <3> QED
      BY <2>1, <2>2 DEF Carries
  <2>4. calls' = [calls EXCEPT ![id] = c]
    BY <1>1 DEF Reply, Requested
  <2> HIDE DEF c
  <2> QED
    BY <2>3, <2>4, OneRequestChanges
<1>2. CASE ~calls[id].shown
  BY <1>2, OneRequestIsOver DEF Reply, Drop
<1> QED
  BY <1>1, <1>2

\* A request moves on to another stage, with what it was told.
LEMMA MovesOn ==
    ASSUME NEW p, NEW d, NEW n, NEW id \in DOMAIN calls, NEW c,
           Requested(calls, p, d, n), calls' = [calls EXCEPT ![id] = c],
           c \in Requests(c.list), c.op = calls[id].op, c.value = calls[id].value,
           c.op \notin {"boost"}, c.op = "price" /\ c.stage = "read" => c.value = 0 \/ p,
           c.op = "payout" /\ c.stage = "read" => c.row.featured <= d
    PROVE  Requested(calls', p, d, n)
<1>1. Carries(calls[id], p, d, n)
  BY DEF Requested
<1>2. Carries(c, p, d, n)
  BY <1>1 DEF Carries
<1> QED
  BY <1>2, OneRequestChanges

\* A screen that is left.
LEMMA NotShown ==
    ASSUME NEW p, NEW d, NEW n, Requested(calls, p, d, n)
    PROVE  Requested(Unshown, p, d, n)
<1> DEFINE c(id) == [calls[id] EXCEPT !.shown = FALSE]
<1>1. ASSUME NEW id \in DOMAIN calls
      PROVE  Carries(c(id), p, d, n)
  <2>1. Carries(calls[id], p, d, n)
    BY DEF Requested
  <2>2. /\ c(id).list = calls[id].list /\ c(id).op = calls[id].op /\ c(id).value = calls[id].value
        /\ c(id).stage = calls[id].stage /\ c(id).ok = calls[id].ok /\ c(id).row = calls[id].row
        /\ c(id) \in Requests(c(id).list)
    BY <2>1 DEF Carries, Requests
  <2> HIDE DEF c
  <2> QED
    BY <2>1, <2>2 DEF Carries
<1>2. Unshown = [id \in {k \in DOMAIN calls : calls[k].stage # "answered"} |-> c(id)]
  BY DEF Unshown
<1> HIDE DEF c
<1> QED
  BY <1>1, <1>2 DEF Requested

LEMMA OneMoreRequest ==
    ASSUME NEW p, NEW d, NEW n, NEW c, NEW id, Requested(calls, p, d, n), Carries(c, p, d, n),
           calls' = [k \in DOMAIN calls \cup {id} |-> IF k \in DOMAIN calls THEN calls[k] ELSE c]
    PROVE  Requested(calls', p, d, n)
<1>1. DOMAIN calls' = DOMAIN calls \cup {id}
      /\ \A k \in DOMAIN calls' : calls'[k] = IF k \in DOMAIN calls THEN calls[k] ELSE c
  OBVIOUS
<1>2. calls' = [k \in DOMAIN calls' |-> calls'[k]]
  OBVIOUS
<1> QED
  BY <1>1, <1>2 DEF Requested

LEMMA StudioNumbers ==
    ASSUME StudioInv
    PROVE  /\ PaidDays \in Nat /\ Len(boosts) \in Nat /\ offer.payout \in BOOLEAN /\ offer.featured \in Nat
           /\ IsFiniteSet(DOMAIN boosts)
<1>1. boosts \in Seq(Boost) /\ offer \in Offer
  BY DEF StudioInv
<1>2. Len(boosts) \in Int /\ 1 \in Int /\ DOMAIN boosts = 1..Len(boosts)
  BY <1>1
<1>3. IsFiniteSet(1..Len(boosts))
  BY <1>2, FS_Interval, Zenon
<1> QED
  BY <1>1, <1>2, <1>3, DaysAreCounted, DaysAreThose DEF Offer

\* Neither the offer nor a boost is touched.
LEMMA OfferAsItWas ==
    ASSUME StudioInv, UNCHANGED <<offer, boosts>>,
           Requested(calls', offer.payout, PaidDays, Len(boosts)), OnScreen(page', Len(boosts))
    PROVE  StudioInv'
<1>1. PaidDays' = PaidDays
  BY DEF PaidDays, DaysOf
<1> QED
  BY <1>1 DEF StudioInv, FeaturedIsPaidFor, PricedMeansPayable

\* The offer is written: nothing more is featured than is paid for.
LEMMA OfferIsWritten ==
    ASSUME StudioInv, boosts' = boosts, page' = page, offer' \in Offer,
           offer.payout => offer'.payout, offer'.featured <= PaidDays,
           offer'.price > 0 => offer'.payout,
           Requested(calls', offer.payout, PaidDays, Len(boosts))
    PROVE  StudioInv'
<1>1. PaidDays' = PaidDays
  BY DEF PaidDays, DaysOf
<1>2. offer'.payout \in BOOLEAN
  BY DEF Offer
<1>3. Requested(calls', offer'.payout, PaidDays, Len(boosts))
  BY <1>2, AllCarryOn, StudioNumbers
<1> QED
  BY <1>1, <1>3 DEF StudioInv, FeaturedIsPaidFor, PricedMeansPayable

\* What a request that is there carries.
LEMMA ItCarries ==
    ASSUME StudioInv, NEW id \in DOMAIN calls
    PROVE  Carries(calls[id], offer.payout, PaidDays, Len(boosts)) /\ calls[id] \in Requests(calls[id].list)
  BY DEF StudioInv, Requested, Carries

\* A request answered or dropped, nothing else touched.
LEMMA OnlyReplied ==
    ASSUME StudioInv, NEW id \in DOMAIN calls, NEW ok \in BOOLEAN, Reply(id, ok),
           calls[id].op = "boost" => ~ok, UNCHANGED <<offer, boosts, page>>
    PROVE  StudioInv'
<1>1. Requested(calls', offer.payout, PaidDays, Len(boosts))
  BY Replied DEF StudioInv
<1> QED
  BY <1>1, OfferAsItWas DEF StudioInv

LEMMA StudioStarts == ASSUME Init PROVE StudioInv
<1>1. offer \in Offer /\ offer.featured = 0 /\ (offer.price > 0 => offer.payout)
  <2>0. PICK payout \in BOOLEAN : \E price \in IF payout THEN {0, TopPrice} ELSE {0} :
           offer = [NoOffer EXCEPT !.payout = payout, !.price = price]
    BY DEF Init
  <2>1. PICK price \in IF payout THEN {0, TopPrice} ELSE {0} :
           offer = [NoOffer EXCEPT !.payout = payout, !.price = price]
    BY <2>0
  <2>2. price \in 0..TopPrice /\ (price > 0 => payout)
    BY <2>1, StudioAssumption
  <2>3. NoOffer \in Offer /\ NoOffer.featured = 0
    BY StudioAssumption DEF NoOffer, Offer
  <2>4. offer.price = price /\ offer.payout = payout /\ offer.featured = 0 /\ offer \in Offer
    BY <2>1, <2>2, <2>3 DEF Offer
  <2> QED
    BY <2>2, <2>4
<1>2. boosts = <<>> /\ calls = <<>>
  BY DEF Init
<1>3. boosts \in Seq(Boost) /\ Len(boosts) = 0
  BY <1>2
<1>4. Requested(calls, offer.payout, PaidDays, Len(boosts))
  BY <1>2 DEF Requested
<1>5. PaidDays \in Nat
  BY <1>3, DaysAreCounted, DaysAreThose
<1>6. OnScreen(page, Len(boosts))
  <2>1. PICK at \in {"overview", "videos", "selling", "lessons"} : page = Loaded(at)
    BY DEF Init
  <2>2. offer.price \in Nat /\ offer.payout \in BOOLEAN
    BY <1>1 DEF Offer
  <2> QED
    BY <2>1, <2>2 DEF OnScreen, Screens, Loaded, Tabs, Studio
<1> QED
  BY <1>1, <1>3, <1>4, <1>5, <1>6 DEF StudioInv, FeaturedIsPaidFor, PricedMeansPayable

LEMMA ReadOfferKeeps == ASSUME StudioInv, NEW id, ReadOffer(id) PROVE StudioInv'
<1>1. id \in DOMAIN calls /\ calls[id].op \in {"price", "sale"} /\ UNCHANGED <<offer, boosts, page>>
  BY DEF ReadOffer, At, kept, screen
<1> DEFINE c == [calls[id] EXCEPT !.stage = "read"]
<1>2. CASE Allowed(calls[id]) /\ calls' = [calls EXCEPT ![id].stage = "read"]
  <2>1. calls' = [calls EXCEPT ![id] = c]
    BY <1>1, <1>2 DEF StudioInv, Requested
  <2>2. c \in Requests(c.list) /\ c.op = calls[id].op /\ c.value = calls[id].value
    BY <1>1, ItCarries DEF Requests
  <2>3. c.op = "price" => c.value = 0 \/ offer.payout
    <3> HIDE DEF c
    <3> QED
      BY <1>2, <2>2 DEF Allowed
  <2> HIDE DEF c
  <2>4. Requested(calls', offer.payout, PaidDays, Len(boosts))
    BY <1>1, <2>1, <2>2, <2>3, MovesOn DEF StudioInv
  <2> QED
    BY <1>1, <2>4, OfferAsItWas DEF StudioInv
<1>3. CASE Reply(id, FALSE)
  BY <1>1, <1>3, OnlyReplied
<1> QED
  BY <1>2, <1>3 DEF ReadOffer

LEMMA WriteOfferKeeps == ASSUME StudioInv, NEW id, WriteOffer(id) PROVE StudioInv'
<1>1. /\ id \in DOMAIN calls /\ calls[id].op \in {"price", "sale"} /\ calls[id].stage = "read"
      /\ boosts' = boosts /\ page' = page /\ Reply(id, TRUE)
  BY DEF WriteOffer, At, screen
<1>2. /\ calls[id].value \in 0..TopPrice
      /\ calls[id].op = "price" => calls[id].value = 0 \/ offer.payout
  BY <1>1, ItCarries DEF Carries
<1>3. /\ offer' \in Offer /\ offer'.payout = offer.payout /\ offer'.featured = offer.featured
      /\ offer'.price > 0 => offer.payout
  <2>1. CASE calls[id].op = "price"
    <3>1. offer' = [offer EXCEPT !.price = calls[id].value]
      BY <2>1 DEF WriteOffer
    <3> QED
      BY <1>2, <2>1, <3>1 DEF StudioInv, Offer
  <2>2. CASE calls[id].op # "price"
    <3>1. offer' = [offer EXCEPT !.sale = calls[id].value]
      BY <2>2 DEF WriteOffer
    <3> QED
      BY <1>2, <3>1 DEF StudioInv, Offer, PricedMeansPayable
  <2> QED
    BY <2>1, <2>2
<1>4. Requested(calls', offer.payout, PaidDays, Len(boosts))
  BY <1>1, Replied DEF StudioInv
<1> QED
  BY <1>1, <1>3, <1>4, OfferIsWritten DEF StudioInv, FeaturedIsPaidFor

LEMMA ServePageKeeps == ASSUME StudioInv, NEW id, ServePage(id) PROVE StudioInv'
<1>1. /\ id \in DOMAIN calls /\ calls[id].op # "boost" /\ boosts' = boosts /\ page' = page
      /\ \E ok \in BOOLEAN : Reply(id, ok)
  BY DEF ServePage, At, screen
<1>2. /\ offer' \in Offer /\ offer'.payout = offer.payout /\ offer'.featured = offer.featured
      /\ offer'.price = offer.price
  BY DEF ServePage, StudioInv, Offer
<1>3. Requested(calls', offer.payout, PaidDays, Len(boosts))
  BY <1>1, Replied DEF StudioInv
<1> QED
  BY <1>1, <1>2, <1>3, OfferIsWritten DEF StudioInv, FeaturedIsPaidFor, PricedMeansPayable

LEMMA ReadPayoutKeeps == ASSUME StudioInv, NEW id, ReadPayout(id) PROVE StudioInv'
<1>1. id \in DOMAIN calls /\ calls[id].op = "payout" /\ UNCHANGED <<boosts, page>>
  BY DEF ReadPayout, At, screen
<1> DEFINE c == [calls[id] EXCEPT !.stage = "read", !.row = offer]
<1>2. CASE AskPaystack(id)
  <2>1. calls' = [calls EXCEPT ![id] = c] /\ offer' = offer
    BY <1>1, <1>2 DEF AskPaystack, StudioInv, Requested
  <2>2. c \in Requests(c.list) /\ c.op = calls[id].op /\ c.value = calls[id].value /\ c.row = offer
    BY <1>1, ItCarries DEF Requests, StudioInv
  <2> HIDE DEF c
  <2>3. Requested(calls', offer.payout, PaidDays, Len(boosts))
    BY <1>1, <2>1, <2>2, MovesOn DEF StudioInv, FeaturedIsPaidFor
  <2> QED
    BY <1>1, <2>1, <2>3, OfferAsItWas DEF StudioInv
<1>3. CASE Reply(id, FALSE) /\ UNCHANGED offer
  BY <1>1, <1>3, OnlyReplied
<1> QED
  BY <1>2, <1>3 DEF ReadPayout

LEMMA WritePayoutKeeps == ASSUME StudioInv, NEW id, WritePayout(id) PROVE StudioInv'
<1>1. /\ id \in DOMAIN calls /\ calls[id].op = "payout" /\ calls[id].stage = "read"
      /\ boosts' = boosts /\ page' = page
  BY DEF WritePayout, At, screen
<1>2. CASE offer' = [calls[id].row EXCEPT !.payout = TRUE] /\ Reply(id, TRUE)
  <2>1. calls[id].row \in Offer /\ calls[id].row.featured <= PaidDays
    BY <1>1, ItCarries DEF Carries, Requests
  <2>2. offer' \in Offer /\ offer'.payout /\ offer'.featured <= PaidDays
    BY <1>2, <2>1 DEF Offer
  <2>3. Requested(calls', offer.payout, PaidDays, Len(boosts))
    BY <1>1, <1>2, Replied DEF StudioInv
  <2> QED
    BY <1>1, <2>2, <2>3, OfferIsWritten
<1>3. CASE UNCHANGED offer /\ Reply(id, FALSE)
  BY <1>1, <1>3, OnlyReplied
<1> QED
  BY <1>2, <1>3 DEF WritePayout

\* What is shown stays right when there are more boosts.
LEMMA ShownStill ==
    ASSUME NEW p, NEW n \in Nat, NEW m \in Nat, n <= m, OnScreen(p, n)
    PROVE  OnScreen(p, m)
<1>1. \A k : k \in 1..n => k \in 1..m
  OBVIOUS
<1> QED
  BY <1>1 DEF OnScreen

LEMMA ServeBoostKeeps == ASSUME StudioInv, NEW id, ServeBoost(id) PROVE StudioInv'
<1>1. /\ id \in DOMAIN calls /\ calls[id].op = "boost" /\ calls[id].stage = "asked"
      /\ offer' = offer /\ page' = page
  BY DEF ServeBoost, At, screen
<1>2. CASE Reply(id, FALSE) /\ UNCHANGED boosts
  BY <1>1, <1>2, OnlyReplied
<1>3. ASSUME NEW opened \in BOOLEAN,
             boosts' = Append(boosts, [days |-> calls[id].value, told |-> FALSE,
                               status |-> IF opened THEN "pending" ELSE "failed",
                               charge |-> IF opened THEN "none" ELSE "refused"]),
             IF opened /\ calls[id].shown
             THEN calls' = [calls EXCEPT ![id].stage = "answered", ![id].ok = TRUE, ![id].value = Len(boosts) + 1]
             ELSE Reply(id, FALSE)
      PROVE  StudioInv'
  <2> DEFINE new == [days |-> calls[id].value, told |-> FALSE,
                     status |-> IF opened THEN "pending" ELSE "failed",
                     charge |-> IF opened THEN "none" ELSE "refused"]
             L == Len(boosts)
  <2>1. Carries(calls[id], offer.payout, PaidDays, L) /\ calls[id].value \in {1, 4}
    BY <1>1, ItCarries DEF Carries
  <2>2. new \in Boost /\ new.status # "paid"
    BY <2>1 DEF Boost
  <2>3. boosts \in Seq(Boost) /\ boosts' = Append(boosts, new)
    BY <1>3 DEF StudioInv
  <2> HIDE DEF new
  <2>4. /\ boosts' \in Seq(Boost) /\ Len(boosts') = L + 1 /\ boosts'[L + 1] = new
        /\ \A m \in 1..L : boosts'[m] = boosts[m]
    BY <2>2, <2>3
  <2>5. DaysIn(boosts', PaidOf(boosts')) = DaysIn(boosts, PaidOf(boosts))
    <3>1. Len(boosts) \in Nat /\ Len(boosts) <= Len(boosts') /\ (Len(boosts) + 1)..Len(boosts') = {L + 1}
      BY <2>3, <2>4
    <3> QED
      BY <2>2, <2>3, <2>4, <3>1, NothingMorePaid
  <2>6. PaidDays' = PaidDays
    BY <2>5, DaysAreThose
  <2>7. L \in Nat /\ L + 1 \in Nat /\ L <= L + 1 /\ L + 1 \in 1..(L + 1) /\ PaidDays \in Nat /\ PaidDays <= PaidDays
        /\ offer.payout \in BOOLEAN
    BY StudioNumbers
  <2> HIDE DEF L
  <2>8. Requested(calls, offer.payout, PaidDays, L + 1)
    BY <2>7, AllCarryOn DEF StudioInv, L
  <2>9. Requested(calls', offer.payout, PaidDays, L + 1)
    <3>1. CASE Reply(id, FALSE)
      BY <1>1, <2>8, <3>1, Replied
    <3>2. CASE calls' = [calls EXCEPT ![id].stage = "answered", ![id].ok = TRUE, ![id].value = Len(boosts) + 1]
      <4> DEFINE c == [calls[id] EXCEPT !.stage = "answered", !.ok = TRUE, !.value = L + 1]
      <4>1. calls' = [calls EXCEPT ![id] = c]
        BY <1>1, <3>2 DEF StudioInv, Requested, L
      <4>2. /\ c \in Requests(c.list) /\ c.op = calls[id].op /\ c.value = L + 1
            /\ c.stage = "answered" /\ c.ok
        BY <1>1, <2>7, ItCarries DEF Requests
      <4> HIDE DEF c
      <4>3. Carries(c, offer.payout, PaidDays, L + 1)
        BY <1>1, <2>7, <4>2 DEF Carries
      <4> QED
        BY <1>1, <2>8, <4>1, <4>3, OneRequestChanges
    <3> QED
      BY <1>3, <3>1, <3>2
  <2>10. OnScreen(page', L + 1)
    BY <1>1, <2>7, ShownStill DEF StudioInv, L
  <2> QED
    BY <1>1, <2>4, <2>6, <2>9, <2>10 DEF StudioInv, FeaturedIsPaidFor, PricedMeansPayable
<1> QED
  BY <1>2, <1>3 DEF ServeBoost

\* What becomes of the offer and the boosts when one is confirmed, or is not.
LEMMA BoostConfirmed ==
    ASSUME StudioInv, NEW n \in 1..Len(boosts), NEW charge, ConfirmBoost(n, charge)
    PROVE  /\ boosts' \in Seq(Boost) /\ Len(boosts') = Len(boosts)
           /\ offer' \in Offer /\ offer'.payout = offer.payout /\ offer'.price = offer.price
           /\ PaidDays' \in Nat /\ PaidDays <= PaidDays' /\ offer'.featured <= PaidDays'
<1>1. boosts \in Seq(Boost) /\ offer \in Offer /\ boosts[n] \in Boost /\ offer.featured <= PaidDays
      /\ PaidDays \in Nat /\ boosts[n].days \in Nat /\ offer.featured \in Nat /\ DOMAIN boosts = 1..Len(boosts)
  BY StudioNumbers, BoostRows DEF StudioInv, FeaturedIsPaidFor
<1>2. CASE UNCHANGED <<offer, boosts>>
  <2>1. PaidDays' = PaidDays
    BY <1>2 DEF PaidDays, DaysOf
  <2> QED
    BY <1>1, <1>2, <2>1
<1>3. CASE boosts[n].status # "paid" /\ charge = "success"
  <2> DEFINE new == [boosts[n] EXCEPT !.status = "paid"]
  <2>1. offer' = [offer EXCEPT !.featured = @ + boosts[n].days] /\ boosts' = [boosts EXCEPT ![n] = new]
    BY <1>1, <1>3 DEF ConfirmBoost
  <2>2. new \in Boost /\ new.status = "paid" /\ new.days = boosts[n].days
    BY <1>1 DEF Boost
  <2> HIDE DEF new
  <2>3. /\ boosts' \in Seq(Boost) /\ Len(boosts') = Len(boosts) /\ boosts'[n] = new
        /\ \A m \in 1..Len(boosts) : m # n => boosts'[m] = boosts[m]
    BY <1>1, <2>1, <2>2
  <2>4. PaidDays' = PaidDays + boosts[n].days
    BY <1>1, <1>3, <2>2, <2>3, OneMorePaid, DaysAreThose
  <2> DEFINE d == boosts[n].days  f == offer.featured  g == f + d
  <2>5. /\ offer' \in Offer /\ offer'.payout = offer.payout /\ offer'.price = offer.price
        /\ offer'.featured = g
    <3>1. g \in Nat /\ offer' = [offer EXCEPT !.featured = g]
      BY <1>1, <2>1 DEF Offer
    <3> HIDE DEF g
    <3> QED
      BY <1>1, <3>1 DEF Offer
  <2>6. g <= PaidDays + d /\ PaidDays <= PaidDays + d /\ PaidDays + d \in Nat
    <3>1. d \in Nat /\ f \in Nat /\ f <= PaidDays /\ PaidDays \in Nat
      BY <1>1
    <3> HIDE DEF d, f
    <3> QED
      BY <3>1
  <2> HIDE DEF g
  <2> QED
    BY <2>3, <2>4, <2>5, <2>6
<1>4. CASE boosts[n].status # "paid" /\ charge = "failed"
  <2> DEFINE new == [boosts[n] EXCEPT !.status = "failed"]
  <2>1. offer' = offer /\ boosts' = [boosts EXCEPT ![n] = new]
    BY <1>1, <1>4 DEF ConfirmBoost
  <2>2. new \in Boost /\ new.status # "paid" /\ new.days = boosts[n].days
    BY <1>1 DEF Boost
  <2> HIDE DEF new
  <2>3. /\ boosts' \in Seq(Boost) /\ Len(boosts') = Len(boosts) /\ boosts'[n] = new
        /\ \A m \in 1..Len(boosts) : m # n => boosts'[m] = boosts[m]
    BY <1>1, <2>1, <2>2
  <2>4. DaysIn(boosts', PaidOf(boosts')) = DaysIn(boosts, PaidOf(boosts))
    <3>1. Len(boosts) <= Len(boosts') /\ (Len(boosts) + 1)..Len(boosts') = {}
      BY <1>1, <2>3
    <3> QED
      BY <1>1, <1>4, <2>2, <2>3, <3>1, NothingMorePaid
  <2>5. PaidDays' = PaidDays
    BY <2>4, DaysAreThose
  <2> QED
    BY <1>1, <2>1, <2>3, <2>5
<1> QED
  BY <1>2, <1>3, <1>4 DEF ConfirmBoost

\* A boost was confirmed or was not, and requests stay what they were.
LEMMA ConfirmedKeeps ==
    ASSUME StudioInv, NEW n \in 1..Len(boosts), NEW charge, ConfirmBoost(n, charge), page' = page,
           Requested(calls', offer.payout, PaidDays, Len(boosts))
    PROVE  StudioInv'
<1>1. /\ boosts' \in Seq(Boost) /\ Len(boosts') = Len(boosts)
      /\ offer' \in Offer /\ offer'.payout = offer.payout /\ offer'.price = offer.price
      /\ PaidDays' \in Nat /\ PaidDays <= PaidDays' /\ offer'.featured <= PaidDays'
  BY BoostConfirmed
<1>2. Len(boosts) \in Nat /\ Len(boosts) <= Len(boosts') /\ PaidDays \in Nat /\ offer.payout \in BOOLEAN
  BY <1>1, StudioNumbers
<1>3. Requested(calls', offer'.payout, PaidDays', Len(boosts'))
  BY <1>1, <1>2, AllCarryOn
<1>4. OnScreen(page', Len(boosts'))
  BY <1>1 DEF StudioInv
<1> QED
  BY <1>1, <1>3, <1>4 DEF StudioInv, FeaturedIsPaidFor, PricedMeansPayable

LEMMA ServeVerifyKeeps == ASSUME StudioInv, NEW id, ServeVerify(id) PROVE StudioInv'
<1>1. id \in DOMAIN calls /\ calls[id].op = "verify" /\ UNCHANGED <<offer, boosts, page>>
  BY DEF ServeVerify, At, kept, screen
<1> DEFINE n == calls[id].value
<1>2. n \in 1..Len(boosts) /\ boosts[n] \in Boost
  BY <1>1, ItCarries, BoostRows DEF Carries, StudioInv
<1>3. CASE calls' = [calls EXCEPT ![id].stage = boosts[n].charge]
  <2> DEFINE c == [calls[id] EXCEPT !.stage = boosts[n].charge]
  <2>1. calls' = [calls EXCEPT ![id] = c]
    BY <1>1, <1>3 DEF StudioInv, Requested
  <2>2. boosts[n].charge \in {"none", "success", "failed", "refused"}
    BY <1>2 DEF Boost
  <2>3. c \in Requests(c.list) /\ c.op = calls[id].op /\ c.value = calls[id].value
    BY <1>1, <2>2, ItCarries DEF Requests
  <2> HIDE DEF c
  <2>4. Requested(calls', offer.payout, PaidDays, Len(boosts))
    BY <1>1, <2>1, <2>3, MovesOn DEF StudioInv
  <2> QED
    BY <1>1, <2>4, OfferAsItWas DEF StudioInv
<1>4. CASE Reply(id, boosts[n].status = "paid")
  BY <1>1, <1>4, OnlyReplied
<1> QED
  BY <1>3, <1>4 DEF ServeVerify

LEMMA VerifiedKeeps == ASSUME StudioInv, NEW id, Verified(id) PROVE StudioInv'
<1> DEFINE n == calls[id].value
<1>1. /\ id \in DOMAIN calls /\ calls[id].op = "verify" /\ page' = page
      /\ ConfirmBoost(n, calls[id].stage) /\ Reply(id, boosts'[n].status = "paid")
  BY DEF Verified, screen
<1>2. n \in 1..Len(boosts)
  BY <1>1, ItCarries DEF Carries
<1>3. Requested(calls', offer.payout, PaidDays, Len(boosts))
  BY <1>1, Replied DEF StudioInv
<1> HIDE DEF n
<1> QED
  BY <1>1, <1>2, <1>3, ConfirmedKeeps

\* One boost's row changes, and not whether it is paid.
LEMMA SamePaid ==
    ASSUME StudioInv, NEW n \in 1..Len(boosts), NEW new \in Boost, new.days = boosts[n].days,
           new.status = boosts[n].status, boosts' = [boosts EXCEPT ![n] = new],
           UNCHANGED <<offer, calls, page>>
    PROVE  StudioInv'
<1>1. boosts \in Seq(Boost) /\ Len(boosts) \in Nat /\ DOMAIN boosts = 1..Len(boosts)
  BY BoostRows DEF StudioInv
<1>2. /\ boosts' \in Seq(Boost) /\ Len(boosts') = Len(boosts) /\ boosts'[n] = new
      /\ \A m \in 1..Len(boosts) : m # n => boosts'[m] = boosts[m]
  BY <1>1
<1>3. DaysIn(boosts', PaidOf(boosts')) = DaysIn(boosts, PaidOf(boosts))
  <2>1. Len(boosts) <= Len(boosts') /\ (Len(boosts) + 1)..Len(boosts') = {}
    BY <1>1, <1>2
  <2>2. \A m \in 1..Len(boosts) : (boosts'[m].status = "paid" <=> boosts[m].status = "paid")
                                  /\ boosts'[m].days = boosts[m].days
    BY <1>2
  <2> QED
    BY <1>1, <1>2, <2>1, <2>2, NothingMorePaid
<1>4. PaidDays' = PaidDays
  BY <1>3, DaysAreThose
<1> QED
  BY <1>2, <1>4 DEF StudioInv, FeaturedIsPaidFor, PricedMeansPayable

LEMMA WebhookKeeps == ASSUME StudioInv, NEW n, Webhook(n) PROVE StudioInv'
<1>1. n \in 1..Len(boosts) /\ UNCHANGED <<calls, page>>
  BY BoostRows DEF Webhook, screen, StudioInv
<1>2. CASE ConfirmBoost(n, "success")
  BY <1>1, <1>2, ConfirmedKeeps DEF StudioInv
<1>3. CASE boosts' = [boosts EXCEPT ![n].told = TRUE] /\ UNCHANGED offer
  <2> DEFINE new == [boosts[n] EXCEPT !.told = TRUE]
  <2>1. boosts[n] \in Boost /\ boosts' = [boosts EXCEPT ![n] = new]
    BY <1>1, <1>3, BoostRows DEF StudioInv
  <2>2. new \in Boost /\ new.days = boosts[n].days /\ new.status = boosts[n].status
    BY <2>1 DEF Boost
  <2> HIDE DEF new
  <2> QED
    BY <1>1, <1>3, <2>1, <2>2, SamePaid
<1> QED
  BY <1>2, <1>3 DEF Webhook

LEMMA PayKeeps == ASSUME StudioInv, NEW n, Pay(n) PROVE StudioInv'
<1>1. n \in 1..Len(boosts) /\ UNCHANGED <<calls, page, offer>>
  BY BoostRows DEF Pay, screen, StudioInv
<1>2. PICK charge \in {"success", "failed"} : boosts' = [boosts EXCEPT ![n].charge = charge]
  BY DEF Pay
<1> DEFINE new == [boosts[n] EXCEPT !.charge = charge]
<1>3. boosts[n] \in Boost /\ boosts' = [boosts EXCEPT ![n] = new]
  BY <1>1, <1>2, BoostRows DEF StudioInv
<1>4. new \in Boost /\ new.days = boosts[n].days /\ new.status = boosts[n].status
  BY <1>3 DEF Boost
<1> HIDE DEF new
<1> QED
  BY <1>1, <1>3, <1>4, SamePaid

LEMMA ReadLessonsKeeps == ASSUME StudioInv, NEW id, ReadLessons(id) PROVE StudioInv'
<1>1. id \in DOMAIN calls /\ calls[id].op = "order" /\ UNCHANGED <<offer, boosts, page>>
  BY DEF ReadLessons, At, kept, screen
<1>2. CASE Reply(id, FALSE)
  BY <1>1, <1>2, OnlyReplied
<1>3. CASE ~Reply(id, FALSE)
  <2> DEFINE list == calls[id].list \o SelectSeq(InOrder, LAMBDA l : l \notin Range(calls[id].list))
             c == [calls[id] EXCEPT !.stage = "read", !.list = list]
  <2>1. calls' = [calls EXCEPT ![id] = c]
    BY <1>1, <1>3 DEF StudioInv, Requested, ReadLessons
  <2> HIDE DEF list
  <2>2. c \in Requests(c.list) /\ c.op = calls[id].op /\ c.value = calls[id].value
    BY <1>1, ItCarries DEF Requests
  <2> HIDE DEF c
  <2>3. Requested(calls', offer.payout, PaidDays, Len(boosts))
    BY <1>1, <2>1, <2>2, MovesOn DEF StudioInv
  <2> QED
    BY <1>1, <2>3, OfferAsItWas DEF StudioInv
<1> QED
  BY <1>2, <1>3

LEMMA ServeOthersKeeps ==
    ASSUME StudioInv, NEW id, WriteLessons(id) \/ ServeRest(id)
    PROVE  StudioInv'
<1>1. /\ id \in DOMAIN calls /\ calls[id].op # "boost" /\ UNCHANGED <<offer, boosts, page>>
      /\ \E ok \in BOOLEAN : Reply(id, ok)
  BY DEF WriteLessons, ServeRest, At, Rest, screen
<1> QED
  BY <1>1, OnlyReplied

LEMMA LearnersKeep == ASSUME StudioInv, Upload \/ LearnerAsks \/ LearnerReviews PROVE StudioInv'
<1>1. UNCHANGED <<offer, boosts, calls, page>>
  BY DEF Upload, LearnerAsks, LearnerReviews, screen
<1> QED
  BY <1>1, OfferAsItWas DEF StudioInv

-----------------------------------------------------------------------------
(* The screens *)

LEMMA LoadedIsAScreen ==
    ASSUME StudioInv, NEW at \in Tabs \cup Studio
    PROVE  OnScreen(Loaded(at), Len(boosts))
<1>1. offer.price \in Nat /\ offer.payout \in BOOLEAN
  BY DEF StudioInv, Offer
<1> QED
  BY <1>1 DEF OnScreen, Screens, Loaded, Tabs, Studio

LEMMA AwayIsAScreen ==
    ASSUME StudioInv
    PROVE  OnScreen(Away, Len(boosts)) /\ Away.at = "away" /\ Away \in Screens(Away.list)
<1> DEFINE gone == Loaded("away")
<1>1. offer.price \in Nat /\ offer.payout \in BOOLEAN
  BY DEF StudioInv, Offer
<1>2. gone \in Screens(gone.list) /\ gone.at = "away"
  BY <1>1 DEF Screens, Loaded
<1>3. Away = [gone EXCEPT !.list = <<>>, !.payable = FALSE, !.price = 0, !.answering = FALSE]
  BY DEF Away
<1> HIDE DEF gone
<1>4. Away \in Screens(Away.list) /\ Away.at = "away"
  BY <1>2, <1>3 DEF Screens
<1> QED
  BY <1>4 DEF OnScreen

\* A request is sent.
LEMMA AskKeeps ==
    ASSUME StudioInv, NEW c, Carries(c, offer.payout, PaidDays, Len(boosts)), Ask(c)
    PROVE  StudioInv'
<1>1. UNCHANGED <<offer, boosts, page>>
  BY DEF Ask, kept, screen
<1>2. calls' = [k \in DOMAIN calls \cup {Free} |-> IF k \in DOMAIN calls THEN calls[k] ELSE c]
  BY DEF Ask
<1>3. Requested(calls', offer.payout, PaidDays, Len(boosts))
  <2> DEFINE id == Free
  <2> HIDE DEF id
  <2> QED
    BY <1>2, OneMoreRequest DEF StudioInv, id
<1> QED
  BY <1>1, <1>3, OfferAsItWas DEF StudioInv

LEMMA CallCarries ==
    ASSUME StudioInv,
           NEW op \in {"price", "sale", "page", "tools", "payout", "boost", "verify", "order"} \cup Rest,
           NEW value \in Nat,
           op \in {"price", "sale"} => value \in 0..TopPrice,
           op = "boost" => value \in {1, 4},
           op = "verify" => value \in 1..Len(boosts)
    PROVE  /\ Carries(Call(op, value), offer.payout, PaidDays, Len(boosts))
           /\ Call(op, value) \in Requests(<<>>) /\ Call(op, value).op = op
<1>1. NoOffer \in Offer
  BY StudioAssumption DEF NoOffer, Offer
<1> DEFINE c == Call(op, value)
<1>2. /\ c.op = op /\ c.value = value /\ c.stage = "asked" /\ c.list = <<>>
      /\ c \in Requests(<<>>)
  BY <1>1 DEF Call, Requests
<1> HIDE DEF c
<1>3. Carries(c, offer.payout, PaidDays, Len(boosts))
  BY <1>2 DEF Carries
<1> QED
  BY <1>2, <1>3 DEF c

\* A form that sends a request of its own, with nothing to look out for.
Plain == {"page", "tools", "payout", "order"} \cup Rest

LEMMA PlainFormKeeps ==
    ASSUME StudioInv, NEW op \in Plain, NEW value \in 0..1, Ask(Call(op, value))
    PROVE  StudioInv'
<1>1. op \notin {"price", "sale", "boost", "verify"}
      /\ op \in {"price", "sale", "page", "tools", "payout", "boost", "verify", "order"} \cup Rest
  BY DEF Plain, Rest
<1> QED
  BY <1>1, CallCarries, AskKeeps

LEMMA DashboardFormsKeep ==
    ASSUME StudioInv, MarkReplied \/ ConfirmStillCurrent \/ AddEmail \/ ProveEmail \/ SavePayout
    PROVE  StudioInv'
<1>1. \E op \in {"replied", "current", "email", "prove", "payout"}, value \in 0..1 : Ask(Call(op, value))
  BY DEF MarkReplied, ConfirmStillCurrent, AddEmail, ProveEmail, SavePayout
<1> QED
  BY <1>1, PlainFormKeeps DEF Plain, Rest

LEMMA SavePriceKeeps == ASSUME StudioInv, SavePrice PROVE StudioInv'
<1>1. PICK p \in 0..TopPrice : Ask(Call("price", p))
  BY DEF SavePrice
<1> QED
  BY <1>1, CallCarries, AskKeeps

LEMMA SaveSaleKeeps == ASSUME StudioInv, SaveSale PROVE StudioInv'
<1>1. PICK s \in 0..TopPrice : Ask(Call("sale", s))
  BY DEF SaveSale
<1> QED
  BY <1>1, CallCarries, AskKeeps

LEMMA BuyBoostKeeps == ASSUME StudioInv, BuyBoost PROVE StudioInv'
<1>1. PICK days \in {1, 4} : Ask(Call("boost", days))
  BY DEF BuyBoost
<1> QED
  BY <1>1, CallCarries, AskKeeps

LEMMA StudioFormsKeep ==
    ASSUME StudioInv, \/ SavePage \/ SaveTools \/ CreateCode \/ SetCode \/ DeleteCode
                      \/ SaveText \/ SendCaptions \/ AnswerQuestion \/ ReplyToReview
    PROVE  StudioInv'
<1>1. /\ SavePage => Ask(Call("page", 1))
      /\ SaveTools => Ask(Call("tools", 1))
      /\ CreateCode => Ask(Call("code", 1))
      /\ DeleteCode => Ask(Call("code gone", 1))
      /\ SaveText => Ask(Call("text", 1))
      /\ AnswerQuestion => Ask(Call("answer", 1))
      /\ ReplyToReview => Ask(Call("reply", 1))
  BY DEF SavePage, SaveTools, CreateCode, DeleteCode, SaveText, AnswerQuestion, ReplyToReview
<1>2. /\ SetCode => \E v \in 0..1 : Ask(Call("code on", v))
      /\ SendCaptions => \E v \in 0..1 : Ask(Call("captions", v))
  BY DEF SetCode, SendCaptions
<1>3. /\ {"page", "tools", "code", "code gone", "text", "answer", "reply", "code on", "captions"} \subseteq Plain
      /\ 1 \in 0..1
  BY DEF Plain, Rest
<1>4. \A op \in Plain, v \in 0..1 : Ask(Call(op, v)) => StudioInv'
  BY PlainFormKeeps
<1> QED
  BY <1>1, <1>2, <1>3, <1>4

LEMMA SaveOrderKeeps == ASSUME StudioInv, SaveOrder PROVE StudioInv'
<1> DEFINE call == Call("order", 1)
           c == [call EXCEPT !.list = page.list]
<1>1. call \in Requests(<<>>) /\ call.op = "order"
  BY CallCarries DEF Rest
<1>2. Ask(c)
  BY DEF SaveOrder
<1> HIDE DEF call
<1>3. c \in Requests(c.list) /\ c.op = "order"
  BY <1>1 DEF Requests
<1> HIDE DEF c
<1>4. Carries(c, offer.payout, PaidDays, Len(boosts))
  BY <1>3 DEF Carries
<1> QED
  BY <1>2, <1>4, AskKeeps

\* Another screen is opened, and what the last one waited for is not shown.
LEMMA OpenKeeps == ASSUME StudioInv, NEW at \in Tabs \cup Studio, Open(at) PROVE StudioInv'
<1>1. page' = Loaded(at) /\ calls' = Unshown /\ UNCHANGED <<offer, boosts>>
  BY DEF Open, kept
<1>2. Requested(calls', offer.payout, PaidDays, Len(boosts))
  BY <1>1, NotShown DEF StudioInv
<1> QED
  BY <1>1, <1>2, LoadedIsAScreen, OfferAsItWas

LEMMA LeaveKeeps == ASSUME StudioInv, SignOut \/ EditListing PROVE StudioInv'
<1>1. page' = Away /\ calls' = Unshown /\ UNCHANGED <<offer, boosts>>
  BY DEF SignOut, EditListing, kept
<1>2. Requested(calls', offer.payout, PaidDays, Len(boosts))
  BY <1>1, NotShown DEF StudioInv
<1> QED
  BY <1>1, <1>2, AwayIsAScreen, OfferAsItWas

LEMMA SignInKeeps == ASSUME StudioInv, SignIn PROVE StudioInv'
<1>1. page' = Loaded("overview") /\ UNCHANGED <<offer, boosts, calls>>
  BY DEF SignIn, kept
<1> QED
  BY <1>1, LoadedIsAScreen, OfferAsItWas DEF StudioInv, Tabs

LEMMA ReturnKeeps == ASSUME StudioInv, Return PROVE StudioInv'
<1> DEFINE c == Call("verify", page.boost)
           id == Free
<1>1. /\ page' = Loaded("selling") /\ UNCHANGED <<offer, boosts>> /\ page.at = "paystack"
      /\ calls' = [k \in DOMAIN calls \cup {id} |-> IF k \in DOMAIN calls THEN calls[k] ELSE c]
  BY DEF Return, kept
<1>2. page.boost \in 1..Len(boosts) /\ page.boost \in Nat
  <2>1. page.boost \in 1..Len(boosts)
    BY <1>1 DEF StudioInv, OnScreen
  <2> QED
    BY <2>1
<1>3. Carries(c, offer.payout, PaidDays, Len(boosts))
  BY <1>2, CallCarries
<1> HIDE DEF c, id
<1>4. Requested(calls', offer.payout, PaidDays, Len(boosts))
  BY <1>1, <1>3, OneMoreRequest DEF StudioInv
<1> QED
  BY <1>1, <1>4, LoadedIsAScreen, OfferAsItWas DEF Studio

LEMMA LessonsMove == ASSUME StudioInv, Move \/ SetSection PROVE StudioInv'
<1>1. UNCHANGED <<offer, boosts, calls>>
  BY DEF Move, SetSection, kept
<1>2. page \in Screens(page.list)
  BY DEF StudioInv, OnScreen
<1>3. \E list : page' = [page EXCEPT !.list = list, !.dirty = TRUE]
  <2>1. CASE Move
    BY <2>1 DEF Move
  <2>2. CASE SetSection
    <3>1. page' = [page EXCEPT !.dirty = TRUE]
      BY <2>2 DEF SetSection
    <3>2. page' = [page EXCEPT !.list = page.list, !.dirty = TRUE]
      BY <1>2, <3>1 DEF Screens
    <3> QED
      BY <3>2
  <2> QED
    BY <2>1, <2>2
<1>4. PICK list : page' = [page EXCEPT !.list = list, !.dirty = TRUE]
  BY <1>3
<1>5. page' \in Screens(page'.list) /\ page'.at = page.at /\ page'.boost = page.boost
  BY <1>2, <1>4 DEF Screens
<1> QED
  BY <1>1, <1>5, OfferAsItWas DEF StudioInv, OnScreen

LEMMA AnsweredKeeps == ASSUME StudioInv, NEW id, Answered(id) PROVE StudioInv'
<1> DEFINE call == calls[id]
<1>1. id \in DOMAIN calls /\ call.stage = "answered" /\ UNCHANGED <<offer, boosts>>
  BY DEF Answered, kept
<1>2. Carries(call, offer.payout, PaidDays, Len(boosts)) /\ call.value \in Nat /\ call.ok \in BOOLEAN
  BY <1>1, ItCarries DEF Requests
<1>3. CASE call.op = "boost" /\ call.ok
  <2>1. page' = [Away EXCEPT !.at = "paystack", !.boost = call.value]
        /\ calls' = [n \in DOMAIN Unshown \ {id} |-> Unshown[n]]
    BY <1>3 DEF Answered
  <2>2. call.value \in 1..Len(boosts)
    BY <1>1, <1>2, <1>3 DEF Carries
  <2>3. OnScreen(page', Len(boosts))
    <3> DEFINE gone == Away
    <3>1. gone \in Screens(gone.list)
      BY AwayIsAScreen
    <3> HIDE DEF gone
    <3>2. page' = [gone EXCEPT !.at = "paystack", !.boost = call.value]
      BY <2>1 DEF gone
    <3>3. page' \in Screens(page'.list) /\ page'.boost = call.value
      BY <1>2, <3>1, <3>2 DEF Screens
    <3> QED
      BY <2>2, <3>3 DEF OnScreen
  <2>4. Requested(calls', offer.payout, PaidDays, Len(boosts))
    <3>1. Requested(Unshown, offer.payout, PaidDays, Len(boosts))
      BY NotShown DEF StudioInv
    <3> DEFINE r == Unshown
    <3> HIDE DEF r
    <3>2. calls' = [n \in DOMAIN r \ {id} |-> r[n]] /\ Requested(r, offer.payout, PaidDays, Len(boosts))
      BY <2>1, <3>1 DEF r
    <3> QED
      BY <3>2 DEF Requested
  <2> QED
    BY <1>1, <2>3, <2>4, OfferAsItWas
<1>4. CASE ~(call.op = "boost" /\ call.ok)
  <2>1. /\ page' = CASE ~call.ok -> page
                     [] call.ok /\ call.op = "payout" -> [page EXCEPT !.payable = TRUE]
                     [] call.ok /\ call.op = "price" -> [page EXCEPT !.price = call.value]
                     [] call.ok /\ call.op = "order" -> [page EXCEPT !.list = InOrder, !.dirty = FALSE]
                     [] call.ok /\ call.op = "answer" -> [page EXCEPT !.answering = FALSE]
                     [] OTHER -> page
        /\ calls' = Drop(id)
    BY <1>4 DEF Answered
  <2>2. Requested(calls', offer.payout, PaidDays, Len(boosts))
    BY <2>1, OneRequestIsOver DEF StudioInv, Drop
  <2>3. page \in Screens(page.list) /\ (page.at = "paystack" => page.boost \in 1..Len(boosts))
    BY DEF StudioInv, OnScreen
  <2>4. \/ page' = page \/ page' = [page EXCEPT !.payable = TRUE] \/ page' = [page EXCEPT !.price = call.value]
        \/ page' = [page EXCEPT !.list = InOrder, !.dirty = FALSE] \/ page' = [page EXCEPT !.answering = FALSE]
    BY <2>1, <1>2
  <2>5. \A v, list : v \in Nat =>
           /\ [page EXCEPT !.payable = TRUE] \in Screens(page.list)
           /\ [page EXCEPT !.price = v] \in Screens(page.list)
           /\ [page EXCEPT !.list = list, !.dirty = FALSE] \in Screens(list)
           /\ [page EXCEPT !.answering = FALSE] \in Screens(page.list)
    BY <2>3 DEF Screens
  <2>6. (\E list : page' \in Screens(list)) /\ page'.at = page.at /\ page'.boost = page.boost
    <3>1. page'.at = page.at /\ page'.boost = page.boost
      BY <2>3, <2>4 DEF Screens
    <3>2. page' = [page EXCEPT !.list = InOrder, !.dirty = FALSE] => page' \in Screens(InOrder)
      BY <1>2, <2>5
    <3>3. page' # [page EXCEPT !.list = InOrder, !.dirty = FALSE] => page' \in Screens(page.list)
      BY <1>2, <2>3, <2>4, <2>5
    <3> QED
      BY <3>1, <3>2, <3>3
  <2>7. page' \in Screens(page'.list)
    BY <2>6 DEF Screens
  <2> QED
    BY <1>1, <2>2, <2>3, <2>6, <2>7, OfferAsItWas DEF OnScreen
<1> QED
  BY <1>3, <1>4

LEMMA StudioSteps == ASSUME StudioInv, [Next]_vars PROVE StudioInv'
<1>1. ASSUME NEW id \in 1..MaxCalls, Serve(id)
      PROVE  StudioInv'
  BY <1>1, ReadOfferKeeps, WriteOfferKeeps, ServePageKeeps, ReadPayoutKeeps, WritePayoutKeeps,
     ServeBoostKeeps, ServeVerifyKeeps, VerifiedKeeps, ReadLessonsKeeps, ServeOthersKeeps DEF Serve
<1>2. ASSUME NEW id \in 1..MaxCalls, Answered(id)
      PROVE  StudioInv'
  BY <1>2, AnsweredKeeps
<1>3. ASSUME NEW n \in 1..MaxBoosts, Webhook(n) \/ Pay(n)
      PROVE  StudioInv'
  BY <1>3, WebhookKeeps, PayKeeps
<1>4. CASE Dashboard
  <2>1. CASE OpenTab
    BY <2>1, OpenKeeps DEF OpenTab
  <2>2. CASE SignOut \/ SignIn \/ EditListing
    BY <2>2, LeaveKeeps, SignInKeeps
  <2>3. CASE MarkReplied \/ ConfirmStillCurrent \/ AddEmail \/ ProveEmail \/ SavePayout
    BY <2>3, DashboardFormsKeep
  <2>4. CASE SavePrice
    BY <2>4, SavePriceKeeps
  <2> QED
    BY <1>4, <2>1, <2>2, <2>3, <2>4 DEF Dashboard
<1>5. CASE InTheStudio
  <2>1. CASE OpenStudio \/ GoAnswer
    BY <2>1, OpenKeeps DEF OpenStudio, GoAnswer, Studio
  <2>2. CASE Return \/ Move \/ SetSection
    BY <2>2, ReturnKeeps, LessonsMove
  <2>3. CASE \/ SavePage \/ SaveTools \/ CreateCode \/ SetCode \/ DeleteCode
             \/ SaveText \/ SendCaptions \/ AnswerQuestion \/ ReplyToReview
    BY <2>3, StudioFormsKeep
  <2>4. CASE SaveSale \/ BuyBoost \/ SaveOrder
    BY <2>4, SaveSaleKeeps, BuyBoostKeeps, SaveOrderKeeps
  <2> QED
    BY <1>5, <2>1, <2>2, <2>3, <2>4 DEF InTheStudio
<1>6. CASE Upload \/ LearnerAsks \/ LearnerReviews
  BY <1>6, LearnersKeep
<1>7. CASE UNCHANGED vars
  BY <1>7, OfferAsItWas DEF vars, kept, screen, StudioInv
<1> QED
  BY <1>1, <1>2, <1>3, <1>4, <1>5, <1>6, <1>7 DEF Next

\* The inductive invariant of the course studio holds throughout.
THEOREM StudioInvariance == Spec => []StudioInv
  BY StudioStarts, StudioSteps, PTL DEF Spec

\* No course is featured for longer than was paid for (confirm_boost), however
\* many boosts there are, however often each is told of, and whatever row the
\* payout form writes back.
THEOREM FeaturedPaid == Spec => []FeaturedIsPaidFor
<1>1. StudioInv => FeaturedIsPaidFor
  BY DEF StudioInv
<1> QED
  BY <1>1, StudioInvariance, PTL

\* A course with a price has somewhere for its money to go (TrainerCourseSales),
\* whatever the forms that write the offer's row were doing at the time.
THEOREM PricedPayable == Spec => []PricedMeansPayable
<1>1. StudioInv => PricedMeansPayable
  BY DEF StudioInv
<1> QED
  BY <1>1, StudioInvariance, PTL
=============================================================================

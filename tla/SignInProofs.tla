---------------------------- MODULE SignInProofs ----------------------------
(***************************************************************************)
(* What holds of the one-time codes and of the wizard a code opens.        *)
(* OneTimeCodes: for any number of requests, numbers and codes and any     *)
(* limits.  TrainerJoin: for any number of texts, files, codes sent,       *)
(* reloads and lost answers.                                               *)
(***************************************************************************)
EXTENDS OneTimeCodes, TrainerJoin, FiniteSetTheorems, TLAPS

-----------------------------------------------------------------------------
(* OneTimeCodes: the inductive invariant.                                  *)

\* A row's own counter says how often it was compared, and verified_at
\* whether it has given a session.
RowsTell ==
    \A c \in Codes :
        /\ compared[c] = IF c \in Issued THEN code[c].attempts ELSE 0
        /\ sessions[c] = IF c \in Issued /\ code[c].verified THEN 1 ELSE 0

\* A request that found a row goes on with a row for its number and purpose.
FoundTheirs ==
    \A s \in Slots :
        req[s].at \in {"attempt", "consume"} =>
            /\ req[s].of \in Issued
            /\ code[req[s].of].phone = req[s].phone
            /\ code[req[s].of].purpose = req[s].purpose

\* Requests that have passed a cap and have yet to make their row.
ComingFor(phone) ==
    {s \in Slots : req[s].at \in {"countIp", "create"} /\ req[s].phone = phone}
ComingFrom(ip) == {s \in Slots : req[s].at = "create" /\ req[s].ip = ip}

\* What has been made and what is coming never pass the cap by more than the
\* requests there can be, less one.
PhoneRoom ==
    \A phone \in Phones :
        Cardinality(TodayFor(phone)) + Cardinality(ComingFor(phone)) + 1
            <= MaxPerPhone + Cardinality(Slots)
IpRoom ==
    \A ip \in Connections :
        Cardinality(TodayFrom(ip)) + Cardinality(ComingFrom(ip)) + 1
            <= MaxPerIp + Cardinality(Slots)

IInv == TypeOK /\ RowsTell /\ FoundTheirs /\ PhoneRoom /\ IpRoom

-----------------------------------------------------------------------------
(* Facts about the rows and the requests.                                  *)

\* The rows are numbered from one, and there are finitely many.
LEMMA RowNumbers ==
    ASSUME TypeOK
    PROVE  /\ Issued = 1..Len(code) /\ Len(code) \in Nat
           /\ Issued \subseteq Codes
           /\ IsFiniteSet(Issued)
           /\ \A c \in Issued : code[c] \in Row
<1>1. Issued = 1..Len(code) /\ Len(code) \in Nat /\ \A c \in Issued : code[c] \in Row
    BY DEF TypeOK, Issued
<1>2. Issued \subseteq Codes
    BY <1>1, CodesAssumption DEF TypeOK, Codes
<1>3. IsFiniteSet(Issued)
    BY <1>1, FS_Interval
<1>. QED BY <1>1, <1>2, <1>3

\* What a cap counts, and what is still coming, are finite.
LEMMA Counts ==
    ASSUME TypeOK, NEW x
    PROVE  /\ Cardinality(TodayFor(x)) \in Nat /\ IsFiniteSet(TodayFor(x))
           /\ Cardinality(TodayFrom(x)) \in Nat /\ IsFiniteSet(TodayFrom(x))
           /\ Cardinality(ComingFor(x)) \in Nat /\ IsFiniteSet(ComingFor(x))
           /\ Cardinality(ComingFrom(x)) \in Nat /\ IsFiniteSet(ComingFrom(x))
           /\ Cardinality(Slots) \in Nat
           /\ Cardinality(ComingFor(x)) <= Cardinality(Slots)
           /\ Cardinality(ComingFrom(x)) <= Cardinality(Slots)
<1>1. IsFiniteSet(Issued)
    BY RowNumbers
<1>2. TodayFor(x) \subseteq Issued /\ TodayFrom(x) \subseteq Issued
    BY DEF TodayFor, TodayFrom, Today
<1>3. ComingFor(x) \subseteq Slots /\ ComingFrom(x) \subseteq Slots
    BY DEF ComingFor, ComingFrom
<1>4. IsFiniteSet(Slots)
    BY CodesAssumption
<1>. QED BY <1>1, <1>2, <1>3, <1>4, FS_Subset, FS_CardinalityType

\* Going on to another step changes nothing else of a request, nor any other.
LEMMA GoesOn ==
    ASSUME TypeOK, NEW s \in Slots, req[s] \in Request, NEW goal \in Steps, Goto(s, goal)
    PROVE  /\ req' \in [Slots -> Request \cup {Idle}]
           /\ req'[s].at = goal
           /\ req'[s].phone = req[s].phone /\ req'[s].ip = req[s].ip
           /\ req'[s].purpose = req[s].purpose /\ req'[s].of = req[s].of
           /\ \A t \in Slots : t # s => req'[t] = req[t]
<1>. DEFINE r == [req[s] EXCEPT !.at = goal]
<1>1. /\ r \in Request /\ r.at = goal
      /\ r.phone = req[s].phone /\ r.ip = req[s].ip
      /\ r.purpose = req[s].purpose /\ r.of = req[s].of
    BY DEF Request
<1>2. req' = [req EXCEPT ![s] = r]
    BY DEF Goto
<1>3. req'[s] = r
    BY <1>2 DEF TypeOK
<1>. HIDE DEF r
<1>. QED BY <1>1, <1>2, <1>3 DEF TypeOK

\* A request that ends is idle, and the others are as they were.
LEMMA Ends ==
    ASSUME TypeOK, NEW s \in Slots, Done(s)
    PROVE  /\ req' \in [Slots -> Request \cup {Idle}]
           /\ req'[s].at = "idle"
           /\ \A t \in Slots : t # s => req'[t] = req[t]
BY DEF TypeOK, Done, Idle

\* A step that makes no row, changes no row's number, connection or age, and
\* sends no request on to the create step leaves both caps' room.
LEMMA RoomIsKept ==
    ASSUME TypeOK, PhoneRoom, IpRoom, TypeOK',
           \A x : /\ TodayFor(x)' \subseteq TodayFor(x)
                  /\ TodayFrom(x)' \subseteq TodayFrom(x)
                  /\ ComingFor(x)' \subseteq ComingFor(x)
                  /\ ComingFrom(x)' \subseteq ComingFrom(x)
    PROVE  PhoneRoom' /\ IpRoom'
<1>1. ASSUME NEW x
      PROVE  /\ Cardinality(TodayFor(x)') <= Cardinality(TodayFor(x))
             /\ Cardinality(TodayFrom(x)') <= Cardinality(TodayFrom(x))
             /\ Cardinality(ComingFor(x)') <= Cardinality(ComingFor(x))
             /\ Cardinality(ComingFrom(x)') <= Cardinality(ComingFrom(x))
    BY Counts, FS_Subset
<1>2. ASSUME NEW x
      PROVE  /\ Cardinality(TodayFor(x)') \in Nat /\ Cardinality(TodayFrom(x)') \in Nat
             /\ Cardinality(ComingFor(x)') \in Nat /\ Cardinality(ComingFrom(x)') \in Nat
    <2>1. /\ IsFiniteSet(TodayFor(x)') /\ IsFiniteSet(TodayFrom(x)')
          /\ IsFiniteSet(ComingFor(x)') /\ IsFiniteSet(ComingFrom(x)')
        BY Counts, FS_Subset
    <2>. QED BY <2>1, FS_CardinalityType
<1>3. PhoneRoom'
    <2>. SUFFICES ASSUME NEW phone \in Phones
                  PROVE  Cardinality(TodayFor(phone)') + Cardinality(ComingFor(phone)') + 1
                             <= MaxPerPhone + Cardinality(Slots)
        BY DEF PhoneRoom
    <2>1. Cardinality(TodayFor(phone)) + Cardinality(ComingFor(phone)) + 1
              <= MaxPerPhone + Cardinality(Slots)
        BY DEF PhoneRoom
    <2>. QED BY <1>1, <1>2, <2>1, Counts, CodesAssumption
<1>4. IpRoom'
    <2>. SUFFICES ASSUME NEW ip \in Connections
                  PROVE  Cardinality(TodayFrom(ip)') + Cardinality(ComingFrom(ip)') + 1
                             <= MaxPerIp + Cardinality(Slots)
        BY DEF IpRoom
    <2>1. Cardinality(TodayFrom(ip)) + Cardinality(ComingFrom(ip)) + 1
              <= MaxPerIp + Cardinality(Slots)
        BY DEF IpRoom
    <2>. QED BY <1>1, <1>2, <2>1, Counts, CodesAssumption
<1>. QED BY <1>3, <1>4

\* A request that begins comes under the cap, so with it the room is kept: one
\* fewer can have been under way.
LEMMA RoomToCount ==
    ASSUME IInv, TypeOK', NEW s \in Slots, NEW phone \in Phones,
           NEW ip \in Connections \cup {NoConnection}, NEW purpose \in Purposes,
           CountForPhone(s, phone, ip, purpose)
    PROVE  PhoneRoom' /\ IpRoom'
<1>. USE DEF IInv
<1>1. \A x : TodayFor(x)' = TodayFor(x) /\ TodayFrom(x)' = TodayFrom(x)
    BY DEF CountForPhone, TodayFor, TodayFrom, Today, Issued
<1>2. \A x : x # phone => ComingFor(x)' \subseteq ComingFor(x)
    BY DEF CountForPhone, ComingFor, TypeOK
<1>3. \A x : ComingFrom(x)' \subseteq ComingFrom(x)
    BY DEF CountForPhone, ComingFrom, TypeOK
<1>4. \A x : /\ Cardinality(ComingFor(x)') \in Nat /\ Cardinality(ComingFrom(x)') \in Nat
             /\ Cardinality(ComingFor(x)') <= Cardinality(Slots)
    <2>1. \A x : ComingFor(x)' \subseteq Slots /\ ComingFrom(x)' \subseteq Slots
        BY DEF ComingFor, ComingFrom
    <2>. QED BY <2>1, CodesAssumption, FS_Subset, FS_CardinalityType
<1>5. Cardinality(TodayFor(phone)) + 1 <= MaxPerPhone
    BY Counts, CodesAssumption DEF CountForPhone, UnderPhoneCap
<1>6. PhoneRoom'
    <2>. SUFFICES ASSUME NEW p \in Phones
                  PROVE  Cardinality(TodayFor(p)') + Cardinality(ComingFor(p)') + 1
                             <= MaxPerPhone + Cardinality(Slots)
        BY DEF PhoneRoom
    <2>1. CASE p = phone
        BY <2>1, <1>1, <1>4, <1>5, Counts, CodesAssumption
    <2>2. CASE p # phone
        <3>1. Cardinality(ComingFor(p)') <= Cardinality(ComingFor(p))
            BY <2>2, <1>2, Counts, FS_Subset
        <3>2. Cardinality(TodayFor(p)) + Cardinality(ComingFor(p)) + 1
                  <= MaxPerPhone + Cardinality(Slots)
            BY DEF PhoneRoom
        <3>. QED BY <3>1, <3>2, <1>1, <1>4, Counts, CodesAssumption
    <2>. QED BY <2>1, <2>2
<1>7. IpRoom'
    <2>. SUFFICES ASSUME NEW p \in Connections
                  PROVE  Cardinality(TodayFrom(p)') + Cardinality(ComingFrom(p)') + 1
                             <= MaxPerIp + Cardinality(Slots)
        BY DEF IpRoom
    <2>1. Cardinality(ComingFrom(p)') <= Cardinality(ComingFrom(p))
        BY <1>3, Counts, FS_Subset
    <2>2. Cardinality(TodayFrom(p)) + Cardinality(ComingFrom(p)) + 1
              <= MaxPerIp + Cardinality(Slots)
        BY DEF IpRoom
    <2>. QED BY <2>1, <2>2, <1>1, <1>4, Counts, CodesAssumption
<1>. QED BY <1>6, <1>7

\* The same of the second count.
LEMMA RoomToCreate ==
    ASSUME IInv, TypeOK', NEW s \in Slots, CountForIp(s)
    PROVE  PhoneRoom' /\ IpRoom'
<1>. USE DEF IInv
<1>. DEFINE from == req[s].ip
<1>1. \A x : TodayFor(x)' = TodayFor(x) /\ TodayFrom(x)' = TodayFrom(x)
    BY DEF CountForIp, TodayFor, TodayFrom, Today, Issued
<1>0. req[s] \in Request
    BY DEF CountForIp, At, TypeOK, Idle
<1>a. /\ \A t \in Slots : t # s => req'[t] = req[t]
      /\ \/ req'[s].at = "idle"
         \/ /\ req'[s].at = "create" /\ req'[s].ip = from
            /\ req'[s].phone = req[s].phone
    BY <1>0, GoesOn, Ends DEF CountForIp, Steps
<1>2. \A x : ComingFor(x)' \subseteq ComingFor(x)
    BY <1>a DEF CountForIp, ComingFor, At
<1>3. \A x : x # from => ComingFrom(x)' \subseteq ComingFrom(x)
    BY <1>a DEF ComingFrom
<1>4. \A x : /\ Cardinality(ComingFor(x)') \in Nat /\ Cardinality(ComingFrom(x)') \in Nat
             /\ Cardinality(ComingFrom(x)') <= Cardinality(Slots)
    <2>1. \A x : ComingFor(x)' \subseteq Slots /\ ComingFrom(x)' \subseteq Slots
        BY DEF ComingFor, ComingFrom
    <2>. QED BY <2>1, CodesAssumption, FS_Subset, FS_CardinalityType
<1>5. PhoneRoom'
    <2>. SUFFICES ASSUME NEW p \in Phones
                  PROVE  Cardinality(TodayFor(p)') + Cardinality(ComingFor(p)') + 1
                             <= MaxPerPhone + Cardinality(Slots)
        BY DEF PhoneRoom
    <2>1. Cardinality(ComingFor(p)') <= Cardinality(ComingFor(p))
        BY <1>2, Counts, FS_Subset
    <2>2. Cardinality(TodayFor(p)) + Cardinality(ComingFor(p)) + 1
              <= MaxPerPhone + Cardinality(Slots)
        BY DEF PhoneRoom
    <2>. QED BY <2>1, <2>2, <1>1, <1>4, Counts, CodesAssumption
<1>6. IpRoom'
    <2>. SUFFICES ASSUME NEW p \in Connections
                  PROVE  Cardinality(TodayFrom(p)') + Cardinality(ComingFrom(p)') + 1
                             <= MaxPerIp + Cardinality(Slots)
        BY DEF IpRoom
    <2>1. CASE p = from /\ UnderIpCap(from)
        <3>1. Cardinality(TodayFrom(p)) + 1 <= MaxPerIp
            BY <2>1, Counts, CodesAssumption DEF UnderIpCap
        <3>. QED BY <3>1, <1>1, <1>4, Counts, CodesAssumption
    <2>2. CASE ~(p = from /\ UnderIpCap(from))
        <3>1. ComingFrom(p)' \subseteq ComingFrom(p)
            <4>1. CASE p # from
                BY <4>1, <1>3
            <4>2. CASE p = from /\ ~UnderIpCap(from)
                <5>1. Done(s)
                    BY <4>2, CodesAssumption DEF CountForIp
                <5>. QED BY <5>1 DEF ComingFrom, TypeOK, Done, Idle
            <4>. QED BY <2>2, <4>1, <4>2
        <3>2. Cardinality(ComingFrom(p)') <= Cardinality(ComingFrom(p))
            BY <3>1, Counts, FS_Subset
        <3>3. Cardinality(TodayFrom(p)) + Cardinality(ComingFrom(p)) + 1
                  <= MaxPerIp + Cardinality(Slots)
            BY DEF IpRoom
        <3>. QED BY <3>2, <3>3, <1>1, <1>4, Counts, CodesAssumption
    <2>. QED BY <2>1, <2>2
<1>. QED BY <1>5, <1>6

\* Making the row turns one that was coming into one that is counted.
LEMMA RoomOfCreate ==
    ASSUME IInv, TypeOK', NEW s \in Slots, Create(s)
    PROVE  PhoneRoom' /\ IpRoom'
<1>. USE DEF IInv
<1>. DEFINE new == Len(code) + 1
            fresh == NewRow(req[s].phone, req[s].ip, req[s].purpose)
<1>1. req[s] \in Request
    BY DEF Create, At, TypeOK, Idle
<1>2. fresh \in Row /\ fresh.phone = req[s].phone /\ fresh.ip = req[s].ip
    BY <1>1, CodesAssumption DEF NewRow, Row, Request
<1>3. /\ Issued' = Issued \cup {new} /\ new \notin Issued
      /\ code'[new] = fresh /\ \A c \in Issued : code'[c] = code[c]
    <2>1. code' = Append(code, fresh)
        BY DEF Create
    <2>. HIDE DEF fresh
    <2>. QED BY <1>2, <2>1 DEF TypeOK, Issued
<1>4. req'[s].at = "idle" /\ \A t \in Slots : t # s => req'[t] = req[t]
    BY Ends DEF Create
<1>5. ASSUME NEW p \in Phones
      PROVE  Cardinality(TodayFor(p)') + Cardinality(ComingFor(p)')
                 = Cardinality(TodayFor(p)) + Cardinality(ComingFor(p))
    <2>1. CASE p = req[s].phone
        <3>1. TodayFor(p)' \subseteq TodayFor(p) \cup {new}
            BY <1>3 DEF TodayFor, Today
        <3>2. TodayFor(p) \cup {new} \subseteq TodayFor(p)'
            <4>1. fresh.age = "live"
                BY DEF NewRow
            <4>. QED BY <1>2, <1>3, <2>1, <4>1 DEF TodayFor, Today
        <3>3. new \notin TodayFor(p)
            BY <1>3 DEF TodayFor, Today
        <3>4. Cardinality(TodayFor(p)') = Cardinality(TodayFor(p)) + 1
            <4>1. TodayFor(p)' = TodayFor(p) \cup {new}
                BY <3>1, <3>2
            <4>. QED BY <4>1, <3>3, Counts, FS_AddElement
        <3>5. ComingFor(p)' = ComingFor(p) \ {s} /\ s \in ComingFor(p)
            BY <1>4, <2>1 DEF ComingFor, Create, At
        <3>6. Cardinality(ComingFor(p)') = Cardinality(ComingFor(p)) - 1
            BY <3>5, Counts, FS_RemoveElement
        <3>. QED BY <3>4, <3>6, Counts
    <2>2. CASE p # req[s].phone
        <3>1. TodayFor(p)' = TodayFor(p)
            BY <1>2, <1>3, <2>2 DEF TodayFor, Today
        <3>2. ComingFor(p)' = ComingFor(p)
            BY <1>4, <2>2 DEF ComingFor, Create, At
        <3>. QED BY <3>1, <3>2
    <2>. QED BY <2>1, <2>2
<1>6. ASSUME NEW p \in Connections
      PROVE  Cardinality(TodayFrom(p)') + Cardinality(ComingFrom(p)')
                 = Cardinality(TodayFrom(p)) + Cardinality(ComingFrom(p))
    <2>1. CASE p = req[s].ip
        <3>1. TodayFrom(p)' \subseteq TodayFrom(p) \cup {new}
            BY <1>3 DEF TodayFrom, Today
        <3>2. TodayFrom(p) \cup {new} \subseteq TodayFrom(p)'
            <4>1. fresh.age = "live"
                BY DEF NewRow
            <4>. QED BY <1>2, <1>3, <2>1, <4>1 DEF TodayFrom, Today
        <3>3. new \notin TodayFrom(p)
            BY <1>3 DEF TodayFrom, Today
        <3>4. Cardinality(TodayFrom(p)') = Cardinality(TodayFrom(p)) + 1
            <4>1. TodayFrom(p)' = TodayFrom(p) \cup {new}
                BY <3>1, <3>2
            <4>. QED BY <4>1, <3>3, Counts, FS_AddElement
        <3>5. ComingFrom(p)' = ComingFrom(p) \ {s} /\ s \in ComingFrom(p)
            BY <1>4, <2>1 DEF ComingFrom, Create, At
        <3>6. Cardinality(ComingFrom(p)') = Cardinality(ComingFrom(p)) - 1
            BY <3>5, Counts, FS_RemoveElement
        <3>. QED BY <3>4, <3>6, Counts
    <2>2. CASE p # req[s].ip
        <3>1. TodayFrom(p)' = TodayFrom(p)
            BY <1>2, <1>3, <2>2 DEF TodayFrom, Today
        <3>2. ComingFrom(p)' = ComingFrom(p)
            BY <1>4, <2>2 DEF ComingFrom, Create, At
        <3>. QED BY <3>1, <3>2
    <2>. QED BY <2>1, <2>2
<1>. QED BY <1>5, <1>6 DEF PhoneRoom, IpRoom

-----------------------------------------------------------------------------
(* Each step keeps the invariant.                                          *)

\* A row changed in its age, attempts or verified_at keeps its number, its
\* connection and its purpose.
LEMMA RowChanges ==
    ASSUME TypeOK, NEW c \in Issued, NEW r \in Row, code' = [code EXCEPT ![c] = r],
           r.phone = code[c].phone, r.ip = code[c].ip, r.purpose = code[c].purpose,
           r.age = "old" \/ r.age = code[c].age \/ code[c].age # "old"
    PROVE  /\ code' \in Seq(Row) /\ Len(code') = Len(code)
           /\ Issued' = Issued
           /\ code'[c] = r /\ \A d \in Issued : d # c => code'[d] = code[d]
           /\ \A d \in Issued : code'[d].phone = code[d].phone
                                /\ code'[d].purpose = code[d].purpose
           /\ \A x : TodayFor(x)' \subseteq TodayFor(x) /\ TodayFrom(x)' \subseteq TodayFrom(x)
<1>1. /\ code' \in Seq(Row) /\ Len(code') = Len(code) /\ Issued' = Issued
      /\ code'[c] = r /\ \A d \in Issued : d # c => code'[d] = code[d]
    BY DEF TypeOK, Issued
<1>2. \A d \in Issued : /\ code'[d].phone = code[d].phone /\ code'[d].ip = code[d].ip
                        /\ code'[d].purpose = code[d].purpose
    BY <1>1
<1>3. \A d \in Issued : code[d].age = "old" => code'[d].age = "old"
    BY <1>1
<1>4. Today' \subseteq Today
    BY <1>1, <1>3 DEF Today
<1>5. Today \subseteq Issued
    BY DEF Today
<1>. QED BY <1>1, <1>2, <1>4, <1>5 DEF TodayFor, TodayFrom

LEMMA BeginsOk ==
    ASSUME IInv, NEW s \in Slots, Begin(s)
    PROVE  IInv'
<1>. USE DEF IInv
<1>. PICK phone \in Phones, purpose \in Purposes :
        \/ \E ip \in Connections \cup {NoConnection} : CountForPhone(s, phone, ip, purpose)
        \/ \E named \in Codes \cup {NoCode} : VerifyRead(s, phone, purpose, named)
    BY DEF Begin
<1>1. CASE \E ip \in Connections \cup {NoConnection} : CountForPhone(s, phone, ip, purpose)
    <2>. PICK ip \in Connections \cup {NoConnection} : CountForPhone(s, phone, ip, purpose)
        BY <1>1
    <2>. DEFINE r == [at |-> "countIp", phone |-> phone, ip |-> ip,
                      purpose |-> purpose, of |-> NoCode]
    <2>1. r \in Request /\ r.at = "countIp"
        BY DEF Request, Steps
    <2>2. req' = [req EXCEPT ![s] = r] /\ UNCHANGED <<code, compared, sessions>>
        BY DEF CountForPhone
    <2>. HIDE DEF r
    <2>3. TypeOK'
        BY <2>1, <2>2 DEF TypeOK
    <2>4. RowsTell'
        BY <2>2 DEF RowsTell, Issued
    <2>5. FoundTheirs'
        BY <2>1, <2>2 DEF FoundTheirs, Issued, TypeOK
    <2>. QED BY <2>3, <2>4, <2>5, RoomToCount
<1>2. CASE \E named \in Codes \cup {NoCode} : VerifyRead(s, phone, purpose, named)
    <2>. PICK named \in Codes \cup {NoCode} : VerifyRead(s, phone, purpose, named)
        BY <1>2
    <2>. PICK c \in Candidates(phone, purpose) :
            req' = [req EXCEPT ![s] = [at |-> "attempt", phone |-> phone,
                                       ip |-> NoConnection, purpose |-> purpose, of |-> c]]
        BY DEF VerifyRead, Challenged
    <2>. DEFINE r == [at |-> "attempt", phone |-> phone,
                      ip |-> NoConnection, purpose |-> purpose, of |-> c]
    <2>1. c \in Issued /\ code[c].phone = phone /\ code[c].purpose = purpose
        BY DEF Candidates
    <2>2. /\ r \in Request /\ r.at = "attempt" /\ r.of = c
          /\ r.phone = phone /\ r.purpose = purpose
        BY <2>1, RowNumbers DEF Request, Steps
    <2>3. req' = [req EXCEPT ![s] = r] /\ UNCHANGED <<code, compared, sessions>>
        BY DEF VerifyRead
    <2>. HIDE DEF r
    <2>4. TypeOK'
        BY <2>2, <2>3 DEF TypeOK
    <2>5. RowsTell'
        BY <2>3 DEF RowsTell, Issued
    <2>6. FoundTheirs'
        BY <2>1, <2>2, <2>3 DEF FoundTheirs, Issued, TypeOK
    <2>7. \A x : /\ TodayFor(x)' \subseteq TodayFor(x) /\ TodayFrom(x)' \subseteq TodayFrom(x)
                 /\ ComingFor(x)' \subseteq ComingFor(x)
                 /\ ComingFrom(x)' \subseteq ComingFrom(x)
        BY <2>2, <2>3
           DEF TodayFor, TodayFrom, Today, Issued, ComingFor, ComingFrom, TypeOK
    <2>. QED BY <2>4, <2>5, <2>6, <2>7, RoomIsKept
<1>. QED BY <1>1, <1>2

LEMMA CountsOk ==
    ASSUME IInv, NEW s \in Slots, CountForIp(s)
    PROVE  IInv'
<1>. USE DEF IInv
<1>1. req[s] \in Request
    BY DEF CountForIp, At, TypeOK, Idle
<1>2. /\ req' \in [Slots -> Request \cup {Idle}]
      /\ req'[s].at \in {"create", "idle"}
      /\ \A t \in Slots : t # s => req'[t] = req[t]
    BY <1>1, GoesOn, Ends DEF CountForIp, Steps
<1>3. UNCHANGED <<code, compared, sessions>>
    BY DEF CountForIp
<1>4. TypeOK'
    BY <1>2, <1>3 DEF TypeOK
<1>5. RowsTell'
    BY <1>3 DEF RowsTell, Issued
<1>6. FoundTheirs'
    BY <1>2, <1>3 DEF FoundTheirs, Issued
<1>. QED BY <1>4, <1>5, <1>6, RoomToCreate

LEMMA CreatesOk ==
    ASSUME IInv, NEW s \in Slots, Create(s)
    PROVE  IInv'
<1>. USE DEF IInv
<1>. DEFINE new == Len(code) + 1
            fresh == NewRow(req[s].phone, req[s].ip, req[s].purpose)
<1>1. req[s] \in Request
    BY DEF Create, At, TypeOK, Idle
<1>2. fresh \in Row /\ fresh.attempts = 0 /\ fresh.verified = FALSE
    BY <1>1, CodesAssumption DEF NewRow, Row, Request
<1>3. /\ code' = Append(code, fresh) /\ Len(code) < MaxCodes
      /\ UNCHANGED <<compared, sessions>>
    BY DEF Create
<1>. HIDE DEF fresh
<1>4. /\ code' \in Seq(Row) /\ Len(code') = new
      /\ Issued' = Issued \cup {new} /\ new \notin Issued
      /\ code'[new] = fresh /\ \A c \in Issued : code'[c] = code[c]
    BY <1>2, <1>3 DEF TypeOK, Issued
<1>5. /\ req' \in [Slots -> Request \cup {Idle}] /\ req'[s].at = "idle"
      /\ \A t \in Slots : t # s => req'[t] = req[t]
    BY Ends DEF Create
<1>6. TypeOK'
    BY <1>3, <1>4, <1>5, CodesAssumption DEF TypeOK
<1>7. RowsTell'
    BY <1>2, <1>3, <1>4 DEF RowsTell
<1>8. FoundTheirs'
    BY <1>4, <1>5 DEF FoundTheirs
<1>. QED BY <1>6, <1>7, <1>8, RoomOfCreate

LEMMA AttemptsOk ==
    ASSUME IInv, NEW s \in Slots, Attempt(s)
    PROVE  IInv'
<1>. USE DEF IInv
<1>. DEFINE c == req[s].of
            r == [code[c] EXCEPT !.attempts = @ + 1]
<1>1. req[s] \in Request /\ c \in Issued /\ c \in Codes
    BY RowNumbers DEF Attempt, At, TypeOK, Idle, FoundTheirs
<1>2. /\ req' \in [Slots -> Request \cup {Idle}]
      /\ \A t \in Slots : t # s => req'[t] = req[t]
      /\ \/ req'[s].at = "idle"
         \/ /\ req'[s].at = "consume" /\ req'[s].of = c
            /\ req'[s].phone = req[s].phone /\ req'[s].purpose = req[s].purpose
    BY <1>1, GoesOn, Ends DEF Attempt, Steps
<1>3. req[s].at = "attempt"
    BY DEF Attempt, At
<1>4. \A x : ComingFor(x)' \subseteq ComingFor(x) /\ ComingFrom(x)' \subseteq ComingFrom(x)
    BY <1>2 DEF ComingFor, ComingFrom
<1>5. CASE MayAttempt(c)
    <2>1. code[c] \in Row
        BY <1>1, RowNumbers
    <2>2. /\ r \in Row /\ r.phone = code[c].phone /\ r.ip = code[c].ip
          /\ r.purpose = code[c].purpose /\ r.age = code[c].age
          /\ r.attempts = code[c].attempts + 1 /\ r.verified = code[c].verified
        BY <2>1, <1>5, CodesAssumption DEF Row, MayAttempt
    <2>3. /\ code' = [code EXCEPT ![c] = r]
          /\ compared' = [compared EXCEPT ![c] = @ + 1] /\ UNCHANGED sessions
        BY <1>5 DEF Attempt
    <2>. HIDE DEF r
    <2>4. /\ code' \in Seq(Row) /\ Len(code') = Len(code) /\ Issued' = Issued
          /\ code'[c] = r /\ \A d \in Issued : d # c => code'[d] = code[d]
          /\ \A d \in Issued : /\ code'[d].phone = code[d].phone
                               /\ code'[d].purpose = code[d].purpose
          /\ \A x : TodayFor(x)' \subseteq TodayFor(x) /\ TodayFrom(x)' \subseteq TodayFrom(x)
        BY <1>1, <2>2, <2>3, RowChanges
    <2>5. TypeOK'
        <3>1. compared' \in [Codes -> Nat]
            BY <1>1, <2>3 DEF TypeOK
        <3>. QED BY <1>2, <2>3, <2>4, <3>1 DEF TypeOK
    <2>6. RowsTell'
        BY <1>1, <2>2, <2>3, <2>4 DEF RowsTell, TypeOK
    <2>7. FoundTheirs'
        BY <1>1, <1>2, <1>3, <2>4 DEF FoundTheirs
    <2>. QED BY <1>4, <2>4, <2>5, <2>6, <2>7, RoomIsKept
<1>6. CASE ~MayAttempt(c)
    <2>1. UNCHANGED <<code, compared, sessions>>
        BY <1>6 DEF Attempt
    <2>2. TypeOK'
        BY <1>2, <2>1 DEF TypeOK
    <2>3. RowsTell'
        BY <2>1 DEF RowsTell, Issued
    <2>4. FoundTheirs'
        BY <1>1, <1>2, <1>3, <2>1 DEF FoundTheirs, Issued
    <2>5. \A x : TodayFor(x)' \subseteq TodayFor(x) /\ TodayFrom(x)' \subseteq TodayFrom(x)
        BY <2>1 DEF TodayFor, TodayFrom, Today, Issued
    <2>. QED BY <1>4, <2>2, <2>3, <2>4, <2>5, RoomIsKept
<1>. QED BY <1>5, <1>6

LEMMA ConsumesOk ==
    ASSUME IInv, NEW s \in Slots, Consume(s)
    PROVE  /\ IInv'
           /\ req[s].of \in Issued /\ code[req[s].of].phone = req[s].phone
           /\ code[req[s].of].purpose = req[s].purpose
           /\ \A d \in Codes : d # req[s].of => sessions'[d] = sessions[d]
<1>. USE DEF IInv
<1>. DEFINE c == req[s].of
            r == [code[c] EXCEPT !.verified = TRUE]
<1>1. /\ req[s] \in Request /\ c \in Issued /\ c \in Codes
      /\ code[c].phone = req[s].phone /\ code[c].purpose = req[s].purpose
    BY RowNumbers DEF Consume, At, TypeOK, Idle, FoundTheirs
<1>2. /\ req' \in [Slots -> Request \cup {Idle}] /\ req'[s].at = "idle"
      /\ \A t \in Slots : t # s => req'[t] = req[t]
    BY Ends DEF Consume
<1>3. \A x : ComingFor(x)' \subseteq ComingFor(x) /\ ComingFrom(x)' \subseteq ComingFrom(x)
    BY <1>2 DEF ComingFor, ComingFrom
<1>4. CASE MayConsume(c)
    <2>1. code[c] \in Row
        BY <1>1, RowNumbers
    <2>2. /\ r \in Row /\ r.phone = code[c].phone /\ r.ip = code[c].ip
          /\ r.purpose = code[c].purpose /\ r.age = code[c].age
          /\ r.attempts = code[c].attempts /\ r.verified = TRUE
        BY <2>1 DEF Row
    <2>3. /\ code' = [code EXCEPT ![c] = r]
          /\ sessions' = [sessions EXCEPT ![c] = @ + 1] /\ UNCHANGED compared
        BY <1>4 DEF Consume
    <2>. HIDE DEF r
    <2>4. /\ code' \in Seq(Row) /\ Len(code') = Len(code) /\ Issued' = Issued
          /\ code'[c] = r /\ \A d \in Issued : d # c => code'[d] = code[d]
          /\ \A d \in Issued : /\ code'[d].phone = code[d].phone
                               /\ code'[d].purpose = code[d].purpose
          /\ \A x : TodayFor(x)' \subseteq TodayFor(x) /\ TodayFrom(x)' \subseteq TodayFrom(x)
        BY <1>1, <2>2, <2>3, RowChanges
    <2>5. TypeOK'
        <3>1. sessions' \in [Codes -> Nat]
            BY <1>1, <2>3 DEF TypeOK
        <3>. QED BY <1>2, <2>3, <2>4, <3>1 DEF TypeOK
    <2>6. RowsTell'
        BY <1>1, <1>4, <2>2, <2>3, <2>4 DEF RowsTell, TypeOK, MayConsume
    <2>7. FoundTheirs'
        BY <1>2, <2>4 DEF FoundTheirs
    <2>8. \A d \in Codes : d # c => sessions'[d] = sessions[d]
        BY <2>3 DEF TypeOK
    <2>. QED BY <1>1, <1>3, <2>4, <2>5, <2>6, <2>7, <2>8, RoomIsKept
<1>5. CASE ~MayConsume(c)
    <2>1. UNCHANGED <<code, compared, sessions>>
        BY <1>5 DEF Consume
    <2>2. TypeOK'
        BY <1>2, <2>1 DEF TypeOK
    <2>3. RowsTell'
        BY <2>1 DEF RowsTell, Issued
    <2>4. FoundTheirs'
        BY <1>2, <2>1 DEF FoundTheirs, Issued
    <2>5. \A x : TodayFor(x)' \subseteq TodayFor(x) /\ TodayFrom(x)' \subseteq TodayFrom(x)
        BY <2>1 DEF TodayFor, TodayFrom, Today, Issued
    <2>. QED BY <1>1, <1>3, <2>1, <2>2, <2>3, <2>4, <2>5, RoomIsKept
<1>. QED BY <1>4, <1>5

LEMMA CrashesOk ==
    ASSUME IInv, NEW s \in Slots, Crash(s)
    PROVE  IInv'
<1>. USE DEF IInv
<1>1. /\ req' \in [Slots -> Request \cup {Idle}] /\ req'[s].at = "idle"
      /\ \A t \in Slots : t # s => req'[t] = req[t]
      /\ UNCHANGED <<code, compared, sessions>>
    BY Ends DEF Crash
<1>2. \A x : /\ TodayFor(x)' \subseteq TodayFor(x) /\ TodayFrom(x)' \subseteq TodayFrom(x)
             /\ ComingFor(x)' \subseteq ComingFor(x)
             /\ ComingFrom(x)' \subseteq ComingFrom(x)
    BY <1>1 DEF TodayFor, TodayFrom, Today, Issued, ComingFor, ComingFrom
<1>3. TypeOK'
    BY <1>1 DEF TypeOK
<1>4. RowsTell'
    BY <1>1 DEF RowsTell, Issued
<1>5. FoundTheirs'
    BY <1>1 DEF FoundTheirs, Issued
<1>. QED BY <1>2, <1>3, <1>4, <1>5, RoomIsKept

LEMMA AgesOk ==
    ASSUME IInv, NEW c \in Codes, NEW a \in {"expired", "old"}, Ages(c, a)
    PROVE  IInv'
<1>. USE DEF IInv
<1>. DEFINE r == [code[c] EXCEPT !.age = a]
<1>1. c \in Issued /\ code[c] \in Row /\ code[c].age # "old"
    BY RowNumbers DEF Ages
<1>2. /\ r \in Row /\ r.phone = code[c].phone /\ r.ip = code[c].ip
      /\ r.purpose = code[c].purpose
      /\ r.attempts = code[c].attempts /\ r.verified = code[c].verified
    BY <1>1 DEF Row
<1>3. code' = [code EXCEPT ![c] = r] /\ UNCHANGED <<req, compared, sessions>>
    BY DEF Ages
<1>. HIDE DEF r
<1>4. /\ code' \in Seq(Row) /\ Len(code') = Len(code) /\ Issued' = Issued
      /\ code'[c] = r /\ \A d \in Issued : d # c => code'[d] = code[d]
      /\ \A d \in Issued : /\ code'[d].phone = code[d].phone
                           /\ code'[d].purpose = code[d].purpose
      /\ \A x : TodayFor(x)' \subseteq TodayFor(x) /\ TodayFrom(x)' \subseteq TodayFrom(x)
    BY <1>1, <1>2, <1>3, RowChanges
<1>5. \A x : ComingFor(x)' \subseteq ComingFor(x) /\ ComingFrom(x)' \subseteq ComingFrom(x)
    BY <1>3 DEF ComingFor, ComingFrom
<1>6. TypeOK'
    BY <1>3, <1>4 DEF TypeOK
<1>7. RowsTell'
    BY <1>2, <1>3, <1>4 DEF RowsTell
<1>8. FoundTheirs'
    BY <1>3, <1>4 DEF FoundTheirs
<1>. QED BY <1>4, <1>5, <1>6, <1>7, <1>8, RoomIsKept

-----------------------------------------------------------------------------
(* The theorems.                                                           *)

\* At first nothing is issued, and nothing is under way.
LEMMA Starts == Init => IInv
<1>. SUFFICES ASSUME Init PROVE IInv
    OBVIOUS
<1>1. TypeOK
    BY CodesAssumption DEF Init, TypeOK
<1>2. Issued = {}
    BY DEF Init, Issued
<1>3. RowsTell
    BY <1>2 DEF RowsTell, Init
<1>4. FoundTheirs
    BY DEF FoundTheirs, Init, Idle
<1>5. \A x : /\ Cardinality(TodayFor(x)) = 0 /\ Cardinality(TodayFrom(x)) = 0
             /\ Cardinality(ComingFor(x)) = 0 /\ Cardinality(ComingFrom(x)) = 0
    <2>1. \A x : /\ TodayFor(x) = {} /\ TodayFrom(x) = {}
                 /\ ComingFor(x) = {} /\ ComingFrom(x) = {}
        BY <1>2 DEF TodayFor, TodayFrom, Today, ComingFor, ComingFrom, Init, Idle
    <2>. QED BY <2>1, FS_EmptySet
<1>6. Cardinality(Slots) \in Nat /\ Cardinality(Slots) # 0
    BY CodesAssumption, FS_CardinalityType, FS_EmptySet
<1>7. PhoneRoom /\ IpRoom
    BY <1>5, <1>6, CodesAssumption DEF PhoneRoom, IpRoom
<1>. QED BY <1>1, <1>3, <1>4, <1>7 DEF IInv

\* Every step keeps the invariant.
LEMMA Keeps == IInv /\ [Next]_vars => IInv'
<1>. SUFFICES ASSUME IInv, [Next]_vars PROVE IInv'
    OBVIOUS
<1>1. ASSUME NEW s \in Slots, Begin(s) PROVE IInv'
    BY <1>1, BeginsOk
<1>2. ASSUME NEW s \in Slots, Continue(s) PROVE IInv'
    BY <1>2, CountsOk, CreatesOk, AttemptsOk, ConsumesOk DEF Continue
<1>3. ASSUME NEW s \in Slots, Crash(s) PROVE IInv'
    BY <1>3, CrashesOk
<1>4. ASSUME NEW c \in Codes, NEW a \in {"expired", "old"}, Ages(c, a) PROVE IInv'
    BY <1>4, AgesOk
<1>5. CASE UNCHANGED vars
    BY <1>5 DEF vars, IInv, TypeOK, RowsTell, FoundTheirs, PhoneRoom, IpRoom, Issued,
                TodayFor, TodayFrom, Today, ComingFor, ComingFrom
<1>. QED BY <1>1, <1>2, <1>3, <1>4, <1>5 DEF Next

\* The invariant always holds.
THEOREM Invariant == Spec => []IInv
BY Starts, Keeps, PTL DEF Spec

\* The rows are what the table allows, and no row counts more attempts than
\* OTP_MAX_ATTEMPTS.
THEOREM TypeCorrect == Spec => []TypeOK
BY Invariant, PTL DEF IInv

\* One code gives one session, however many requests bring it at once
\* (verify_code's second conditional UPDATE).
THEOREM CodesGiveOneSession == Spec => []OneSessionPerCode
<1>1. IInv => OneSessionPerCode
    BY DEF IInv, RowsTell, OneSessionPerCode
<1>. QED BY <1>1, Invariant, PTL

\* No code is compared with more guesses than OTP_MAX_ATTEMPTS, however they
\* interleave (verify_code's first conditional UPDATE).
THEOREM CodesLimitGuesses == Spec => []GuessesAreLimited
<1>1. IInv => GuessesAreLimited
    <2>. SUFFICES ASSUME IInv, NEW c \in Codes PROVE compared[c] <= MaxAttempts
        BY DEF GuessesAreLimited
    <2>1. compared[c] = IF c \in Issued THEN code[c].attempts ELSE 0
        BY DEF IInv, RowsTell
    <2>2. c \in Issued => code[c].attempts \in 0..MaxAttempts
        BY RowNumbers DEF IInv, Row
    <2>. QED BY <2>1, <2>2, CodesAssumption
<1>. QED BY <1>1, Invariant, PTL

\* request_code counts and creates in separate queries: the codes a number can
\* be sent in a day pass its cap by fewer than the requests under way.
THEOREM PhoneCapOvershoot == Spec => []PhoneCapHolds
<1>1. IInv => PhoneCapHolds
    <2>. SUFFICES ASSUME IInv, NEW phone \in Phones
                  PROVE  Cardinality(TodayFor(phone)) + 1 <= MaxPerPhone + Cardinality(Slots)
        BY DEF PhoneCapHolds
    <2>. QED BY Counts, CodesAssumption DEF IInv, PhoneRoom
<1>. QED BY <1>1, Invariant, PTL

\* The same of a connection's cap.
THEOREM IpCapOvershoot == Spec => []IpCapHolds
<1>1. IInv => IpCapHolds
    <2>. SUFFICES ASSUME IInv, NEW ip \in Connections
                  PROVE  Cardinality(TodayFrom(ip)) + 1 <= MaxPerIp + Cardinality(Slots)
        BY DEF IpCapHolds
    <2>. QED BY Counts, CodesAssumption DEF IInv, IpRoom
<1>. QED BY <1>1, Invariant, PTL

\* Both caps of request_code hold up to the requests under way.
THEOREM CapsOvershoot == Spec => []CapsHold
BY PhoneCapOvershoot, IpCapOvershoot, PTL DEF CapsHold

\* A code signs in to nothing but what it was made for, and proves no other
\* number: what verify_code found is still so when it consumes the code.
THEOREM CodesKeepTheirPurpose == Spec => SessionsAreForTheirPurpose
<1>. DEFINE Theirs(c) == \E s \in Slots : /\ At(s, "consume") /\ req[s].of = c
                                          /\ req[s].phone = code[c].phone
                                          /\ req[s].purpose = code[c].purpose
            ForTheirs == \A c \in Codes : sessions'[c] # sessions[c] => Theirs(c)
<1>1. IInv /\ [Next]_vars => [ForTheirs]_vars
    <2>. SUFFICES ASSUME IInv, Next, NEW c \in Codes, sessions'[c] # sessions[c]
                  PROVE  Theirs(c)
        OBVIOUS
    <2>1. PICK s \in Slots : Consume(s)
        BY DEF Next, Begin, Continue, CountForPhone, VerifyRead, CountForIp, Create,
               Attempt, Crash, Ages
    <2>2. req[s].of = c /\ code[c].phone = req[s].phone /\ code[c].purpose = req[s].purpose
        BY <2>1, ConsumesOk
    <2>. QED BY <2>1, <2>2 DEF Consume
<1>2. Spec => [][ForTheirs]_vars
    BY <1>1, Invariant, PTL DEF Spec
<1>. QED BY <1>2 DEF SessionsAreForTheirPurpose
-----------------------------------------------------------------------------
(* TrainerJoin: the inductive invariant.                                   *)

\* What the page, the tab and the server hold has its parts and fields.
IsForm(f) == f = [part \in Parts |-> f[part]]
IsListing(r) ==
    r \in [text : {r.text}, files : {r.files}, status : {r.status}] /\ IsForm(r.text)
IsCall(c) ==
    /\ c \in [op : {c.op}, form : {c.form}, next : {c.next}, from : {c.from},
              code : {c.code}, reply : {c.reply}, seen : {c.seen}]
    /\ IsForm(c.form) /\ IsForm(c.seen.text)
JoinShapes ==
    /\ IsForm(form) /\ IsForm(draft) /\ IsForm(typed) /\ IsForm(late.form)
    /\ IsListing(row) /\ IsCall(call)

\* Only a listing under review has been sent to staff.
Reviewed == (sent # Blank => row.status = "pending") /\ UnderReviewIsWhatWasSent

\* A submission is of a whole form, and the save before it has put that form there.
Submitting(c, text) ==
    /\ c.op \in {"resave", "submit"} => \A part \in Parts : c.form[part] # 0
    /\ c.op = "submit" \/ (c.op = "resave" /\ c.reply = "ok") => text = c.form

\* While an old save may still arrive, the new page has come no further than the first
\* save, which waits for it: it has asked the profile for nothing yet.
ProfileCalls == {"save", "resave", "submit", "checklist"}
BeforeSaves == {"loading", "unavailable", "phone", "code", "you", "workshop", "submitted"}
LateIsAlone(old, shown, c) == old # NoCall => shown \in BeforeSaves /\ c.op \notin ProfileCalls

\* The profile's requests are sent, and answered, on the pages of the form.
CalledFromForm(c, shown) == c.op \in ProfileCalls => shown \in Profile

\* Until there is a listing none was read, and the tab has all that was typed.
Agree(f, texts) == f.workshop = texts.workshop /\ f.course = texts.course
Unwritten == row = NoRow => call.seen = NoRow /\ Agree(draft, typed)

JoinInv ==
    /\ JoinShapes /\ Reviewed /\ Submitting(call, row.text)
    /\ LateIsAlone(late, step, call) /\ CalledFromForm(call, step)
    /\ Unwritten /\ DraftComesBack

-----------------------------------------------------------------------------
LEMMA BlankIsForm == IsForm(Blank) /\ IsForm(NoRow.text) /\ IsForm(NoCall.form) /\ IsCall(NoCall)
BY DEF IsForm, Blank, NoRow, NoCall, IsCall

\* What the page does of itself.
LEMMA PageMoves ==
    ASSUME JoinInv, UNCHANGED <<row, sent, typed, draft, late>>,
           IsForm(form'), IsCall(call'), Submitting(call', row.text),
           LateIsAlone(late, step', call'), CalledFromForm(call', step'),
           row = NoRow => call'.seen = NoRow,
           row = NoRow /\ step' \in Profile => Agree(form', typed)
    PROVE  JoinInv'
<1>1. JoinShapes'
    BY DEF JoinInv, JoinShapes, IsForm, IsListing, IsCall, Parts
<1>2. Reviewed' /\ Unwritten' /\ DraftComesBack'
    BY DEF JoinInv, Reviewed, UnderReviewIsWhatWasSent, Unwritten, DraftComesBack, Agree,
           Blank, NoRow, Parts, Profile
<1>3. Submitting(call, row.text)' /\ LateIsAlone(late, step, call)' /\ CalledFromForm(call, step)'
    BY DEF Submitting, LateIsAlone, CalledFromForm, ProfileCalls, BeforeSaves, Profile, Parts,
           NoCall, NoRow, Blank
<1>. QED BY <1>1, <1>2, <1>3 DEF JoinInv

\* What the server does.
LEMMA ServerMoves ==
    ASSUME JoinInv, UNCHANGED <<step, form, draft, typed>>, late' \in {late, NoCall},
           IsListing(row'), row' = NoRow => row = NoRow /\ call'.seen = NoRow,
           Reviewed', IsCall(call'), call'.op = call.op, Submitting(call', row'.text)
    PROVE  JoinInv'
<1>1. JoinShapes'
    BY BlankIsForm DEF JoinInv, JoinShapes, IsForm, IsListing, IsCall, Parts
<1>2. Unwritten' /\ DraftComesBack'
    BY DEF JoinInv, Unwritten, DraftComesBack, Agree, Blank, NoRow, Parts, Profile
<1>3. Submitting(call, row.text)' /\ LateIsAlone(late, step, call)' /\ CalledFromForm(call, step)'
    BY DEF JoinInv, Submitting, LateIsAlone, CalledFromForm, ProfileCalls, BeforeSaves, Profile,
           Parts, NoCall, NoRow, Blank
<1>. QED BY <1>1, <1>2, <1>3 DEF JoinInv

\* A request is sent.
LEMMA CallIsMade ==
    ASSUME JoinInv, NEW op, NEW f, NEW next, NEW from, NEW number, IsForm(f), op # "submit",
           call' = [op |-> op, form |-> f, next |-> next, from |-> from,
                    code |-> number, reply |-> "", seen |-> NoRow],
           op = "resave" => \A part \in Parts : f[part] # 0,
           late # NoCall => step \in BeforeSaves /\ op \notin ProfileCalls,
           op \in ProfileCalls => step \in Profile,
           UNCHANGED <<row, sent, typed, draft, late, step, form>>
    PROVE  JoinInv'
<1>1. /\ IsCall(call') /\ Submitting(call', row.text) /\ call'.seen = NoRow
      /\ LateIsAlone(late, step', call') /\ CalledFromForm(call', step')
    BY BlankIsForm DEF IsCall, Submitting, LateIsAlone, CalledFromForm
<1>. QED BY <1>1, PageMoves DEF JoinInv, JoinShapes, DraftComesBack, Agree

\* The requests of signing in, of Continue and of Submit.
LEMMA RequestsKeep ==
    ASSUME JoinInv, RequestCode \/ ResendCode \/ VerifyCode \/ SaveThenContinue \/ SaveAndSubmit
    PROVE  JoinInv'
<1>1. UNCHANGED <<row, sent, typed, draft, late, step, form>>
    BY DEF RequestCode, ResendCode, VerifyCode, SaveThenContinue, SaveAndSubmit, server, past
<1>2. IsForm(form) /\ IsForm(Blank)
    BY BlankIsForm DEF JoinInv, JoinShapes, NoCall
<1>3. CASE RequestCode \/ ResendCode
    <2>1. call' = [op |-> "send", form |-> Blank, next |-> "you", from |-> step,
                   code |-> 0, reply |-> "", seen |-> NoRow]
        BY <1>3 DEF RequestCode, ResendCode, NoCall
    <2>2. late # NoCall => step \in BeforeSaves
        BY DEF JoinInv, LateIsAlone
    <2>3. "send" \notin ProfileCalls
        BY DEF ProfileCalls
    <2>. QED BY <1>1, <1>2, <2>1, <2>2, <2>3, CallIsMade
<1>4. CASE VerifyCode
    <2>1. PICK n \in 1..codes : call' = [NoCall EXCEPT !.op = "verify", !.code = n]
        BY <1>4 DEF VerifyCode
    <2>2. call' = [op |-> "verify", form |-> Blank, next |-> "you", from |-> "you",
                   code |-> n, reply |-> "", seen |-> NoRow]
        BY <2>1 DEF NoCall
    <2>3. late # NoCall => step \in BeforeSaves
        BY DEF JoinInv, LateIsAlone
    <2>4. "verify" \notin ProfileCalls
        BY DEF ProfileCalls
    <2>. QED BY <1>1, <1>2, <2>2, <2>3, <2>4, CallIsMade
<1>5. CASE SaveThenContinue
    <2>1. PICK t \in Saved : step = t[1]
             /\ call' = [NoCall EXCEPT !.op = "save", !.form = form, !.from = step, !.next = t[2]]
        BY <1>5 DEF SaveThenContinue
    <2>2. step \in Profile /\ late = NoCall
        BY <1>5, <2>1 DEF SaveThenContinue, Saved, Profile
    <2>3. call' = [op |-> "save", form |-> form, next |-> t[2], from |-> step,
                   code |-> 0, reply |-> "", seen |-> NoRow]
        BY <2>1 DEF NoCall
    <2>4. PICK next : call' = [op |-> "save", form |-> form, next |-> next, from |-> step,
                               code |-> 0, reply |-> "", seen |-> NoRow]
        BY <2>3
    <2>5. late # NoCall => step \in BeforeSaves /\ "save" \notin ProfileCalls
        BY <2>2
    <2>6. /\ step \in Profile /\ "save" # "submit"
          /\ "save" = "resave" => \A part \in Parts : form[part] # 0
        BY <2>2
    <2>. QED BY ONLY JoinInv, <1>1, <1>2, <2>4, <2>5, <2>6, CallIsMade, Zenon
<1>6. CASE SaveAndSubmit
    <2>1. step = "review" /\ \A part \in Parts : form[part] # 0
        BY <1>6 DEF SaveAndSubmit, ReviewForm
    <2>2. late = NoCall
        BY <2>1 DEF JoinInv, LateIsAlone, BeforeSaves
    <2>3. call' = [op |-> "resave", form |-> form, next |-> "you", from |-> step,
                   code |-> 0, reply |-> "", seen |-> NoRow]
        BY <1>6 DEF SaveAndSubmit, NoCall
    <2>4. step \in Profile
        BY <2>1 DEF Profile
    <2>. QED BY <1>1, <1>2, <2>1, <2>2, <2>3, <2>4, CallIsMade
<1>. QED BY <1>3, <1>4, <1>5, <1>6

\* The profile is shown, or the form of a new trainer, who finds what the tab kept.
LEMMA EnterShows ==
    ASSUME JoinInv, Enter(call.seen)
    PROVE  /\ IsForm(form') /\ step' \in {"you", "submitted"}
           /\ row = NoRow => Agree(form', typed)
<1>1. form' = IF call.seen = NoRow THEN draft ELSE [call.seen.text EXCEPT !.identity = 0]
    BY DEF Enter, FromDraft, FormOf
<1>2. IsForm(draft) /\ IsForm(call.seen.text)
    BY DEF JoinInv, JoinShapes, IsCall
<1>3. IsForm([call.seen.text EXCEPT !.identity = 0])
    BY <1>2 DEF IsForm
<1>4. row = NoRow => call.seen = NoRow /\ Agree(draft, typed)
    BY DEF JoinInv, Unwritten
<1>5. step' \in {"you", "submitted"}
    BY DEF Enter
<1>. QED BY <1>1, <1>2, <1>3, <1>4, <1>5

\* The page is at rest with another step.
LEMMA PageRests ==
    ASSUME JoinInv, UNCHANGED <<row, sent, typed, draft, late>>, IsForm(form'), call' = NoCall,
           late # NoCall => step' \in BeforeSaves,
           row = NoRow /\ step' \in Profile => Agree(form', typed)
    PROVE  JoinInv'
<1>1. IsCall(call') /\ call'.op = "none" /\ call'.seen = NoRow
    BY BlankIsForm DEF NoCall
<1>. QED BY <1>1, PageMoves DEF Submitting, LateIsAlone, CalledFromForm, ProfileCalls

LEMMA PageLoadsKeeps == ASSUME JoinInv, PageLoads PROVE JoinInv'
<1>1. UNCHANGED <<row, sent, typed, draft, late>> /\ call' = NoCall
    BY DEF PageLoads, server, past
<1>2. CASE Enter(call.seen)
    BY <1>1, <1>2, EnterShows, PageRests DEF BeforeSaves
<1>3. CASE step' \in {"phone", "unavailable"} /\ form' = form
    BY <1>1, <1>3, PageRests DEF BeforeSaves, Profile, JoinInv, JoinShapes
<1>. QED BY <1>2, <1>3 DEF PageLoads

LEMMA SignInKeeps ==
    ASSUME JoinInv, CodeSent \/ Tick \/ CodeVerified \/ ChangePhone
    PROVE  JoinInv'
<1>1. UNCHANGED <<row, sent, typed, draft, late>>
    BY DEF CodeSent, Tick, CodeVerified, ChangePhone, server, past
<1>2. /\ IsForm(form) /\ (row = NoRow /\ step \in Profile => Agree(form, typed))
      /\ late # NoCall => step \in BeforeSaves
    BY DEF JoinInv, JoinShapes, LateIsAlone, DraftComesBack, Agree
<1>3. CASE CodeSent
    <2>1. call' = NoCall /\ form' = form /\ step' \in {step, "code"}
        BY <1>3 DEF CodeSent
    <2>. QED BY <1>1, <1>2, <2>1, PageRests DEF BeforeSaves, Profile
<1>4. CASE Tick
    <2>1. UNCHANGED <<step, form, call>>
        BY <1>4 DEF Tick
    <2>. QED BY <1>1, <1>2, <2>1, PageMoves DEF JoinInv, JoinShapes, Unwritten
<1>5. CASE CodeVerified
    <2>1. call' = NoCall
        BY <1>5 DEF CodeVerified
    <2>2. CASE Enter(call.seen)
        BY <1>1, <2>1, <2>2, EnterShows, PageRests DEF BeforeSaves
    <2>3. CASE UNCHANGED <<step, form>>
        BY <1>1, <1>2, <2>1, <2>3, PageRests
    <2>. QED BY <1>5, <2>2, <2>3 DEF CodeVerified
<1>6. CASE ChangePhone
    <2>1. step = "code" /\ step' = "phone" /\ UNCHANGED <<form, call>>
        BY <1>6 DEF ChangePhone
    <2>2. call.op \notin ProfileCalls
        BY <2>1 DEF JoinInv, CalledFromForm, Profile
    <2>. QED BY <1>1, <1>2, <2>1, <2>2, PageMoves
             DEF JoinInv, JoinShapes, Unwritten, LateIsAlone, CalledFromForm, BeforeSaves, Profile
<1>. QED BY <1>3, <1>4, <1>5, <1>6

\* What is typed is kept, so that the tab still has it after a reload.
LEMMA TypingKeeps ==
    ASSUME JoinInv, NEW part \in Parts, NEW text, step \in Profile,
           form' = [form EXCEPT ![part] = text], typed' = [typed EXCEPT ![part] = text],
           draft' = [form' EXCEPT !.identity = 0],
           UNCHANGED <<row, sent, late, step, call>>
    PROVE  JoinInv'
<1>1. IsForm(form) /\ IsForm(typed)
    BY DEF JoinInv, JoinShapes
<1>2. IsForm(form') /\ IsForm(typed') /\ IsForm(draft')
    BY <1>1 DEF IsForm
<1>3. row = NoRow => Agree(form, typed)
    BY DEF JoinInv, DraftComesBack, Agree
<1>4. Agree(form, typed) => Agree(form', typed')
    BY <1>1 DEF Agree, IsForm, Parts
<1>5. Agree(draft', form')
    BY <1>2 DEF Agree, IsForm, Parts
<1>6. JoinShapes'
    BY <1>2 DEF JoinInv, JoinShapes, IsForm, IsListing, IsCall, Parts
<1>7. Unwritten' /\ DraftComesBack'
    BY <1>3, <1>4, <1>5 DEF JoinInv, Unwritten, DraftComesBack, Agree, NoRow, Blank, Parts, Profile
<1>8. Reviewed' /\ Submitting(call, row.text)' /\ LateIsAlone(late, step, call)'
      /\ CalledFromForm(call, step)'
    BY DEF JoinInv, Reviewed, UnderReviewIsWhatWasSent, Submitting, LateIsAlone, CalledFromForm,
           ProfileCalls, BeforeSaves, Profile, Parts, NoCall, NoRow, Blank
<1>. QED BY <1>6, <1>7, <1>8 DEF JoinInv

LEMMA TypeKeeps == ASSUME JoinInv, NEW part \in Parts, Type(part) PROVE JoinInv'
<1>1. step \in Profile
    BY DEF Type, Editing, YouForm, WorkshopForm, CourseForm, Profile, Parts
<1>2. /\ form' = [form EXCEPT ![part] = NextText] /\ typed' = [typed EXCEPT ![part] = NextText]
      /\ draft' = [form' EXCEPT !.identity = 0] /\ UNCHANGED <<row, sent, late, step, call>>
    BY DEF Type, Keep, server
<1>. QED BY <1>1, <1>2, TypingKeeps

LEMMA LocatedKeeps == ASSUME JoinInv, Located PROVE JoinInv'
<1>1. step \in Profile /\ "workshop" \in Parts
    BY DEF Located, Parts
<1>2. /\ form' = [form EXCEPT !["workshop"] = NextText]
      /\ typed' = [typed EXCEPT !["workshop"] = NextText]
      /\ draft' = [form' EXCEPT !.identity = 0] /\ UNCHANGED <<row, sent, late, step, call>>
    BY DEF Located, Keep, server
<1>. QED BY <1>1, <1>2, TypingKeeps

\* Among the form's pages: nothing else changes.
LEMMA TurnKeeps == ASSUME JoinInv, Turn PROVE JoinInv'
<1>1. UNCHANGED <<row, sent, typed, draft, late, form, call>>
    BY DEF Turn, server, past
<1>2. step \in Profile /\ step' \in Profile /\ (step \in BeforeSaves => step' \in BeforeSaves)
    BY DEF Turn, Turns, Profile, BeforeSaves
<1>3. LateIsAlone(late, step', call) /\ CalledFromForm(call, step')
    BY <1>2 DEF JoinInv, LateIsAlone, CalledFromForm
<1>4. /\ IsForm(form') /\ IsCall(call') /\ Submitting(call', row.text)
      /\ row = NoRow => call'.seen = NoRow /\ Agree(form', typed)
    BY <1>1, <1>2 DEF JoinInv, JoinShapes, Unwritten, DraftComesBack, Agree
<1>. QED BY <1>1, <1>3, <1>4, PageMoves

\* An answer of the profile: the page moves on among the form's pages, and asks for what
\* is still missing or for nothing.
LEMMA FormStays ==
    ASSUME JoinInv, call.op \in ProfileCalls, UNCHANGED <<row, sent, typed, draft, late, form>>,
           step' \in Profile, NEW next, call' \in {NoCall, Checklist(next)}
    PROVE  JoinInv'
<1>1. late = NoCall /\ step \in Profile
    BY DEF JoinInv, LateIsAlone, CalledFromForm
<1>2. /\ IsForm(form') /\ (row = NoRow => Agree(form', typed))
    BY <1>1 DEF JoinInv, JoinShapes, DraftComesBack, Agree
<1>3. CASE call' = NoCall
    BY <1>1, <1>2, <1>3, PageRests
<1>4. CASE call' = Checklist(next)
    <2>1. /\ IsCall(call') /\ call'.seen = NoRow /\ call'.op = "checklist"
        BY <1>4, BlankIsForm DEF Checklist, NoCall, IsCall
    <2>2. /\ Submitting(call', row.text) /\ LateIsAlone(late, step', call')
          /\ CalledFromForm(call', step')
        BY <1>1, <2>1 DEF Submitting, LateIsAlone, CalledFromForm
    <2>. QED BY <1>2, <2>1, <2>2, PageMoves
<1>. QED BY <1>3, <1>4

LEMMA AnswersKeep ==
    ASSUME JoinInv, SaveAnswered \/ ResaveAnswered \/ SubmitAnswered \/ ChecklistAnswered
    PROVE  JoinInv'
<1>1. UNCHANGED <<row, sent, typed, late, form>>
    BY DEF SaveAnswered, ResaveAnswered, SubmitAnswered, ChecklistAnswered, server, past
<1>2. call.op \in ProfileCalls /\ late = NoCall /\ step \in Profile
    BY DEF JoinInv, LateIsAlone, CalledFromForm, ProfileCalls,
           SaveAnswered, ResaveAnswered, SubmitAnswered, ChecklistAnswered
<1>3. Refused => step' \in Profile
    BY <1>2 DEF Refused, StepOf, Parts, Profile
<1>4. CASE SaveAnswered
    <2>1. draft' = draft /\ call' \in {NoCall, Checklist("review")}
        BY <1>4 DEF SaveAnswered
    <2>2. step' \in Profile \/ (step' = call.next /\ call' = NoCall)
        BY <1>2, <1>3, <1>4 DEF SaveAnswered
    <2>3. CASE step' \in Profile
        BY <1>1, <1>2, <2>1, <2>3, FormStays
    <2>4. CASE step' = call.next /\ call' = NoCall
        <3>1. row = NoRow => Agree(form', typed)
            BY <1>1, <1>2 DEF JoinInv, DraftComesBack, Agree
        <3>2. IsForm(form')
            BY <1>1 DEF JoinInv, JoinShapes
        <3>. QED BY <1>1, <1>2, <2>1, <2>4, <3>1, <3>2, PageRests
    <2>. QED BY <2>2, <2>3, <2>4
<1>5. CASE ResaveAnswered /\ call.reply # "ok"
    <2>1. draft' = draft /\ step' \in Profile /\ call' \in {NoCall, Checklist("you")}
        BY <1>3, <1>5 DEF ResaveAnswered
    <2>. QED BY <1>1, <1>2, <2>1, FormStays
<1>6. CASE ResaveAnswered /\ call.reply = "ok"
    <2>1. /\ call.op = "resave" /\ call' = [call EXCEPT !.op = "submit", !.reply = "", !.seen = NoRow]
          /\ UNCHANGED <<step, draft>>
        BY <1>6 DEF ResaveAnswered
    <2>2. IsCall(call)
        BY DEF JoinInv, JoinShapes
    <2>3. /\ IsCall(call') /\ call'.op = "submit" /\ call'.form = call.form /\ call'.seen = NoRow
        BY <2>1, <2>2, BlankIsForm DEF IsCall
    <2>4. Submitting(call', row.text)
        BY <1>6, <2>1, <2>3 DEF JoinInv, Submitting
    <2>5. /\ LateIsAlone(late, step', call') /\ CalledFromForm(call', step') /\ IsForm(form')
          /\ row = NoRow => Agree(form', typed)
        BY <1>1, <1>2, <2>1
           DEF LateIsAlone, CalledFromForm, JoinInv, JoinShapes, DraftComesBack, Agree
    <2>. QED BY <1>1, <2>1, <2>3, <2>4, <2>5, PageMoves
<1>7. CASE SubmitAnswered /\ call.reply # "ok"
    <2>1. UNCHANGED <<draft, step>> /\ call' \in {NoCall, Checklist("you")}
        BY <1>7 DEF SubmitAnswered
    <2>. QED BY <1>1, <1>2, <2>1, FormStays
<1>8. CASE SubmitAnswered /\ call.reply = "ok"
    <2>1. call.op = "submit" /\ draft' = Blank /\ step' = "submitted" /\ call' = NoCall
        BY <1>8 DEF SubmitAnswered
    <2>2. row # NoRow
        BY <2>1 DEF JoinInv, Submitting, NoRow, Blank, Parts
    <2>3. JoinShapes'
        BY <1>1, <2>1, BlankIsForm DEF JoinInv, JoinShapes, IsForm, IsListing, IsCall, Parts, NoCall
    <2>4. Reviewed' /\ Unwritten' /\ DraftComesBack'
        BY <1>1, <2>1, <2>2 DEF JoinInv, Reviewed, UnderReviewIsWhatWasSent, Unwritten,
                                DraftComesBack, Blank, NoRow, Parts
    <2>5. Submitting(call, row.text)' /\ LateIsAlone(late, step, call)' /\ CalledFromForm(call, step)'
        BY <1>1, <1>2, <2>1 DEF Submitting, LateIsAlone, CalledFromForm, ProfileCalls, BeforeSaves,
                                Parts, NoCall, NoRow, Blank
    <2>. QED BY <2>3, <2>4, <2>5 DEF JoinInv
<1>9. CASE ChecklistAnswered
    <2>1. draft' = draft /\ call' \in {NoCall, Checklist("you")} /\ step' \in Profile
        BY <1>2, <1>9 DEF ChecklistAnswered, Profile
    <2>. QED BY <1>1, <1>2, <2>1, FormStays
<1>. QED BY <1>4, <1>5, <1>6, <1>7, <1>8, <1>9

\* A save whose page is gone may still arrive; the new page holds nothing of the form.
LEMMA ReloadKeeps == ASSUME JoinInv, Reload PROVE JoinInv'
<1>1. /\ UNCHANGED <<row, sent, typed, draft>> /\ form' = Blank /\ step' = "loading"
      /\ call' = SessionCall /\ (late' = late \/ late' = call)
    BY DEF Reload
<1>2. IsCall(call') /\ call'.op = "session" /\ call'.seen = NoRow
    BY <1>1, BlankIsForm DEF SessionCall, NoCall, IsCall
<1>3. IsForm(call.form)
    BY DEF JoinInv, JoinShapes, IsCall
<1>4. JoinShapes'
    <2>1. IsForm(form') /\ IsForm(late'.form)
        BY <1>1, <1>3, BlankIsForm DEF JoinInv, JoinShapes
    <2>. QED BY <1>1, <1>2, <2>1 DEF JoinInv, JoinShapes, IsForm, IsListing, IsCall, Parts
<1>5. Reviewed' /\ Unwritten' /\ DraftComesBack'
    BY <1>1, <1>2 DEF JoinInv, Reviewed, UnderReviewIsWhatWasSent, Unwritten, DraftComesBack,
                      Agree, Blank, NoRow, Parts, Profile
<1>6. Submitting(call, row.text)' /\ LateIsAlone(late, step, call)' /\ CalledFromForm(call, step)'
    BY <1>1, <1>2 DEF Submitting, LateIsAlone, CalledFromForm, ProfileCalls, BeforeSaves, Parts,
                      NoCall, NoRow, Blank
<1>. QED BY <1>4, <1>5, <1>6 DEF JoinInv

\* What the files' actions, the ticks and the staff's other work leave alone.
LEMMA TextsUntouched ==
    ASSUME JoinInv, UNCHANGED <<step, form, draft, typed, call, late, row, sent>>
    PROVE  JoinInv'
<1>1. /\ IsForm(form) /\ IsCall(call) /\ Submitting(call, row.text)
      /\ LateIsAlone(late, step, call) /\ CalledFromForm(call, step)
      /\ row = NoRow => call.seen = NoRow
      /\ row = NoRow /\ step \in Profile => Agree(form, typed)
    BY DEF JoinInv, JoinShapes, Unwritten, DraftComesBack, Agree
<1>. QED BY <1>1, PageMoves

LEMMA FilesKeep ==
    ASSUME JoinInv,
           \/ AddFile \/ FileAnswered \/ RemovePhoto \/ PhotoRemoved
           \/ LoseFileAnswer \/ LoseRemovalAnswer
    PROVE  JoinInv'
<1>1. UNCHANGED <<step, form, draft, typed, call, late, row, sent>>
    BY DEF AddFile, FileAnswered, RemovePhoto, PhotoRemoved, LoseFileAnswer, LoseRemovalAnswer,
           server, past
<1>. QED BY <1>1, TextsUntouched

-----------------------------------------------------------------------------
\* An answer: a request's form is what it was sent with.
LEMMA AnswerIs ==
    ASSUME JoinInv, NEW op, NEW reply, NEW seen, NEW number, Answer(op, reply, seen, number),
           IsForm(seen.text)
    PROVE  /\ IsCall(call') /\ call'.op = call.op /\ call.op = op /\ call'.form = call.form
           /\ call'.reply = reply /\ call'.seen = seen /\ UNCHANGED <<step, form, draft, typed>>
<1>1. IsCall(call)
    BY DEF JoinInv, JoinShapes
<1>2. call' = [call EXCEPT !.reply = reply, !.seen = seen, !.code = number] /\ call.op = op
      /\ UNCHANGED <<step, form, draft, typed>>
    BY DEF Answer
<1>. QED BY <1>1, <1>2 DEF IsCall

\* The listing does not change.
LEMMA RowStays ==
    ASSUME JoinInv, row' = row, sent' = sent
    PROVE  IsListing(row') /\ Reviewed'
BY DEF JoinInv, JoinShapes, IsListing, IsForm, Reviewed, UnderReviewIsWhatWasSent, Blank, Parts

LEMMA AskedKeeps ==
    ASSUME JoinInv, ReadSession \/ SendCode \/ CheckCode \/ ServeChecklist
    PROVE  JoinInv'
<1>1. UNCHANGED <<row, sent, late>>
    BY DEF ReadSession, SendCode, CheckCode, ServeChecklist, server
<1>2. PICK op, reply, seen, number :
        /\ op \in {"session", "send", "verify", "checklist"} /\ seen \in {row, NoRow}
        /\ Answer(op, reply, seen, number)
    <2>1. CASE ReadSession
        <3>1. PICK reply, seen : seen \in {row, NoRow} /\ Answer("session", reply, seen, 0)
            BY <2>1 DEF ReadSession
        <3>. QED BY <3>1
    <2>2. CASE SendCode \/ ServeChecklist
        BY <2>2 DEF SendCode, ServeChecklist
    <2>3. CASE CheckCode
        BY <2>3 DEF CheckCode
    <2>. QED BY <2>1, <2>2, <2>3
<1>3. IsForm(seen.text)
    BY <1>2, BlankIsForm DEF JoinInv, JoinShapes, IsListing
<1>4. /\ IsCall(call') /\ call'.op = call.op /\ call.op = op /\ call'.seen = seen
      /\ UNCHANGED <<step, form, draft, typed>>
    BY <1>2, <1>3, AnswerIs
<1>5. Submitting(call', row'.text)
    BY <1>2, <1>4 DEF Submitting
<1>6. row' = NoRow => row = NoRow /\ call'.seen = NoRow
    BY <1>1, <1>2, <1>4
<1>7. IsListing(row') /\ Reviewed'
    BY <1>1, RowStays
<1>. QED BY <1>1, <1>4, <1>5, <1>6, <1>7, ServerMoves

\* A save: the text becomes the form's, unless the course was left out, and never that of
\* a listing under review.
LEMMA SaveStores ==
    ASSUME JoinInv, NEW new, IsForm(new), MaySave, SaveProfile(new)
    PROVE  /\ IsListing(row') /\ row'.status # "none" /\ sent = Blank
           /\ new.course # 0 => row'.text = new
<1>1. PICK telling : Stored(new, telling)
    BY DEF SaveProfile
<1>. DEFINE text == Merged(row.text, new)
            status == CASE row.status = "none" -> "draft"
                        [] row.status = "published" /\ telling -> "pending"
                        [] OTHER -> row.status
<1>2. row' = [row EXCEPT !.text = text, !.status = status]
    BY <1>1 DEF Stored
<1>3. IsForm(text) /\ (new.course # 0 => text = new)
    BY DEF Merged, IsForm, Parts
<1>4. status # "none"
    OBVIOUS
<1>. HIDE DEF text, status
<1>5. IsListing(row)
    BY DEF JoinInv, JoinShapes
<1>6. IsListing(row') /\ row'.text = text /\ row'.status = status
    BY <1>2, <1>3, <1>5 DEF IsListing
<1>7. sent = Blank
    BY DEF JoinInv, Reviewed, MaySave, Editable
<1>. QED BY <1>3, <1>4, <1>6, <1>7

LEMMA ServeSaveKeeps == ASSUME JoinInv, ServeSave PROVE JoinInv'
<1>1. UNCHANGED <<late, sent>>
    BY DEF ServeSave
<1>2. PICK op \in {"save", "resave"} :
        \/ MaySave /\ SaveProfile(call.form) /\ Answer(op, "ok", row', 0)
        \/ \E part \in Parts : Answer(op, part, NoRow, 0) /\ UNCHANGED row
        \/ ~MaySave /\ Answer(op, "refused", NoRow, 0) /\ UNCHANGED row
    BY DEF ServeSave
<1>3. CASE MaySave /\ SaveProfile(call.form) /\ Answer(op, "ok", row', 0)
    <2>1. IsForm(call.form)
        BY DEF JoinInv, JoinShapes, IsCall
    <2>2. /\ IsListing(row') /\ row'.status # "none" /\ sent = Blank
          /\ call.form.course # 0 => row'.text = call.form
        BY <1>3, <2>1, SaveStores
    <2>3. IsForm(row'.text)
        BY <2>2 DEF IsListing
    <2>4. /\ IsCall(call') /\ call'.op = call.op /\ call.op = op /\ call'.form = call.form
          /\ UNCHANGED <<step, form, draft, typed>>
        BY <1>3, <2>3, AnswerIs
    <2>5. Submitting(call', row'.text)
        BY <2>2, <2>4 DEF JoinInv, Submitting, Parts
    <2>6. row' # NoRow
        BY <2>2 DEF NoRow
    <2>7. Reviewed'
        BY <1>1, <2>2 DEF Reviewed, UnderReviewIsWhatWasSent, Blank, Parts
    <2>. QED BY <1>1, <2>2, <2>4, <2>5, <2>6, <2>7, ServerMoves
<1>4. CASE UNCHANGED row /\ \E reply \in Parts \cup {"refused"} : Answer(op, reply, NoRow, 0)
    <2>1. PICK reply \in Parts \cup {"refused"} : Answer(op, reply, NoRow, 0)
        BY <1>4
    <2>2. /\ IsCall(call') /\ call'.op = call.op /\ call.op = op /\ call'.form = call.form
          /\ call'.reply = reply /\ call'.seen = NoRow /\ UNCHANGED <<step, form, draft, typed>>
        BY <2>1, AnswerIs, BlankIsForm
    <2>3. Submitting(call', row'.text)
        BY <1>4, <2>2 DEF JoinInv, Submitting, Parts
    <2>. QED BY <1>1, <1>4, <2>2, <2>3, RowStays, ServerMoves
<1>. QED BY <1>2, <1>3, <1>4

LEMMA ServeLateKeeps == ASSUME JoinInv, ServeLate PROVE JoinInv'
<1>1. late # NoCall /\ late' = NoCall /\ UNCHANGED <<step, form, draft, typed, call, sent>>
    BY DEF ServeLate, page, past
<1>2. /\ IsForm(late.form) /\ call.op \notin ProfileCalls
      /\ IsCall(call) /\ (row = NoRow => call.seen = NoRow)
    BY <1>1 DEF JoinInv, JoinShapes, LateIsAlone, Unwritten
<1>3. Submitting(call', row'.text) /\ IsCall(call') /\ call'.op = call.op
    BY <1>1, <1>2 DEF Submitting, ProfileCalls
<1>4. CASE MaySave /\ SaveProfile(late.form)
    <2>1. IsListing(row') /\ row'.status # "none" /\ sent = Blank
        BY <1>2, <1>4, SaveStores
    <2>2. row' # NoRow
        BY <2>1 DEF NoRow
    <2>3. Reviewed'
        BY <1>1, <2>1 DEF Reviewed, UnderReviewIsWhatWasSent, Blank, Parts
    <2>. QED BY <1>1, <1>3, <2>1, <2>2, <2>3, ServerMoves
<1>5. CASE UNCHANGED row
    <2>1. row' = NoRow => row = NoRow /\ call'.seen = NoRow
        BY <1>1, <1>2, <1>5
    <2>2. IsListing(row') /\ Reviewed'
        BY <1>1, <1>5, RowStays
    <2>. QED BY <1>1, <1>3, <2>1, <2>2, ServerMoves
<1>. QED BY <1>4, <1>5 DEF ServeLate

\* The listing goes to staff with the text that was submitted.
LEMMA ServeSubmitKeeps == ASSUME JoinInv, ServeSubmit PROVE JoinInv'
<1>1. late' = late /\ IsListing(row)
    BY DEF ServeSubmit, JoinInv, JoinShapes
<1>2. PICK reply : Answer("submit", reply, NoRow, 0)
    BY DEF ServeSubmit
<1>3. /\ IsCall(call') /\ call'.op = call.op /\ call.op = "submit" /\ call'.form = call.form
      /\ call'.seen = NoRow /\ UNCHANGED <<step, form, draft, typed>>
    BY <1>2, BlankIsForm, AnswerIs
<1>4. row.text = call.form
    BY <1>3 DEF JoinInv, Submitting
<1>5. CASE /\ row.status \in {"draft", "changes"}
           /\ row' = [row EXCEPT !.status = "pending"] /\ sent' = call.form
    <2>1. IsListing(row') /\ row'.text = row.text /\ row'.status = "pending"
        BY <1>1, <1>5 DEF IsListing
    <2>2. row' # NoRow
        BY <2>1 DEF NoRow
    <2>3. Reviewed'
        BY <1>4, <1>5, <2>1 DEF Reviewed, UnderReviewIsWhatWasSent, Blank, Parts
    <2>4. Submitting(call', row'.text)
        BY <1>3, <2>1 DEF JoinInv, Submitting
    <2>. QED BY <1>1, <1>3, <2>1, <2>2, <2>3, <2>4, ServerMoves
<1>6. CASE UNCHANGED <<row, sent>>
    <2>1. Submitting(call', row'.text)
        BY <1>3, <1>6 DEF JoinInv, Submitting
    <2>2. row' = NoRow => row = NoRow /\ call'.seen = NoRow
        BY <1>3, <1>6
    <2>3. IsListing(row') /\ Reviewed'
        BY <1>6, RowStays
    <2>. QED BY <1>1, <1>3, <2>1, <2>2, <2>3, ServerMoves
<1>. QED BY <1>5, <1>6 DEF ServeSubmit

\* A file is stored with, or removed from, a listing that is not under review.
LEMMA FilesChange ==
    ASSUME JoinInv, NEW files, MayFile, row' = [row EXCEPT !.files = files],
           UNCHANGED <<step, form, draft, typed, call, late, sent>>
    PROVE  JoinInv'
<1>1. IsListing(row) /\ IsCall(call) /\ Submitting(call, row.text)
    BY DEF JoinInv, JoinShapes
<1>2. IsListing(row') /\ row'.text = row.text /\ row'.status = row.status
    BY <1>1 DEF IsListing
<1>3. row' # NoRow
    BY <1>2 DEF NoRow, MayFile, Editable
<1>4. Reviewed'
    BY <1>2 DEF JoinInv, Reviewed, UnderReviewIsWhatWasSent, Blank, Parts
<1>5. IsCall(call') /\ call'.op = call.op /\ Submitting(call', row'.text)
    BY <1>1, <1>2
<1>. QED BY <1>2, <1>3, <1>4, <1>5, ServerMoves

LEMMA ServeFilesKeep == ASSUME JoinInv, ServeFile \/ ServeRemoval PROVE JoinInv'
<1>1. UNCHANGED <<step, form, draft, typed, call, late, sent>>
    BY DEF ServeFile, ServeRemoval, past
<1>2. UNCHANGED row \/ (MayFile /\ \E files : row' = [row EXCEPT !.files = files])
    <2>1. CASE ServeFile
        BY <2>1 DEF ServeFile
    <2>2. CASE ServeRemoval
        BY <2>2 DEF ServeRemoval
    <2>. QED BY <2>1, <2>2
<1>3. CASE UNCHANGED row
    BY <1>1, <1>3, TextsUntouched
<1>4. CASE MayFile /\ \E files : row' = [row EXCEPT !.files = files]
    BY <1>1, <1>4, FilesChange
<1>. QED BY <1>2, <1>3, <1>4

\* The page is told of no listing, and of no success.
LEMMA LoseAnswerKeeps == ASSUME JoinInv, LoseAnswer PROVE JoinInv'
<1>1. /\ UNCHANGED <<step, form, draft, typed, row, late, sent>>
      /\ call' = [call EXCEPT !.reply = "lost", !.seen = NoRow]
    BY DEF LoseAnswer, server
<1>2. IsCall(call)
    BY DEF JoinInv, JoinShapes
<1>3. /\ IsCall(call') /\ call'.op = call.op /\ call'.form = call.form /\ call'.reply = "lost"
      /\ call'.seen = NoRow
    BY <1>1, <1>2, BlankIsForm DEF IsCall
<1>4. Submitting(call', row'.text)
    BY <1>1, <1>3 DEF JoinInv, Submitting
<1>5. row' = NoRow => row = NoRow /\ call'.seen = NoRow
    BY <1>1, <1>3
<1>6. IsListing(row') /\ Reviewed'
    BY <1>1, RowStays
<1>. QED BY <1>1, <1>3, <1>4, <1>5, <1>6, ServerMoves

\* Staff decide on a listing, which is no longer under review.
LEMMA DecideKeeps == ASSUME JoinInv, Decide PROVE JoinInv'
<1>1. /\ UNCHANGED <<step, form, draft, typed, call, late>> /\ sent' = Blank
      /\ \E decision \in {"published", "changes"} : row' = [row EXCEPT !.status = decision]
    BY DEF Decide, page
<1>2. IsListing(row) /\ IsCall(call) /\ Submitting(call, row.text)
    BY DEF JoinInv, JoinShapes
<1>3. IsListing(row') /\ row'.text = row.text /\ row'.status \in {"published", "changes"}
    BY <1>1, <1>2 DEF IsListing
<1>4. row' # NoRow
    BY <1>3 DEF NoRow
<1>5. Reviewed'
    BY <1>1 DEF Reviewed, UnderReviewIsWhatWasSent, Blank, Parts
<1>6. IsCall(call') /\ call'.op = call.op /\ Submitting(call', row'.text)
    BY <1>1, <1>2, <1>3
<1>. QED BY <1>1, <1>3, <1>4, <1>5, <1>6, ServerMoves

LEMMA JoinInitHolds == ASSUME JoinInit PROVE JoinInv
<1>1. IsCall(call) /\ call.op = "session" /\ call.seen = NoRow
    BY BlankIsForm DEF JoinInit, SessionCall, NoCall, IsCall
<1>2. IsListing(row)
    BY BlankIsForm DEF JoinInit, NoRow, IsListing
<1>3. JoinShapes
    BY <1>1, <1>2, BlankIsForm DEF JoinInit, JoinShapes
<1>4. Reviewed /\ Unwritten /\ DraftComesBack
    BY <1>1 DEF JoinInit, Reviewed, UnderReviewIsWhatWasSent, Unwritten, DraftComesBack, Agree,
                Profile
<1>5. Submitting(call, row.text) /\ LateIsAlone(late, step, call) /\ CalledFromForm(call, step)
    BY <1>1 DEF JoinInit, Submitting, LateIsAlone, CalledFromForm, ProfileCalls
<1>. QED BY <1>3, <1>4, <1>5 DEF JoinInv

LEMMA JoinStepKeeps == ASSUME JoinInv, [JoinNext]_joinVars PROVE JoinInv'
<1>1. CASE PageLoads \/ Reload
    BY <1>1, PageLoadsKeeps, ReloadKeeps
<1>2. CASE SignIn
    BY <1>2, RequestsKeep, SignInKeeps DEF SignIn
<1>3. CASE Write
    <2>1. CASE (\E part \in Parts : Type(part)) \/ Located \/ Turn
        BY <2>1, TypeKeeps, LocatedKeeps, TurnKeeps
    <2>2. CASE \/ SaveThenContinue \/ SaveAndSubmit
               \/ SaveAnswered \/ ResaveAnswered \/ SubmitAnswered \/ ChecklistAnswered
        BY <2>2, RequestsKeep, AnswersKeep
    <2>. QED BY <1>3, <2>1, <2>2 DEF Write
<1>4. CASE Files \/ Lose
    BY <1>4, FilesKeep, LoseAnswerKeeps DEF Files, Lose
<1>5. CASE Serve
    BY <1>5, AskedKeeps, ServeSaveKeeps, ServeLateKeeps, ServeSubmitKeeps, ServeFilesKeep DEF Serve
<1>6. CASE Decide
    BY <1>6, DecideKeeps
<1>7. CASE UNCHANGED joinVars
    BY <1>7, TextsUntouched DEF joinVars, page, server, past
<1>. QED BY <1>1, <1>2, <1>3, <1>4, <1>5, <1>6, <1>7 DEF JoinNext

\* Only what checks the status writes a listing, and staff only its status.
LEMMA PendingIsStill ==
    ASSUME JoinInv, [JoinNext]_joinVars, row.status = "pending"
    PROVE  row'.text = row.text /\ row'.files = row.files
<1>1. IsListing(row)
    BY DEF JoinInv, JoinShapes
<1>2. ~MaySave /\ ~MayFile
    BY DEF MaySave, MayFile, Editable
<1>3. UNCHANGED row \/ Decide
    <2>1. CASE PageLoads \/ Reload \/ UNCHANGED joinVars
        BY <2>1 DEF PageLoads, Reload, joinVars, server
    <2>2. CASE SignIn
        BY <2>2 DEF SignIn, RequestCode, ResendCode, CodeSent, Tick, VerifyCode, CodeVerified,
                    ChangePhone, server
    <2>3. CASE Write
        BY <2>3 DEF Write, Type, Located, Turn, SaveThenContinue, SaveAndSubmit, SaveAnswered,
                    ResaveAnswered, SubmitAnswered, ChecklistAnswered, server
    <2>4. CASE Files \/ Lose
        BY <2>4 DEF Files, AddFile, FileAnswered, RemovePhoto, PhotoRemoved, Lose, LoseAnswer,
                    LoseFileAnswer, LoseRemovalAnswer, server
    <2>5. CASE Serve
        <3>1. CASE ReadSession \/ SendCode \/ CheckCode \/ ServeChecklist
            BY <3>1 DEF ReadSession, SendCode, CheckCode, ServeChecklist, server
        <3>2. CASE ServeSave \/ ServeLate
            BY <1>2, <3>2 DEF ServeSave, ServeLate
        <3>3. CASE ServeSubmit
            BY <3>3 DEF ServeSubmit
        <3>4. CASE ServeFile \/ ServeRemoval
            BY <1>2, <3>4 DEF ServeFile, ServeRemoval
        <3>. QED BY <2>5, <3>1, <3>2, <3>3, <3>4 DEF Serve
    <2>. QED BY <2>1, <2>2, <2>3, <2>4, <2>5 DEF JoinNext
<1>4. CASE Decide
    BY <1>1, <1>4 DEF Decide, IsListing
<1>. QED BY <1>3, <1>4

\* The form, the tab, the requests and the listing of TrainerJoin, however often the page
\* is loaded anew and whatever does not arrive.
THEOREM JoinInvariance == JoinSpec => []JoinInv
<1>1. JoinInit => JoinInv
    BY JoinInitHolds
<1>2. JoinInv /\ [JoinNext]_joinVars => JoinInv'
    BY JoinStepKeeps
<1>. QED BY <1>1, <1>2, PTL DEF JoinSpec

\* Staff decide on the text that was submitted, whichever saves came before it, twice or
\* late (save_owned_profile, TrainerProfileSubmitView).
THEOREM ReviewedIsSent == JoinSpec => []UnderReviewIsWhatWasSent
<1>1. JoinInv => UnderReviewIsWhatWasSent
    BY DEF JoinInv, Reviewed
<1>. QED BY <1>1, JoinInvariance, PTL

\* A listing under review keeps its text and its files until staff have decided
\* (EDITABLE_STATUSES, _editable_provider_or_error).
THEOREM ReviewIsStill == JoinSpec => UnderReviewIsStill
<1>1. JoinInv /\ [JoinNext]_joinVars
        => [row.status = "pending" => row'.text = row.text /\ row'.files = row.files]_joinVars
    BY PendingIsStill
<1>. QED BY <1>1, JoinInvariance, PTL DEF JoinSpec, UnderReviewIsStill

\* Without a listing yet, a new page of the tab finds all that was typed in the old one
\* (trainerDraftForStorage).
THEOREM NothingTypedIsLost == JoinSpec => []DraftComesBack
<1>1. JoinInv => DraftComesBack
    BY DEF JoinInv
<1>. QED BY <1>1, JoinInvariance, PTL
-----------------------------------------------------------------------------
(* TrainerJoin: its types.  A file on its way is of some kind, and one that *)
(* was taken has its number.                                               *)

FileIsKnown ==
    /\ upload # NoUpload => upload.kind \in Kinds
    /\ upload.reply = "ok" => upload.id \in 1..MaxFiles
JoinTyped == JoinTypeOK /\ FileIsKnown

LEMMA NothingIsTyped ==
    /\ Blank \in Form /\ NoRow \in Listing /\ NoCall \in Call /\ SessionCall \in Call
    /\ NoUpload \in Upload /\ NoUpload.reply = "" /\ NoUpload.kind = ""
<1>1. Blank \in Form /\ NoRow \in Listing
    BY JoinAssumption DEF Blank, Form, NoRow, Listing, Statuses
<1>2. NoCall \in Call
    <2>1. 0 \in 0..MaxSent /\ "you" \in Screens
        BY JoinAssumption DEF Screens
    <2>. QED BY <1>1, <2>1 DEF NoCall, Call
<1>3. SessionCall \in Call
    BY <1>2 DEF SessionCall, Call
<1>. QED BY <1>1, <1>2, <1>3, JoinAssumption DEF NoUpload, Upload

LEMMA NextIsTyped ==
    ASSUME JoinTyped, NextText <= MaxEdits
    PROVE  NextText \in 0..MaxEdits
<1>. DEFINE texts == {typed[p] : p \in Parts}
<1>1. typed["identity"] \in Nat /\ typed["workshop"] \in Nat /\ typed["course"] \in Nat
    BY JoinAssumption DEF JoinTyped, JoinTypeOK, Form, Parts
<1>2. \E n \in texts : \A p \in Parts : typed[p] <= n
    BY <1>1 DEF Parts
<1>3. \A n \in texts : n \in Nat
    BY <1>1 DEF Parts
<1>. DEFINE latest == CHOOSE n \in texts : \A p \in Parts : typed[p] <= n
<1>4. latest \in texts
    BY <1>2, Zenon
<1>5. NextText = 1 + latest
    BY DEF NextText
<1>. HIDE DEF latest
<1>. QED BY <1>3, <1>4, <1>5, JoinAssumption

LEMMA JoinInitTyped == ASSUME JoinInit PROVE JoinTyped
<1>1. 0 \in 0..MaxSent /\ 0 \in 0..MaxFiles /\ 0 \in 0..MaxFaults /\ "loading" \in Screens
    BY JoinAssumption DEF Screens
<1>. QED BY <1>1, NothingIsTyped DEF JoinInit, JoinTyped, JoinTypeOK, FileIsKnown

LEMMA EnterTyped ==
    ASSUME JoinTyped, NEW profile \in Listing, Enter(profile)
    PROVE  step' \in Screens /\ form' \in Form
<1>1. FormOf(profile) \in Form
    BY JoinAssumption DEF FormOf, Form, Parts, Listing
<1>. QED BY <1>1 DEF Enter, Screens, FromDraft, JoinTyped, JoinTypeOK

\* Loading, signing in, and turning pages.
LEMMA PageLoadsTyped == ASSUME JoinTyped, PageLoads PROVE JoinTyped'
<1>1. call.seen \in Listing
    BY DEF JoinTyped, JoinTypeOK, Call
<1>2. step' \in Screens /\ form' \in Form /\ UNCHANGED <<photos, upload, removals>>
    <2>1. CASE Enter(call.seen)
        BY <1>1, <2>1, EnterTyped DEF Enter
    <2>2. CASE step' \in {"phone", "unavailable"} /\ UNCHANGED <<form, photos, upload, removals>>
        BY <2>2 DEF JoinTyped, JoinTypeOK, Screens
    <2>. QED BY <2>1, <2>2 DEF PageLoads
<1>. QED BY <1>2, NothingIsTyped DEF PageLoads, server, past, JoinTyped, JoinTypeOK, FileIsKnown

LEMMA FaultTyped == ASSUME JoinTyped, Fault PROVE faults' \in 0..MaxFaults
<1>1. faults \in 0..MaxFaults
    BY DEF JoinTyped, JoinTypeOK
<1>. QED BY <1>1, JoinAssumption DEF Fault

LEMMA ReloadTyped == ASSUME JoinTyped, Reload PROVE JoinTyped'
<1>1. faults' \in 0..MaxFaults
    BY FaultTyped DEF Reload
<1>2. late' \in Call
    BY DEF Reload, JoinTyped, JoinTypeOK
<1>3. 0 \in 0..MaxSent /\ "loading" \in Screens
    BY JoinAssumption DEF Screens
<1>. QED BY <1>1, <1>2, <1>3, NothingIsTyped DEF Reload, JoinTyped, JoinTypeOK, FileIsKnown

LEMMA SignInTyped == ASSUME JoinTyped, SignIn PROVE JoinTyped'
<1>1. CASE RequestCode \/ ResendCode
    <2>1. call' \in Call
        <3>1. step \in Screens /\ call' = [NoCall EXCEPT !.op = "send", !.from = step]
            BY <1>1 DEF RequestCode, ResendCode, JoinTyped, JoinTypeOK
        <3>. QED BY <3>1, NothingIsTyped DEF Call
    <2>. QED BY <1>1, <2>1 DEF RequestCode, ResendCode, server, past, JoinTyped, JoinTypeOK, FileIsKnown
<1>2. CASE CodeSent
    <2>1. call.code \in 0..MaxSent
        BY DEF JoinTyped, JoinTypeOK, Call
    <2>2. challenge' \in 0..MaxSent /\ age' \in {"cooling", "open", "expired"} /\ step' \in Screens
        BY <1>2, <2>1 DEF CodeSent, JoinTyped, JoinTypeOK, Screens
    <2>. QED BY <1>2, <2>2, NothingIsTyped DEF CodeSent, server, past, JoinTyped, JoinTypeOK, FileIsKnown
<1>3. CASE Tick \/ ChangePhone
    BY <1>3 DEF Tick, ChangePhone, server, past, JoinTyped, JoinTypeOK, FileIsKnown, Screens
<1>4. CASE VerifyCode
    <2>1. PICK n \in 1..codes : call' = [NoCall EXCEPT !.op = "verify", !.code = n]
        BY <1>4 DEF VerifyCode
    <2>2. n \in 0..MaxSent
        BY JoinAssumption DEF JoinTyped, JoinTypeOK
    <2>3. call' \in Call
        BY <2>1, <2>2, NothingIsTyped DEF Call
    <2>. QED BY <1>4, <2>3 DEF VerifyCode, server, past, JoinTyped, JoinTypeOK, FileIsKnown
<1>5. CASE CodeVerified
    <2>1. call.seen \in Listing
        BY DEF JoinTyped, JoinTypeOK, Call
    <2>2. step' \in Screens /\ form' \in Form /\ UNCHANGED <<photos, upload, removals>>
        BY <1>5, <2>1, EnterTyped DEF CodeVerified, Enter, JoinTyped, JoinTypeOK
    <2>3. 0 \in 0..MaxSent
        BY JoinAssumption
    <2>. QED BY <1>5, <2>2, <2>3, NothingIsTyped
             DEF CodeVerified, server, past, JoinTyped, JoinTypeOK, FileIsKnown
<1>. QED BY <1>1, <1>2, <1>3, <1>4, <1>5 DEF SignIn

LEMMA WriteTyped == ASSUME JoinTyped, Write PROVE JoinTyped'
<1>1. \A f \in Form : [f EXCEPT !.identity = 0] \in Form
    BY JoinAssumption DEF Form
<1>2. ASSUME NEW part \in Parts, Type(part) PROVE JoinTyped'
    <2>1. form' \in Form /\ typed' \in Form
        BY <1>2, NextIsTyped DEF Type, JoinTyped, JoinTypeOK, Form
    <2>2. draft' \in Form
        BY <1>1, <1>2, <2>1 DEF Type, Keep
    <2>. QED BY <1>2, <2>1, <2>2 DEF Type, server, JoinTyped, JoinTypeOK, FileIsKnown
<1>3. CASE Located
    <2>1. form' \in Form /\ typed' \in Form
        BY <1>3, NextIsTyped DEF Located, JoinTyped, JoinTypeOK, Form
    <2>2. draft' \in Form
        BY <1>1, <1>3, <2>1 DEF Located, Keep
    <2>. QED BY <1>3, <2>1, <2>2 DEF Located, server, JoinTyped, JoinTypeOK, FileIsKnown
<1>4. CASE Turn
    <2>1. step' \in Screens
        BY <1>4 DEF Turn, Turns, Screens
    <2>. QED BY <1>4, <2>1 DEF Turn, server, past, JoinTyped, JoinTypeOK, FileIsKnown
<1>5. CASE SaveThenContinue
    <2>1. PICK t \in Saved :
             call' = [NoCall EXCEPT !.op = "save", !.form = form, !.from = step, !.next = t[2]]
        BY <1>5 DEF SaveThenContinue
    <2>2. t[2] \in Screens /\ form \in Form /\ step \in Screens
        BY DEF Saved, Screens, JoinTyped, JoinTypeOK
    <2>3. call' \in Call
        BY <2>1, <2>2, NothingIsTyped DEF Call
    <2>. QED BY <1>5, <2>3 DEF SaveThenContinue, server, past, JoinTyped, JoinTypeOK, FileIsKnown
<1>6. CASE SaveAndSubmit
    <2>1. form \in Form /\ step \in Screens
        BY DEF JoinTyped, JoinTypeOK
    <2>2. call' \in Call
        BY <1>6, <2>1, NothingIsTyped DEF SaveAndSubmit, Call
    <2>. QED BY <1>6, <2>2 DEF SaveAndSubmit, server, past, JoinTyped, JoinTypeOK, FileIsKnown
<1>7. CASE SaveAnswered \/ ResaveAnswered \/ SubmitAnswered \/ ChecklistAnswered
    <2>1. call \in Call /\ call.next \in Screens /\ call.seen.files \subseteq File /\ step \in Screens
        BY DEF JoinTyped, JoinTypeOK, Call, Listing
    <2>2. \A next \in Screens : Checklist(next) \in Call
        BY NothingIsTyped DEF Checklist, Call
    <2>3. "review" \in Screens /\ "you" \in Screens /\ "submitted" \in Screens
        BY DEF Screens
    <2>4. Refused => step' \in Screens
        BY <2>1 DEF Refused, StepOf, Parts, Screens
    <2>5. [call EXCEPT !.op = "submit", !.reply = "", !.seen = NoRow] \in Call
        BY <2>1, NothingIsTyped DEF Call
    <2>6. CASE SaveAnswered
        <3>1. call' \in Call /\ step' \in Screens /\ photos' \subseteq File
            BY <2>1, <2>2, <2>3, <2>4, <2>6, NothingIsTyped DEF SaveAnswered, JoinTyped, JoinTypeOK
        <3>. QED BY <2>6, <3>1 DEF SaveAnswered, server, past, JoinTyped, JoinTypeOK, FileIsKnown
    <2>7. CASE ResaveAnswered
        <3>1. call' \in Call /\ step' \in Screens
            BY <2>1, <2>2, <2>3, <2>4, <2>5, <2>7 DEF ResaveAnswered
        <3>. QED BY <2>7, <3>1 DEF ResaveAnswered, server, past, JoinTyped, JoinTypeOK, FileIsKnown
    <2>8. CASE SubmitAnswered
        <3>1. call' \in Call /\ step' \in Screens /\ draft' \in Form
            BY <2>1, <2>2, <2>3, <2>8, NothingIsTyped DEF SubmitAnswered, JoinTyped, JoinTypeOK
        <3>. QED BY <2>8, <3>1 DEF SubmitAnswered, server, past, JoinTyped, JoinTypeOK, FileIsKnown
    <2>9. CASE ChecklistAnswered
        <3>1. call' \in Call /\ step' \in Screens
            BY <2>1, <2>3, <2>9, NothingIsTyped DEF ChecklistAnswered
        <3>. QED BY <2>9, <3>1 DEF ChecklistAnswered, server, past, JoinTyped, JoinTypeOK, FileIsKnown
    <2>. QED BY <1>7, <2>6, <2>7, <2>8, <2>9
<1>. QED BY <1>2, <1>3, <1>4, <1>5, <1>6, <1>7 DEF Write

\* The files a page or a listing is left with.
LEMMA FilesLeft ==
    ASSUME NEW files \in SUBSET File, NEW id \in 1..MaxFiles, NEW kind \in Kinds, NEW of \in 0..MaxFiles
    PROVE  /\ Others(files, kind) \cup {[id |-> id, kind |-> kind, of |-> of]} \subseteq File
           /\ Without(files, id) \subseteq File
BY DEF Others, Without, File

LEMMA FilesTyped == ASSUME JoinTyped, Files PROVE JoinTyped'
<1>0. 0 \in 0..MaxFiles
    BY JoinAssumption
<1>1. CASE AddFile
    <2>1. \A kind \in Kinds, of \in 0..MaxFiles : [NoUpload EXCEPT !.kind = kind, !.of = of] \in Upload
        BY NothingIsTyped DEF Upload
    <2>2. \A kind \in Kinds : [NoUpload EXCEPT !.kind = kind] \in Upload
        BY NothingIsTyped DEF Upload
    <2>3. \A work \in Unpaired : work.id \in 0..MaxFiles
        BY JoinAssumption DEF Unpaired, OfKind, JoinTyped, JoinTypeOK, File
    <2>4. "before" \in Kinds
        BY DEF Kinds
    <2>5. upload' \in Upload
        BY <1>1, <2>1, <2>2, <2>3, <2>4 DEF AddFile
    <2>6. upload'.reply = "" /\ upload'.kind \in Kinds
        BY <1>1, <2>4, NothingIsTyped DEF AddFile, NoUpload
    <2>. QED BY <1>1, <2>5, <2>6 DEF AddFile, server, past, JoinTyped, JoinTypeOK, FileIsKnown
<1>2. CASE FileAnswered
    <2>1. upload.of \in 0..MaxFiles /\ photos \in SUBSET File
        BY DEF JoinTyped, JoinTypeOK, Upload
    <2>2. photos' \subseteq File
        BY <1>2, <2>1, FilesLeft, NothingIsTyped DEF FileAnswered, JoinTyped, FileIsKnown
    <2>. QED BY <1>2, <2>2, NothingIsTyped
             DEF FileAnswered, server, past, JoinTyped, JoinTypeOK, FileIsKnown
<1>3. CASE RemovePhoto
    <2>1. PICK f \in photos : removals' = removals \cup {[id |-> f.id, reply |-> ""]}
        BY <1>3 DEF RemovePhoto
    <2>2. f.id \in 1..MaxFiles
        BY DEF JoinTyped, JoinTypeOK, File
    <2>3. [id |-> f.id, reply |-> ""] \in Removal
        BY <2>2 DEF Removal
    <2>4. removals' \subseteq Removal
        <3>1. removals \subseteq Removal
            BY DEF JoinTyped, JoinTypeOK
        <3>. QED BY <2>1, <2>3, <3>1, Zenon
    <2>. QED BY <1>3, <2>4 DEF RemovePhoto, server, past, JoinTyped, JoinTypeOK, FileIsKnown
<1>4. CASE PhotoRemoved
    <2>1. \A id : Without(photos, id) \subseteq photos
        BY DEF Without
    <2>2. removals' \subseteq removals /\ photos' \subseteq photos
        BY <1>4, <2>1 DEF PhotoRemoved
    <2>. QED BY <1>4, <2>2 DEF PhotoRemoved, server, past, JoinTyped, JoinTypeOK, FileIsKnown
<1>. QED BY <1>1, <1>2, <1>3, <1>4 DEF Files

\* A text that is stored is one that was sent, with the course there was.
LEMMA StoredIsTyped ==
    ASSUME row \in Listing, NEW new \in Form, MaySave, SaveProfile(new)
    PROVE  row' \in Listing
<1>1. Merged(row.text, new) \in Form
    BY DEF Merged, Form, Listing, Parts
<1>2. PICK telling \in {FALSE, new.workshop # row.text.workshop} : Stored(new, telling)
    BY DEF SaveProfile
<1>. DEFINE status == CASE row.status = "none" -> "draft"
                        [] row.status = "published" /\ telling -> "pending"
                        [] OTHER -> row.status
<1>3. status \in Statuses
    BY DEF Listing, Statuses
<1>4. row' = [row EXCEPT !.text = Merged(row.text, new), !.status = status]
    BY <1>2 DEF Stored
<1>. HIDE DEF status
<1>. QED BY <1>1, <1>3, <1>4 DEF Listing

\* What a request is answered with.
LEMMA AnswerIsTyped ==
    ASSUME call \in Call, NEW op, NEW reply \in {"ok", "anonymous", "lost", "refused"} \cup Parts,
           NEW seen \in Listing, NEW newest \in 0..MaxSent, Answer(op, reply, seen, newest)
    PROVE  call' \in Call
BY DEF Answer, Call

\* An answer changes only what the server has, and the request.
AnsweredOnly == UNCHANGED <<step, form, photos, upload, removals, challenge, age, draft, typed, faults>>
LEMMA AnsweredTyped ==
    ASSUME JoinTyped, AnsweredOnly, call' \in Call, row' \in Listing, late' \in Call,
           sent' \in Form, made' = made, codes' \in 0..MaxSent, signedIn' \in BOOLEAN
    PROVE  JoinTyped'
BY DEF AnsweredOnly, JoinTyped, JoinTypeOK, FileIsKnown

LEMMA RequestsTyped ==
    ASSUME JoinTyped, ReadSession \/ SendCode \/ CheckCode \/ ServeSave \/ ServeLate \/ ServeSubmit \/ ServeChecklist
    PROVE  JoinTyped'
<1>0. /\ row \in Listing /\ call \in Call /\ late \in Call /\ sent \in Form /\ codes \in 0..MaxSent
      /\ signedIn \in BOOLEAN /\ 0 \in 0..MaxSent
    BY JoinAssumption DEF JoinTyped, JoinTypeOK
<1>1. /\ row \in Listing /\ call \in Call /\ late \in Call /\ sent \in Form /\ codes \in 0..MaxSent
      /\ signedIn \in BOOLEAN /\ call.form \in Form /\ late.form \in Form /\ 0 \in 0..MaxSent
    BY <1>0 DEF Call
<1>2. CASE ReadSession
    <2>1. call' \in Call
        BY <1>1, <1>2, AnswerIsTyped, NothingIsTyped DEF ReadSession
    <2>. QED BY <1>1, <1>2, <2>1, AnsweredTyped DEF ReadSession, Answer, AnsweredOnly, server
<1>3. CASE SendCode
    <2>1. codes' \in 0..MaxSent
        BY <1>1, <1>3, JoinAssumption DEF SendCode
    <2>2. call' \in Call
        BY <1>1, <1>3, <2>1, AnswerIsTyped, NothingIsTyped DEF SendCode
    <2>. QED BY <1>1, <1>3, <2>1, <2>2, AnsweredTyped DEF SendCode, Answer, AnsweredOnly
<1>4. CASE CheckCode
    <2>1. call' \in Call
        BY <1>1, <1>4, AnswerIsTyped, NothingIsTyped DEF CheckCode
    <2>2. codes' \in 0..MaxSent /\ signedIn' \in BOOLEAN
        BY <1>1, <1>4 DEF CheckCode
    <2>. QED BY <1>1, <1>4, <2>1, <2>2, AnsweredTyped DEF CheckCode, Answer, AnsweredOnly
<1>5. CASE ServeSave
    <2>1. row' \in Listing
        BY <1>1, <1>5, StoredIsTyped DEF ServeSave
    <2>2. call' \in Call
        BY <1>1, <1>5, <2>1, AnswerIsTyped, NothingIsTyped DEF ServeSave
    <2>. QED BY <1>1, <1>5, <2>1, <2>2, AnsweredTyped DEF ServeSave, Answer, AnsweredOnly
<1>6. CASE ServeLate
    <2>1. row' \in Listing
        BY <1>1, <1>6, StoredIsTyped DEF ServeLate
    <2>. QED BY <1>1, <1>6, <2>1, NothingIsTyped, AnsweredTyped DEF ServeLate, page, past, AnsweredOnly
<1>7. CASE ServeSubmit
    <2>1. row' \in Listing /\ sent' \in Form
        BY <1>1, <1>7 DEF ServeSubmit, Listing, Statuses
    <2>2. call' \in Call
        BY <1>1, <1>7, AnswerIsTyped, NothingIsTyped DEF ServeSubmit
    <2>. QED BY <1>1, <1>7, <2>1, <2>2, AnsweredTyped DEF ServeSubmit, Answer, AnsweredOnly
<1>8. CASE ServeChecklist
    <2>1. call' \in Call
        BY <1>1, <1>8, AnswerIsTyped, NothingIsTyped DEF ServeChecklist
    <2>. QED BY <1>1, <1>8, <2>1, AnsweredTyped DEF ServeChecklist, Answer, AnsweredOnly, server
<1>. QED BY <1>2, <1>3, <1>4, <1>5, <1>6, <1>7, <1>8

LEMMA FileRequestsTyped == ASSUME JoinTyped, ServeFile \/ ServeRemoval PROVE JoinTyped'
<1>1. upload \in Upload /\ row \in Listing /\ row.files \in SUBSET File /\ made \in 0..MaxFiles
    BY DEF JoinTyped, JoinTypeOK, Listing
<1>2. \A files \in SUBSET File : [row EXCEPT !.files = files] \in Listing
    BY <1>1 DEF Listing
<1>3. CASE /\ ServeFile /\ MayFile /\ Taken(upload.kind, upload.of) /\ made < MaxFiles /\ made' = made + 1
           /\ row' = [row EXCEPT !.files = Others(@, upload.kind)
                        \cup {[id |-> made', kind |-> upload.kind, of |-> upload.of]}]
           /\ upload' = [upload EXCEPT !.reply = "ok", !.id = made']
    <2>1. made' \in 1..MaxFiles /\ made' \in 0..MaxFiles
        BY <1>1, <1>3, JoinAssumption
    <2>2. upload.kind \in Kinds /\ upload.of \in 0..MaxFiles
        BY <1>1, <1>3 DEF ServeFile, Upload, JoinTyped, FileIsKnown
    <2>3. row' = [row EXCEPT !.files = Others(row.files, upload.kind)
                                        \cup {[id |-> made', kind |-> upload.kind, of |-> upload.of]}]
        BY <1>3
    <2>4. row' \in Listing
        BY <1>1, <1>2, <2>1, <2>2, <2>3, FilesLeft
    <2>5. upload' \in Upload /\ upload'.kind = upload.kind /\ upload'.id = made'
        BY <1>1, <1>3, <2>1 DEF Upload
    <2>. QED BY <1>3, <2>1, <2>2, <2>4, <2>5 DEF ServeFile, past, JoinTyped, JoinTypeOK, FileIsKnown
<1>4. CASE ServeFile /\ upload' = [upload EXCEPT !.reply = "refused"] /\ UNCHANGED <<row, made>>
    <2>1. upload' \in Upload /\ upload'.reply = "refused" /\ upload'.kind = upload.kind
        BY <1>1, <1>4 DEF Upload
    <2>2. upload # NoUpload
        BY <1>4 DEF ServeFile
    <2>. QED BY <1>4, <2>1, <2>2 DEF ServeFile, past, JoinTyped, JoinTypeOK, FileIsKnown
<1>5. CASE ServeRemoval
    <2>1. PICK r \in removals :
             \/ /\ row' = [row EXCEPT !.files = Without(@, r.id)]
                /\ removals' = (removals \ {r}) \cup {[r EXCEPT !.reply = "ok"]}
             \/ /\ removals' = (removals \ {r}) \cup {[r EXCEPT !.reply = "refused"]}
                /\ UNCHANGED row
        BY <1>5 DEF ServeRemoval
    <2>2. r \in Removal /\ removals \subseteq Removal /\ r.id \in 1..MaxFiles
        BY DEF JoinTyped, JoinTypeOK, Removal
    <2>3. [r EXCEPT !.reply = "ok"] \in Removal /\ [r EXCEPT !.reply = "refused"] \in Removal
        BY <2>2 DEF Removal
    <2>4. removals' \subseteq Removal
        BY <2>1, <2>2, <2>3
    <2>5. Without(row.files, r.id) \in SUBSET File
        BY <1>1 DEF Without
    <2>6. row' \in Listing
        BY <1>1, <1>2, <2>1, <2>5
    <2>. QED BY <1>5, <2>4, <2>6 DEF ServeRemoval, past, JoinTyped, JoinTypeOK, FileIsKnown
<1>. QED BY <1>3, <1>4, <1>5 DEF ServeFile

LEMMA LoseTyped == ASSUME JoinTyped, Lose PROVE JoinTyped'
<1>1. faults' \in 0..MaxFaults
    BY FaultTyped DEF Lose, LoseAnswer, LoseFileAnswer, LoseRemovalAnswer
<1>2. CASE LoseAnswer
    <2>1. call' \in Call
        BY <1>2, NothingIsTyped DEF LoseAnswer, JoinTyped, JoinTypeOK, Call
    <2>. QED BY <1>1, <1>2, <2>1 DEF LoseAnswer, server, JoinTyped, JoinTypeOK, FileIsKnown
<1>3. CASE LoseFileAnswer
    <2>1. upload' \in Upload /\ upload'.reply = "refused" /\ upload'.kind = upload.kind
        BY <1>3 DEF LoseFileAnswer, JoinTyped, JoinTypeOK, Upload
    <2>2. upload # NoUpload
        BY <1>3 DEF LoseFileAnswer
    <2>. QED BY <1>1, <1>3, <2>1, <2>2 DEF LoseFileAnswer, server, JoinTyped, JoinTypeOK, FileIsKnown
<1>4. CASE LoseRemovalAnswer
    <2>1. PICK r \in removals : removals' = (removals \ {r}) \cup {[r EXCEPT !.reply = "refused"]}
        BY <1>4 DEF LoseRemovalAnswer
    <2>2. r \in Removal /\ removals \subseteq Removal
        BY DEF JoinTyped, JoinTypeOK
    <2>3. [r EXCEPT !.reply = "refused"] \in Removal
        BY <2>2 DEF Removal
    <2>4. removals' \subseteq Removal
        BY <2>1, <2>2, <2>3
    <2>. QED BY <1>1, <1>4, <2>4 DEF LoseRemovalAnswer, server, JoinTyped, JoinTypeOK, FileIsKnown
<1>. QED BY <1>2, <1>3, <1>4 DEF Lose

LEMMA JoinStepTyped == ASSUME JoinTyped, [JoinNext]_joinVars PROVE JoinTyped'
<1>1. CASE Decide
    <2>1. row' \in Listing
        BY <1>1 DEF Decide, JoinTyped, JoinTypeOK, Listing, Statuses
    <2>. QED BY <1>1, <2>1, NothingIsTyped DEF Decide, page, JoinTyped, JoinTypeOK, FileIsKnown
<1>2. CASE UNCHANGED joinVars
    BY <1>2 DEF joinVars, page, server, past, JoinTyped, JoinTypeOK, FileIsKnown
<1>. QED BY <1>1, <1>2, PageLoadsTyped, ReloadTyped, SignInTyped, WriteTyped, FilesTyped,
            RequestsTyped, FileRequestsTyped, LoseTyped DEF JoinNext, Serve

\* Every variable of TrainerJoin stays in its type: what is typed, stored and sent within
\* the texts, files and codes there are, whatever order answers come in.
THEOREM JoinTypeCorrect == JoinSpec => []JoinTypeOK
<1>1. JoinInit => JoinTyped
    BY JoinInitTyped
<1>2. JoinTyped /\ [JoinNext]_joinVars => JoinTyped'
    BY JoinStepTyped
<1>3. JoinTyped => JoinTypeOK
    BY DEF JoinTyped
<1>. QED BY <1>1, <1>2, <1>3, PTL DEF JoinSpec
=============================================================================

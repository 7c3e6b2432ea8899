---------------------------- MODULE OneTimeCodes ----------------------------
(***************************************************************************)
(* One-time codes that prove a phone number: request_code and verify_code  *)
(* of backend/enquiries/otp.py.  (email_otp.py does the same with          *)
(* addresses and another table.)                                           *)
(*                                                                         *)
(* Every query is its own transaction and several requests run at once, so *)
(* a request is one step per query.  Sending the text changes no state.    *)
(***************************************************************************)
EXTENDS Naturals, FiniteSets, Sequences

CONSTANTS
    Slots,          \* requests that can be under way at once
    Phones,
    Connections,    \* IP addresses; a request may also come with none
    NoConnection,
    Purposes,       \* PhoneVerification.Purpose: what a code signs in to
    MaxCodes,       \* bound: codes issued
    MaxAttempts,    \* OTP_MAX_ATTEMPTS
    MaxPerPhone,    \* OTP_MAX_PER_PHONE_PER_DAY
    MaxPerIp        \* OTP_MAX_PER_IP_PER_DAY

\* Rows are numbered as they are made: the newest has the largest number.
Codes == 1..MaxCodes
NoCode == 0

ASSUME CodesAssumption ==
    /\ IsFiniteSet(Slots) /\ Slots # {}
    /\ Phones # {} /\ Purposes # {} /\ NoConnection \notin Connections
    /\ MaxCodes \in Nat /\ MaxAttempts \in Nat
    /\ MaxPerPhone \in Nat /\ MaxPerIp \in Nat

VARIABLES
    code,        \* the rows, in the order they were made
    req,         \* requests under way
    \* history, for the properties
    compared,    \* times a typed code was compared with each row's
    sessions     \* times each row's code proved a number to a request

vars == <<code, req, compared, sessions>>

Row == [phone : Phones, ip : Connections \cup {NoConnection}, purpose : Purposes,
        age : {"live", "expired", "old"},   \* old: made more than a day ago
        attempts : 0..MaxAttempts, verified : BOOLEAN]

Issued == DOMAIN code

Steps == {"countIp", "create", "attempt", "consume"}

\* What a request asks for, and the row it found.
Request == [at : Steps, phone : Phones, ip : Connections \cup {NoConnection},
            purpose : Purposes, of : Codes \cup {NoCode}]
Idle == [at |-> "idle"]

TypeOK ==
    /\ code \in Seq(Row) /\ Len(code) <= MaxCodes
    /\ req \in [Slots -> Request \cup {Idle}]
    /\ compared \in [Codes -> Nat]
    /\ sessions \in [Codes -> Nat]

At(s, step) == req[s].at = step

\* The request goes on to another step, or ends.
Goto(s, step) == req' = [req EXCEPT ![s].at = step]
Done(s) == req' = [req EXCEPT ![s] = Idle]

-----------------------------------------------------------------------------
(* request_code: two daily caps, then a new row.                           *)

\* The rows a daily cap counts.
Today == {c \in Issued : code[c].age # "old"}
TodayFor(phone) == {c \in Today : code[c].phone = phone}
TodayFrom(ip) == {c \in Today : code[c].ip = ip}

\* Mutant of UnderIpCap: one code more than the setting.
UpToIpCap(ip) == Cardinality(TodayFrom(ip)) <= MaxPerIp

UnderPhoneCap(phone) == Cardinality(TodayFor(phone)) < MaxPerPhone
UnderIpCap(ip) == Cardinality(TodayFrom(ip)) < MaxPerIp

CountForPhone(s, phone, ip, purpose) ==
    /\ At(s, "idle")
    /\ UnderPhoneCap(phone)
    /\ req' = [req EXCEPT ![s] = [at |-> "countIp", phone |-> phone, ip |-> ip,
                                  purpose |-> purpose, of |-> NoCode]]
    /\ UNCHANGED <<code, compared, sessions>>

CountForIp(s) ==
    /\ At(s, "countIp")
    /\ \/ /\ req[s].ip = NoConnection \/ UnderIpCap(req[s].ip)
          /\ Goto(s, "create")
       \/ /\ req[s].ip # NoConnection /\ ~UnderIpCap(req[s].ip)
          /\ Done(s)
    /\ UNCHANGED <<code, compared, sessions>>

\* A new row: no attempts yet, and not verified.
NewRow(phone, ip, purpose) ==
    [phone |-> phone, ip |-> ip, purpose |-> purpose,
     age |-> "live", attempts |-> 0, verified |-> FALSE]

Create(s) ==
    /\ At(s, "create")
    /\ Len(code) < MaxCodes
    /\ code' = Append(code, NewRow(req[s].phone, req[s].ip, req[s].purpose))
    /\ Done(s)
    /\ UNCHANGED <<compared, sessions>>

\* OTP_TTL_SECONDS, or a day, have gone by since a row was made; older rows
\* come first.
Ages(c, age) ==
    /\ c \in Issued
    /\ <<code[c].age, age>> \in {<<"live", "expired">>, <<"expired", "old">>}
    /\ \A d \in Issued : d < c => code[d].age \in {age, "old"}
    /\ code' = [code EXCEPT ![c].age = age]
    /\ UNCHANGED <<req, compared, sessions>>

-----------------------------------------------------------------------------
(* verify_code.                                                            *)

Candidates(phone, purpose) ==
    {c \in Issued : /\ code[c].phone = phone /\ code[c].purpose = purpose
                    /\ ~code[c].verified}

\* A sign-in names the challenge it was given; an enquiry has the newest.
Challenged(phone, purpose, challenge) ==
    {c \in Candidates(phone, purpose) : challenge \in {c, NoCode}}

\* Finds the row and refuses it if it has expired.
VerifyRead(s, phone, purpose, challenge) ==
    /\ At(s, "idle")
    /\ \E c \in Challenged(phone, purpose, challenge) :
        /\ \A d \in Challenged(phone, purpose, challenge) : d <= c
        /\ code[c].age = "live"
        /\ req' = [req EXCEPT ![s] = [at |-> "attempt", phone |-> phone,
                                      ip |-> NoConnection, purpose |-> purpose, of |-> c]]
    /\ UNCHANGED <<code, compared, sessions>>

\* Mutant of MayAttempt: the limit is reached one attempt later.
MayAttemptOnceMore(c) == ~code[c].verified /\ code[c].attempts <= MaxAttempts

MayAttempt(c) == ~code[c].verified /\ code[c].attempts < MaxAttempts

\* One conditional UPDATE counts the attempt; then the typed code is compared
\* with the row's: it is that code, or it is not.
Attempt(s) ==
    LET c == req[s].of
    IN  /\ At(s, "attempt")
        /\ \/ /\ MayAttempt(c)
              /\ code' = [code EXCEPT ![c].attempts = @ + 1]
              /\ compared' = [compared EXCEPT ![c] = @ + 1]
              /\ Goto(s, "consume") \/ Done(s)
           \/ /\ ~MayAttempt(c)
              /\ Done(s)
              /\ UNCHANGED <<code, compared>>
        /\ UNCHANGED sessions

\* Mutant of MayConsume: the row is not asked again.
MayConsumeAnyway(c) == c \in Issued

MayConsume(c) == ~code[c].verified

\* Another conditional UPDATE: the first to set verified_at has the session.
Consume(s) ==
    LET c == req[s].of
    IN  /\ At(s, "consume")
        /\ \/ /\ MayConsume(c)
              /\ code' = [code EXCEPT ![c].verified = TRUE]
              /\ sessions' = [sessions EXCEPT ![c] = @ + 1]
           \/ /\ ~MayConsume(c)
              /\ UNCHANGED <<code, sessions>>
        /\ Done(s)
        /\ UNCHANGED compared

-----------------------------------------------------------------------------
(* The specification.                                                      *)

\* A process can die at any step; what it had committed stays.
Crash(s) == ~At(s, "idle") /\ Done(s) /\ UNCHANGED <<code, compared, sessions>>

Init ==
    /\ code = <<>>
    /\ req = [s \in Slots |-> Idle]
    /\ compared = [c \in Codes |-> 0]
    /\ sessions = [c \in Codes |-> 0]

Begin(s) ==
    \E phone \in Phones, purpose \in Purposes :
        \/ \E ip \in Connections \cup {NoConnection} :
               CountForPhone(s, phone, ip, purpose)
        \/ \E challenge \in Codes \cup {NoCode} :
               VerifyRead(s, phone, purpose, challenge)

Continue(s) == CountForIp(s) \/ Create(s) \/ Attempt(s) \/ Consume(s)

Next ==
    \/ \E s \in Slots : Begin(s) \/ Continue(s) \/ Crash(s)
    \/ \E c \in Codes, age \in {"expired", "old"} : Ages(c, age)

Spec == Init /\ [][Next]_vars

-----------------------------------------------------------------------------
(* Properties.                                                             *)

\* However many requests bring the right code at once, one of them gets a
\* session out of it.
OneSessionPerCode == \A c \in Codes : sessions[c] <= 1

\* However guesses interleave, no code is compared with more than
\* OTP_MAX_ATTEMPTS of them.
GuessesAreLimited == \A c \in Codes : compared[c] <= MaxAttempts

\* The daily caps are counted before the row is made, in queries of their own,
\* so requests that count together overshoot them; never by more than the
\* requests that can be under way, less one.
PhoneCapHolds ==
    \A phone \in Phones :
        Cardinality(TodayFor(phone)) + 1 <= MaxPerPhone + Cardinality(Slots)

IpCapHolds ==
    \A ip \in Connections :
        Cardinality(TodayFrom(ip)) + 1 <= MaxPerIp + Cardinality(Slots)

\* Both caps hold up to that, the number's and the connection's.
CapsHold == PhoneCapHolds /\ IpCapHolds

\* A session comes of typing the very code that was made for the number and
\* for what is being signed in to, not for another number or another purpose.
SessionsAreForTheirPurpose ==
    [][\A c \in Codes :
           sessions'[c] # sessions[c] =>
               \E s \in Slots :
                   /\ At(s, "consume") /\ req[s].of = c
                   /\ req[s].phone = code[c].phone
                   /\ req[s].purpose = code[c].purpose]_vars
=============================================================================

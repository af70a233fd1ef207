------------------------- MODULE ParticipantsProofs -------------------------
(***************************************************************************)
(* Theorems about Participants, for any users, bookings, customers and any *)
(* number of calls at a time.                                              *)
(***************************************************************************)
EXTENDS Participants, TLAPS

-----------------------------------------------------------------------------
(* Types.                                                                  *)

\* Absent is neither a row nor a call.
LEMMA NullIsNothing ==
    /\ \A row \in Row : row # Absent
    /\ \A call \in TagCall : call # Absent
BY ParticipantsAssumption

\* A call on its way to the next statement stays a call.
LEMMA ContinueTyped ==
    ASSUME ParticipantsTypeOK, NEW c \in TagCaller, calls[c] # Absent,
           NEW statement \in Statement, Continue(c, statement)
    PROVE  calls' \in [TagCaller -> TagCall \cup {Absent}]
BY DEF ParticipantsTypeOK, Continue, TagCall

\* A call that returns leaves no call behind.
LEMMA ReturnTyped ==
    ASSUME ParticipantsTypeOK, NEW c \in TagCaller, EndCall(c)
    PROVE  calls' \in [TagCaller -> TagCall \cup {Absent}]
BY DEF ParticipantsTypeOK, EndCall

\* Answers turn rows into rows.
LEMMA UpdatedTyped ==
    ASSUME NEW row \in Row, NEW op \in Op \ {"Invite"}
    PROVE  /\ Updated(row, op) \in Row
           /\ Updated(row, op).status = "accepted" => Updated(row, op).responded
           /\ row.responded => Updated(row, op).responded
           /\ op = "Accept" => Updated(row, op).responded
<1>1. CASE op = "Accept"
  BY <1>1 DEF Updated, Row
<1>2. CASE op = "Decline"
  BY <1>2 DEF Updated, Row
<1>3. CASE op = "Leave"
  BY <1>3 DEF Updated, Row
<1> QED
  BY <1>1, <1>2, <1>3 DEF Op

\* A call's row and booking are rows and bookings of the tables.
LEMMA CallTyped ==
    ASSUME ParticipantsTypeOK, NEW c \in TagCaller, calls[c] # Absent
    PROVE  /\ calls[c] \in TagCall
           /\ calls[c].op \in Op
           /\ calls[c].booking \in BookingId /\ calls[c].user \in User
           /\ calls[c].late \in BOOLEAN /\ calls[c].at \in Statement
BY DEF ParticipantsTypeOK, TagCall

\* Every step keeps the types.
LEMMA TypeStep ==
    ASSUME ParticipantsInv, [ParticipantsNext]_participantVars
    PROVE  ParticipantsTypeOK'
<1> USE DEF ParticipantsInv
<1>1. ASSUME NEW c \in TagCaller, NEW op \in Op, NEW by \in User,
             NEW b \in BookingId, NEW u \in User, StartCall(c, op, by, b, u)
      PROVE  ParticipantsTypeOK'
  <2> DEFINE at   == IF op = "Invite" THEN "eligibility" ELSE "participant"
             call == [op |-> op, by |-> by, booking |-> b, user |-> u,
                      at |-> at, late |-> b \in completed]
  <2>1. at \in Statement
    BY DEF Statement
  <2>2. (b \in completed) \in BOOLEAN
    OBVIOUS
  <2>3. call \in TagCall
    <3> HIDE DEF at
    <3> QED
      BY <2>1, <2>2, Zenon DEF TagCall
  <2>4. calls' = [calls EXCEPT ![c] = call]
    BY <1>1 DEF StartCall
  <2>5. calls' \in [TagCaller -> TagCall \cup {Absent}]
    <3> HIDE DEF call
    <3> QED
      BY <2>3, <2>4 DEF ParticipantsTypeOK
  <2> QED
    BY <1>1, <2>5 DEF StartCall, ParticipantsTypeOK, tables
<1>2. ASSUME NEW c \in TagCaller,
             NEW eligible \in Eligibility,
             ResolveParticipantEligibility(c, eligible)
      PROVE  ParticipantsTypeOK'
  <2>1. calls' \in [TagCaller -> TagCall \cup {Absent}]
    BY <1>2, ContinueTyped, ReturnTyped
       DEF ResolveParticipantEligibility, CallAt, Statement
  <2> QED
    BY <1>2, <2>1 DEF ResolveParticipantEligibility, ParticipantsTypeOK, tables
<1>3. ASSUME NEW c \in TagCaller, StopCall(c)
      PROVE  ParticipantsTypeOK'
  BY <1>3, ReturnTyped DEF StopCall, ParticipantsTypeOK, tables
<1>4. ASSUME NEW c \in TagCaller, GetParticipant(c)
      PROVE  ParticipantsTypeOK'
  <2>1. calls' \in [TagCaller -> TagCall \cup {Absent}]
    BY <1>4, ContinueTyped, ReturnTyped DEF GetParticipant, CallAt, Statement
  <2> QED
    BY <1>4, <2>1 DEF GetParticipant, ParticipantsTypeOK, tables
<1>5. ASSUME NEW c \in TagCaller, GetBookingForParticipant(c)
      PROVE  ParticipantsTypeOK'
  <2>1. calls' \in [TagCaller -> TagCall \cup {Absent}]
    BY <1>5, ContinueTyped, ReturnTyped
       DEF GetBookingForParticipant, AfterBooking, CallAt, Statement
  <2> QED
    BY <1>5, <2>1 DEF GetBookingForParticipant, ParticipantsTypeOK, tables
<1>6. ASSUME NEW c \in TagCaller, Invite(c)
      PROVE  ParticipantsTypeOK'
  <2>1. calls' \in [TagCaller -> TagCall \cup {Absent}]
    BY <1>6, ContinueTyped, ReturnTyped DEF Invite, CallAt, Statement
  <2>2. [status |-> "pending", responded |-> FALSE, left |-> FALSE] \in Row
    BY DEF Row
  <2>3. calls[c].booking \in BookingId /\ calls[c].user \in User
    BY <1>6, CallTyped DEF Invite, CallAt
  <2>4. participants' \in [BookingId -> [User -> Row \cup {Absent}]]
    <3>1. CASE UNCHANGED participants
      BY <3>1 DEF ParticipantsTypeOK
    <3>2. CASE participants' = [participants EXCEPT ![calls[c].booking][calls[c].user] =
                  [status |-> "pending", responded |-> FALSE, left |-> FALSE]]
      <4> DEFINE row == [status |-> "pending", responded |-> FALSE, left |-> FALSE]
      <4>1. participants' = [participants EXCEPT ![calls[c].booking][calls[c].user] = row]
        BY <3>2
      <4> HIDE DEF row
      <4> QED
        BY <2>2, <2>3, <4>1 DEF ParticipantsTypeOK, row
    <3> QED
      BY <1>6, <3>1, <3>2 DEF Invite
  <2> QED
    BY <1>6, <2>1, <2>4 DEF Invite, ParticipantsTypeOK
<1>7. ASSUME NEW c \in TagCaller, Update(c)
      PROVE  ParticipantsTypeOK'
  <2> DEFINE row == participants[calls[c].booking][calls[c].user]
  <2>1. calls[c] # Absent /\ calls[c].op \in Op \ {"Invite"} /\ row \in Row
    BY <1>7, CallTyped DEF Update, CallIsSound, CallAt, ParticipantsTypeOK
  <2>2. Updated(row, calls[c].op) \in Row
    BY <2>1, UpdatedTyped
  <2>3. participants' \in [BookingId -> [User -> Row \cup {Absent}]]
    BY <1>7, <2>2 DEF Update, ParticipantsTypeOK
  <2>4. calls' \in [TagCaller -> TagCall \cup {Absent}]
    BY <1>7, <2>1, ContinueTyped, ReturnTyped DEF Update, Statement
  <2> QED
    BY <1>7, <2>3, <2>4 DEF Update, ParticipantsTypeOK
<1>8. ASSUME NEW c \in TagCaller, enqueueNotification(c)
      PROVE  ParticipantsTypeOK'
  <2>1. calls' \in [TagCaller -> TagCall \cup {Absent}]
    BY <1>8, ReturnTyped DEF enqueueNotification
  <2>2. calls[c] # Absent /\ calls[c].booking \in BookingId /\ calls[c].user \in User
    BY <1>8, CallTyped DEF enqueueNotification, CallAt
  <2>3. invitations' \in [BookingId -> [User -> Nat]]
    BY <1>8, <2>2 DEF enqueueNotification, ParticipantsTypeOK
  <2> QED
    BY <1>8, <2>1, <2>2, <2>3 DEF enqueueNotification, ParticipantsTypeOK
<1>9. ASSUME NEW b \in BookingId, Complete(b)
      PROVE  ParticipantsTypeOK'
  BY <1>9 DEF Complete, ParticipantsTypeOK
<1>10. CASE UNCHANGED participantVars
  BY <1>10 DEF participantVars, ParticipantsTypeOK
<1> QED
  BY <1>1, <1>2, <1>3, <1>4, <1>5, <1>6, <1>7, <1>8, <1>9, <1>10 DEF ParticipantsNext

-----------------------------------------------------------------------------
(* Calls.                                                                  *)

\* Bookings stay completed, rows stay, and an answer once given stays given.
Grows(b, u) ==
    /\ completed \subseteq completed'
    /\ participants[b][u] # Absent => participants'[b][u] # Absent
    /\ participants[b][u] # Absent /\ participants[b][u].responded
           => participants'[b][u].responded

LEMMA TablesGrow ==
    ASSUME ParticipantsInv, [ParticipantsNext]_participantVars, NEW b \in BookingId, NEW u \in User
    PROVE  Grows(b, u)
<1>1. ASSUME NEW c \in TagCaller, Invite(c)
      PROVE  Grows(b, u)
  <2>1. calls[c].booking \in BookingId /\ calls[c].user \in User
    BY <1>1, CallTyped DEF Invite, CallAt, ParticipantsInv
  <2>2. CASE UNCHANGED participants
    BY <1>1, <2>2 DEF Invite, Grows
  <2>3. CASE ~UniqueRefuses(calls[c].booking, calls[c].user)
    <3>1. participants[calls[c].booking][calls[c].user] = Absent
      BY <2>3 DEF UniqueRefuses
    <3>2. participants[b][u] # Absent => participants'[b][u] = participants[b][u]
      BY <1>1, <2>1, <2>3, <3>1 DEF Invite, ParticipantsInv, ParticipantsTypeOK
    <3> QED
      BY <1>1, <3>2 DEF Invite, Grows
  <2> QED
    BY <1>1, <2>2, <2>3 DEF Invite
<1>2. ASSUME NEW c \in TagCaller, Update(c)
      PROVE  Grows(b, u)
  <2> DEFINE row == participants[calls[c].booking][calls[c].user]
             new == Updated(row, calls[c].op)
  <2>1. /\ calls[c].booking \in BookingId /\ calls[c].user \in User
        /\ calls[c].op \in Op \ {"Invite"} /\ row \in Row
    BY <1>2, CallTyped DEF Update, CallIsSound, CallAt, ParticipantsInv, ParticipantsTypeOK
  <2>2. new # Absent /\ (row.responded => new.responded)
    BY <2>1, UpdatedTyped, NullIsNothing
  <2>3. participants' = [participants EXCEPT ![calls[c].booking][calls[c].user] = new]
    BY <1>2 DEF Update
  <2>4. \/ b = calls[c].booking /\ u = calls[c].user /\ participants'[b][u] = new
        \/ participants'[b][u] = participants[b][u]
    <3> HIDE DEF new
    <3> QED
      BY <2>1, <2>3 DEF ParticipantsInv, ParticipantsTypeOK
  <2> QED
    BY <1>2, <2>2, <2>4 DEF Update, Grows
<1>3. CASE UNCHANGED participants /\ completed \subseteq completed'
  BY <1>3 DEF Grows
<1> QED
  BY <1>1, <1>2, <1>3
     DEF ParticipantsNext, participantVars, tables, StartCall, StopCall, ResolveParticipantEligibility, GetParticipant,
         GetBookingForParticipant, enqueueNotification, Complete

\* What a call relies on stays true while it does not move.
LEMMA OthersStaySound ==
    ASSUME ParticipantsInv, [ParticipantsNext]_participantVars,
           NEW d \in TagCaller, calls[d] # Absent, calls'[d] = calls[d]
    PROVE  CallIsSound(d)'
<1>1. calls[d].booking \in BookingId /\ calls[d].user \in User
  BY CallTyped DEF ParticipantsInv
<1>2. Grows(calls[d].booking, calls[d].user)
  BY <1>1, TablesGrow
<1>3. CallIsSound(d)
  BY DEF ParticipantsInv
<1> QED
  BY <1>2, <1>3 DEF Grows, CallIsSound, CallAt

\* A call that moves finds what its next statement relies on.
LEMMA CallsStep ==
    ASSUME ParticipantsInv, [ParticipantsNext]_participantVars, NEW d \in TagCaller, calls'[d] # Absent
    PROVE  CallIsSound(d)'
<1> USE DEF ParticipantsInv
<1>1. CASE calls'[d] = calls[d]
  BY <1>1, OthersStaySound
<1>2. ASSUME NEW op \in Op, NEW by \in User, NEW b \in BookingId, NEW u \in User,
             StartCall(d, op, by, b, u)
      PROVE  CallIsSound(d)'
  <2>1. /\ calls'[d].op = op /\ calls'[d].booking = b
        /\ calls'[d].at = IF op = "Invite" THEN "eligibility" ELSE "participant"
    BY <1>2 DEF StartCall, ParticipantsTypeOK
  <2>2. calls'[d].late = (b \in completed)
    BY <1>2 DEF StartCall, ParticipantsTypeOK
  <2>3. calls'[d].late => b \in completed
    BY <2>2, Zenon
  <2> QED
    BY <1>2, <2>1, <2>3 DEF StartCall, CallIsSound, CallAt, tables
<1>3. ASSUME NEW eligible \in Eligibility,
             ResolveParticipantEligibility(d, eligible)
      PROVE  CallIsSound(d)'
  <2>1. Continue(d, "booking") /\ calls[d] # Absent
    BY <1>3 DEF ResolveParticipantEligibility, EndCall, CallAt, ParticipantsTypeOK
  <2>2. calls'[d] = [calls[d] EXCEPT !.at = "booking"]
    BY <2>1 DEF Continue, ParticipantsTypeOK
  <2> QED
    BY <1>3, <2>1, <2>2, CallTyped DEF ResolveParticipantEligibility, CallIsSound, CallAt, tables, TagCall
<1>4. CASE GetParticipant(d)
  <2> DEFINE next == IF calls[d].op = "Decline" THEN "update" ELSE "booking"
  <2>1. /\ Continue(d, next) /\ calls[d] # Absent
        /\ participants[calls[d].booking][calls[d].user] # Absent
    BY <1>4 DEF GetParticipant, EndCall, CallAt, ParticipantsTypeOK
  <2>2. calls'[d] = [calls[d] EXCEPT !.at = next]
    BY <2>1 DEF Continue, ParticipantsTypeOK
  <2> QED
    BY <1>4, <2>1, <2>2, CallTyped DEF GetParticipant, CallIsSound, CallAt, tables, TagCall
<1>5. CASE GetBookingForParticipant(d)
  <2> DEFINE next == AfterBooking(calls[d].op)
  <2>1. Continue(d, next) /\ calls[d] # Absent /\ ~Refused(calls[d])
    BY <1>5 DEF GetBookingForParticipant, EndCall, CallAt, ParticipantsTypeOK
  <2>2. calls'[d] = [calls[d] EXCEPT !.at = next]
    BY <2>1 DEF Continue, ParticipantsTypeOK
  <2> QED
    BY <1>5, <2>1, <2>2, CallTyped
       DEF GetBookingForParticipant, AfterBooking, Refused, NotTheirs, CallIsSound, CallAt, tables, TagCall
<1>6. CASE Invite(d)
  <2>1. Continue(d, "enqueue") /\ calls[d] # Absent /\ calls[d].op = "Invite"
    BY <1>6 DEF Invite, EndCall, CallAt, ParticipantsTypeOK, CallIsSound
  <2>2. calls'[d] = [calls[d] EXCEPT !.at = "enqueue"]
    BY <2>1 DEF Continue, ParticipantsTypeOK
  <2>3. calls[d].booking \in BookingId /\ calls[d].user \in User
    BY <2>1, CallTyped
  <2>4. participants'[calls[d].booking][calls[d].user] # Absent
    <3>1. CASE UniqueRefuses(calls[d].booking, calls[d].user)
      BY <1>6, <3>1 DEF Invite, UniqueRefuses
    <3>2. CASE ~UniqueRefuses(calls[d].booking, calls[d].user)
      <4> DEFINE row == [status |-> "pending", responded |-> FALSE, left |-> FALSE]
      <4>1. row # Absent
        BY NullIsNothing DEF Row
      <4>2. participants' = [participants EXCEPT ![calls[d].booking][calls[d].user] = row]
        BY <1>6, <3>2 DEF Invite
      <4> HIDE DEF row
      <4> QED
        BY <2>3, <4>1, <4>2 DEF ParticipantsTypeOK
    <3> QED
      BY <3>1, <3>2
  <2> QED
    BY <1>6, <2>1, <2>2, <2>4, CallTyped DEF Invite, CallIsSound, CallAt, TagCall
<1>7. CASE Update(d)
  <2> DEFINE row == participants[calls[d].booking][calls[d].user]
             new == Updated(row, calls[d].op)
  <2>1. Continue(d, "enqueue") /\ calls[d] # Absent /\ calls[d].op = "Accept"
    BY <1>7 DEF Update, EndCall, CallAt, ParticipantsTypeOK
  <2>2. calls'[d] = [calls[d] EXCEPT !.at = "enqueue"]
    BY <2>1 DEF Continue, ParticipantsTypeOK
  <2>3. calls[d].booking \in BookingId /\ calls[d].user \in User /\ row \in Row
    BY <1>7, <2>1, CallTyped DEF Update, CallIsSound, CallAt, ParticipantsTypeOK
  <2>4. new # Absent /\ new.responded
    BY <2>1, <2>3, UpdatedTyped, NullIsNothing DEF Op
  <2>5. participants'[calls[d].booking][calls[d].user] = new
    <3>1. participants' = [participants EXCEPT ![calls[d].booking][calls[d].user] = new]
      BY <1>7 DEF Update
    <3> HIDE DEF new
    <3> QED
      BY <2>3, <3>1 DEF ParticipantsTypeOK
  <2> QED
    BY <1>7, <2>1, <2>2, <2>4, <2>5, CallTyped DEF Update, CallIsSound, CallAt, TagCall
<1>8. CASE StopCall(d) \/ enqueueNotification(d)
  BY <1>8 DEF StopCall, enqueueNotification, EndCall, ParticipantsTypeOK
<1>9. ASSUME NEW c \in TagCaller, c # d,
             \/ \E op \in Op, by \in User, b \in BookingId, u \in User :
                    StartCall(c, op, by, b, u)
             \/ \E eligible \in Eligibility : ResolveParticipantEligibility(c, eligible)
             \/ StopCall(c) \/ GetParticipant(c) \/ GetBookingForParticipant(c)
             \/ Invite(c) \/ Update(c) \/ enqueueNotification(c)
      PROVE  calls'[d] = calls[d]
  BY <1>9 DEF StartCall, ResolveParticipantEligibility, StopCall, GetParticipant,
              GetBookingForParticipant, Invite, Update, enqueueNotification,
              Continue, EndCall, ParticipantsTypeOK
<1> QED
  BY <1>1, <1>2, <1>3, <1>4, <1>5, <1>6, <1>7, <1>8, <1>9 DEF ParticipantsNext, Complete, participantVars

-----------------------------------------------------------------------------
(* Rows and the jobs about them.                                           *)

\* A row stays sound if no call comes to tell of it and no job about it is
\* pushed, as long as it stays a row and 'accepted' comes with an answer.
LEMMA RowStaysSound ==
    ASSUME ParticipantsInv, NEW b \in BookingId, NEW u \in User,
           Telling(b, u)' \subseteq Telling(b, u),
           invitations'[b][u] = invitations[b][u],
           \/ participants'[b][u] = participants[b][u]
           \/ /\ participants[b][u] # Absent /\ participants'[b][u] # Absent
              /\ participants'[b][u].status = "accepted" => participants'[b][u].responded
    PROVE  RowIsSound(b, u)'
<1>1. RowIsSound(b, u)
  BY DEF ParticipantsInv
<1> QED
  BY <1>1 DEF RowIsSound

\* The calls about to tell of an invitation are as many or fewer when a call
\* returns, or goes on to another statement than the one that tells.
LEMMA NobodyTells ==
    ASSUME ParticipantsTypeOK, NEW c \in TagCaller, calls[c] # Absent,
           \/ EndCall(c)
           \/ \E statement \in Statement \ {"enqueue"} : Continue(c, statement)
           \/ calls[c].op # "Invite" /\ Continue(c, "enqueue"),
           NEW b \in BookingId, NEW u \in User
    PROVE  Telling(b, u)' \subseteq Telling(b, u)
<1>1. /\ calls'[c] = Absent \/ calls'[c].at # "enqueue" \/ calls'[c].op # "Invite"
      /\ \A d \in TagCaller \ {c} : calls'[d] = calls[d]
  BY CallTyped DEF ParticipantsTypeOK, EndCall, Continue, TagCall
<1> QED
  BY <1>1 DEF Telling, CallAt

\* Where there is no row no call tells of one.
LEMMA NoRowNobodyTells ==
    ASSUME ParticipantsInv, NEW b \in BookingId, NEW u \in User, participants[b][u] = Absent
    PROVE  Telling(b, u) = {}
BY DEF ParticipantsInv, Telling, CallIsSound, CallAt

\* The insert is the one step that makes a row, and its call the only one to
\* tell of it.
LEMMA InviteKeepsRows ==
    ASSUME ParticipantsInv, NEW c \in TagCaller, Invite(c), NEW b \in BookingId, NEW u \in User
    PROVE  RowIsSound(b, u)'
<1> USE DEF ParticipantsInv
<1>1. /\ calls[c] # Absent /\ calls[c].op = "Invite"
      /\ calls[c].booking \in BookingId /\ calls[c].user \in User
      /\ Customer[calls[c].booking] # calls[c].user
  BY CallTyped DEF Invite, CallAt, CallIsSound
<1>2. CASE UniqueRefuses(calls[c].booking, calls[c].user)
  <2>1. Telling(b, u)' \subseteq Telling(b, u)
    BY <1>1, <1>2, NobodyTells DEF Invite
  <2> QED
    BY <1>2, <2>1, RowStaysSound DEF Invite
<1>3. CASE ~UniqueRefuses(calls[c].booking, calls[c].user)
  <2> DEFINE row == [status |-> "pending", responded |-> FALSE, left |-> FALSE]
  <2>1. row # Absent /\ row.status # "accepted"
    BY NullIsNothing DEF Row
  <2>2. participants' = [participants EXCEPT ![calls[c].booking][calls[c].user] = row]
    BY <1>3 DEF Invite
  <2>3. /\ calls'[c] = [calls[c] EXCEPT !.at = "enqueue"]
        /\ \A d \in TagCaller \ {c} : calls'[d] = calls[d]
    BY <1>3 DEF Invite, Continue, ParticipantsTypeOK
  <2>4. CASE b = calls[c].booking /\ u = calls[c].user
    <3>1. participants[b][u] = Absent
      BY <1>3, <2>4 DEF UniqueRefuses
    <3>2. Telling(b, u) = {} /\ invitations[b][u] = 0
      BY <3>1, NoRowNobodyTells DEF RowIsSound
    <3>3. Telling(b, u)' = {c}
      <4>1. calls'[c] # Absent
        BY <1>1, <2>3, CallTyped, NullIsNothing DEF TagCall, Statement
      <4>2. c \in Telling(b, u)'
        BY <1>1, <2>3, <2>4, <4>1, CallTyped DEF Telling, CallAt, TagCall
      <4>3. \A d \in TagCaller \ {c} : d \notin Telling(b, u)'
        BY <2>3, <3>2 DEF Telling, CallAt
      <4> QED
        BY <4>2, <4>3 DEF Telling
    <3>4. participants'[b][u] = row
      <4> HIDE DEF row
      <4> QED
        BY <1>1, <2>2, <2>4 DEF ParticipantsTypeOK
    <3>5. invitations'[b][u] = 0
      BY <3>2 DEF Invite
    <3> HIDE DEF row
    <3> QED
      BY <1>1, <2>1, <2>4, <3>3, <3>4, <3>5 DEF RowIsSound
  <2>5. CASE ~(b = calls[c].booking /\ u = calls[c].user)
    <3>1. participants'[b][u] = participants[b][u]
      <4> HIDE DEF row
      <4> QED
        BY <1>1, <2>2, <2>5 DEF ParticipantsTypeOK
    <3>2. Telling(b, u)' \subseteq Telling(b, u)
      BY <1>1, <2>3, <2>5, CallTyped DEF Telling, CallAt, TagCall
    <3> QED
      BY <3>1, <3>2, RowStaysSound DEF Invite
  <2> QED
    BY <2>4, <2>5
<1> QED
  BY <1>2, <1>3

\* An answer changes a row that is there, and tells nobody of an invitation.
LEMMA UpdateKeepsRows ==
    ASSUME ParticipantsInv, NEW c \in TagCaller, Update(c), NEW b \in BookingId, NEW u \in User
    PROVE  RowIsSound(b, u)'
<1> USE DEF ParticipantsInv
<1> DEFINE row == participants[calls[c].booking][calls[c].user]
           new == Updated(row, calls[c].op)
<1>1. /\ calls[c] # Absent /\ calls[c].op \in Op \ {"Invite"}
      /\ calls[c].booking \in BookingId /\ calls[c].user \in User /\ row \in Row
  BY CallTyped DEF Update, CallIsSound, CallAt, ParticipantsTypeOK
<1>2. new # Absent /\ (new.status = "accepted" => new.responded)
  BY <1>1, UpdatedTyped, NullIsNothing
<1>3. participants' = [participants EXCEPT ![calls[c].booking][calls[c].user] = new]
  BY DEF Update
<1>4. \/ participants'[b][u] = participants[b][u]
      \/ participants[b][u] = row /\ participants'[b][u] = new
  <2> HIDE DEF new
  <2> QED
    BY <1>1, <1>3 DEF ParticipantsTypeOK
<1>5. Telling(b, u)' \subseteq Telling(b, u)
  BY <1>1, NobodyTells DEF Update
<1>6. row # Absent
  BY <1>1, NullIsNothing
<1>7. invitations'[b][u] = invitations[b][u]
  BY DEF Update
<1> HIDE DEF new, row
<1> QED
  BY <1>2, <1>4, <1>5, <1>6, <1>7, RowStaysSound

\* A job about an invitation is pushed by the only call that had it to tell.
LEMMA EnqueueKeepsRows ==
    ASSUME ParticipantsInv, NEW c \in TagCaller, enqueueNotification(c),
           NEW b \in BookingId, NEW u \in User
    PROVE  RowIsSound(b, u)'
<1> USE DEF ParticipantsInv
<1>1. /\ calls[c] # Absent
      /\ calls[c].booking \in BookingId /\ calls[c].user \in User
  BY CallTyped DEF enqueueNotification, CallAt
<1>2. Telling(b, u)' \subseteq Telling(b, u)
  BY <1>1, NobodyTells DEF enqueueNotification
<1>3. CASE c \in Telling(b, u)
  <2>1. Telling(b, u) = {c} /\ invitations[b][u] = 0 /\ participants[b][u] # Absent
    BY <1>3 DEF RowIsSound, Telling, CallIsSound, CallAt
  <2>2. calls'[c] = Absent
    BY DEF enqueueNotification, EndCall, ParticipantsTypeOK
  <2>3. Telling(b, u)' = {}
    BY <1>2, <2>1, <2>2 DEF Telling, CallAt
  <2>4. invitations'[b][u] = 1
    BY <1>1, <1>3, <2>1 DEF enqueueNotification, Telling, ParticipantsTypeOK
  <2>5. RowIsSound(b, u) /\ participants' = participants
    BY DEF enqueueNotification
  <2> QED
    BY <2>1, <2>3, <2>4, <2>5 DEF RowIsSound
<1>4. CASE c \notin Telling(b, u)
  <2>1. invitations'[b][u] = invitations[b][u]
    BY <1>1, <1>4 DEF enqueueNotification, Telling, CallAt, ParticipantsTypeOK
  <2> QED
    BY <1>2, <2>1, RowStaysSound DEF enqueueNotification
<1> QED
  BY <1>3, <1>4

\* Every step keeps every row sound.
LEMMA RowsStep ==
    ASSUME ParticipantsInv, [ParticipantsNext]_participantVars, NEW b \in BookingId, NEW u \in User
    PROVE  RowIsSound(b, u)'
<1> USE DEF ParticipantsInv
<1>1. ASSUME UNCHANGED tables, Telling(b, u)' \subseteq Telling(b, u)
      PROVE  RowIsSound(b, u)'
  BY <1>1, RowStaysSound DEF tables
<1>2. ASSUME NEW c \in TagCaller, NEW op \in Op, NEW by \in User,
             NEW x \in BookingId, NEW v \in User, StartCall(c, op, by, x, v)
      PROVE  RowIsSound(b, u)'
  <2>1. /\ calls'[c].at # "enqueue"
        /\ \A d \in TagCaller \ {c} : calls'[d] = calls[d]
    BY <1>2 DEF StartCall, ParticipantsTypeOK
  <2> QED
    BY <1>1, <1>2, <2>1 DEF StartCall, Telling, CallAt
<1>3. ASSUME NEW c \in TagCaller, NEW eligible \in Eligibility,
             ResolveParticipantEligibility(c, eligible)
      PROVE  RowIsSound(b, u)'
  <2>1. Telling(b, u)' \subseteq Telling(b, u)
    BY <1>3, NobodyTells DEF ResolveParticipantEligibility, CallAt, Statement
  <2> QED
    BY <1>1, <1>3, <2>1 DEF ResolveParticipantEligibility
<1>4. ASSUME NEW c \in TagCaller, StopCall(c)
      PROVE  RowIsSound(b, u)'
  BY <1>1, <1>4, NobodyTells DEF StopCall
<1>5. ASSUME NEW c \in TagCaller, GetParticipant(c)
      PROVE  RowIsSound(b, u)'
  <2>1. Telling(b, u)' \subseteq Telling(b, u)
    BY <1>5, NobodyTells DEF GetParticipant, CallAt, Statement
  <2> QED
    BY <1>1, <1>5, <2>1 DEF GetParticipant
<1>6. ASSUME NEW c \in TagCaller, GetBookingForParticipant(c)
      PROVE  RowIsSound(b, u)'
  <2>1. Telling(b, u)' \subseteq Telling(b, u)
    BY <1>6, NobodyTells DEF GetBookingForParticipant, AfterBooking, CallAt, Statement
  <2> QED
    BY <1>1, <1>6, <2>1 DEF GetBookingForParticipant
<1>7. ASSUME NEW x \in BookingId, Complete(x)
      PROVE  RowIsSound(b, u)'
  <2>1. RowIsSound(b, u)
    OBVIOUS
  <2> QED
    BY <1>7, <2>1 DEF Complete, RowIsSound, Telling, CallAt
<1>8. CASE UNCHANGED participantVars
  <2>1. RowIsSound(b, u)
    OBVIOUS
  <2> QED
    BY <1>8, <2>1 DEF participantVars, RowIsSound, Telling, CallAt
<1> QED
  BY <1>2, <1>3, <1>4, <1>5, <1>6, <1>7, <1>8, InviteKeepsRows, UpdateKeepsRows,
     EnqueueKeepsRows DEF ParticipantsNext

\* A customer told of an acceptance has somebody who answered.
LEMMA AcceptancesStep ==
    ASSUME ParticipantsInv, [ParticipantsNext]_participantVars, NEW b \in acceptances'
    PROVE  \E u \in User : participants'[b][u] # Absent /\ participants'[b][u].responded
<1> USE DEF ParticipantsInv
<1>1. ASSUME b \in acceptances
      PROVE  \E u \in User : participants'[b][u] # Absent /\ participants'[b][u].responded
  <2>1. PICK u \in User : participants[b][u] # Absent /\ participants[b][u].responded
    BY <1>1
  <2>2. Grows(b, u)
    BY <1>1, TablesGrow DEF ParticipantsTypeOK
  <2> QED
    BY <2>1, <2>2 DEF Grows
<1>2. ASSUME NEW c \in TagCaller, enqueueNotification(c), b \notin acceptances
      PROVE  \E u \in User : participants'[b][u] # Absent /\ participants'[b][u].responded
  <2>1. calls[c] # Absent /\ calls[c].op # "Invite" /\ b = calls[c].booking
    BY <1>2 DEF enqueueNotification, CallAt
  <2>2. /\ calls[c].user \in User
        /\ participants[b][calls[c].user] # Absent /\ participants[b][calls[c].user].responded
    BY <1>2, <2>1, CallTyped DEF enqueueNotification, CallIsSound, CallAt
  <2> QED
    BY <1>2, <2>2 DEF enqueueNotification
<1> QED
  BY <1>1, <1>2
     DEF ParticipantsNext, participantVars, tables, StartCall, StopCall, ResolveParticipantEligibility, GetParticipant,
         GetBookingForParticipant, Invite, Update, Complete

-----------------------------------------------------------------------------
(* The theorems.                                                           *)

LEMMA InitSound == ParticipantsInit => ParticipantsInv
<1> SUFFICES ASSUME ParticipantsInit
             PROVE  ParticipantsInv
  OBVIOUS
<1>1. ParticipantsTypeOK
  BY DEF ParticipantsInit, ParticipantsTypeOK
<1>2. \A b \in BookingId, u \in User : Telling(b, u) = {}
  BY DEF ParticipantsInit, Telling, CallAt
<1>3. \A b \in BookingId, u \in User : RowIsSound(b, u)
  BY <1>2 DEF ParticipantsInit, RowIsSound
<1> QED
  BY <1>1, <1>3 DEF ParticipantsInit, ParticipantsInv

LEMMA InvStep == ParticipantsInv /\ [ParticipantsNext]_participantVars => ParticipantsInv'
<1> SUFFICES ASSUME ParticipantsInv, [ParticipantsNext]_participantVars
             PROVE  ParticipantsInv'
  OBVIOUS
<1>1. ParticipantsTypeOK'
  BY TypeStep
<1>2. \A c \in TagCaller : calls'[c] # Absent => CallIsSound(c)'
  BY CallsStep
<1>3. \A b \in BookingId, u \in User : RowIsSound(b, u)'
  BY RowsStep
<1>4. \A b \in acceptances' : \E u \in User :
          participants'[b][u] # Absent /\ participants'[b][u].responded
  BY AcceptancesStep
<1> QED
  BY <1>1, <1>2, <1>3, <1>4 DEF ParticipantsInv

\* The invariant the others follow from.
THEOREM ParticipantsInvariant == ParticipantsSpec => []ParticipantsInv
BY InitSound, InvStep, PTL DEF ParticipantsSpec

\* However many users and calls, the tables hold rows of the right types.
THEOREM ParticipantsTyped == ParticipantsSpec => []ParticipantsTypeOK
<1>1. ParticipantsInv => ParticipantsTypeOK
  BY DEF ParticipantsInv
<1> QED
  BY <1>1, ParticipantsInvariant, PTL

\* The two halves of the history query always agree, and nobody is in their
\* own history: the customer of a booking is never a participant of it.
THEOREM HistoryIsMutual == ParticipantsSpec => []BookedWithMutual
<1>1. ASSUME ParticipantsInv
      PROVE  BookedWithMutual
  <2>1. ASSUME NEW u \in User, NEW v \in User
        PROVE  v \in GuestsOf(u) <=> u \in HostsOf(v)
    BY <1>1 DEF GuestsOf, HostsOf, ParticipantsInv, ParticipantsTypeOK
  <2>2. ASSUME NEW u \in User
        PROVE  u \notin GuestsOf(u)
    BY <1>1, ParticipantsAssumption
       DEF GuestsOf, ParticipantsInv, ParticipantsTypeOK, RowIsSound
  <2> QED
    BY <2>1, <2>2 DEF BookedWithMutual, BookedWith
<1> QED
  BY <1>1, ParticipantsInvariant, PTL

\* Behind every pair of the history is a completed booking whose guest said
\* yes and did not leave, however the calls were interleaved.
THEOREM HistoryAgreedUpon == ParticipantsSpec => []HistoryIsAgreed
<1>1. ASSUME ParticipantsInv
      PROVE  HistoryIsAgreed
  <2> SUFFICES ASSUME NEW u \in User, NEW v \in User, v \in BookedWith(u)
               PROVE  \E b \in completed, guest \in {u, v} :
                         /\ {u, v} = {Customer[b], guest}
                         /\ participants[b][guest] # Absent
                         /\ participants[b][guest].responded
                         /\ ~participants[b][guest].left
    BY DEF HistoryIsAgreed
  <2>1. \E b \in completed, guest \in {u, v} :
            /\ {u, v} = {Customer[b], guest}
            /\ participants[b][guest] # Absent
            /\ participants[b][guest].status = "accepted"
            /\ ~participants[b][guest].left
    BY DEF BookedWith, GuestsOf, HostsOf
  <2>2. PICK b \in completed, guest \in {u, v} :
            /\ {u, v} = {Customer[b], guest}
            /\ participants[b][guest] # Absent
            /\ participants[b][guest].status = "accepted"
            /\ ~participants[b][guest].left
    BY <2>1
  <2>3. RowIsSound(b, guest)
    BY <1>1 DEF ParticipantsInv, ParticipantsTypeOK
  <2>4. participants[b][guest].responded
    BY <2>2, <2>3 DEF RowIsSound
  <2> QED
    BY <2>2, <2>4
<1> QED
  BY <1>1, ParticipantsInvariant, PTL

\* Nobody is told twice of an invitation to the same booking.
THEOREM InvitedAtMostOnce == ParticipantsSpec => []InvitedOnce
<1>1. ParticipantsInv => InvitedOnce
  BY DEF ParticipantsInv, RowIsSound, InvitedOnce
<1> QED
  BY <1>1, ParticipantsInvariant, PTL

\* No job is pushed before the row it tells of.
THEOREM AnnouncedIsTrue == ParticipantsSpec => []OnlyTruthIsAnnounced
<1>1. ParticipantsInv => OnlyTruthIsAnnounced
  BY DEF ParticipantsInv, RowIsSound, OnlyTruthIsAnnounced
<1> QED
  BY <1>1, ParticipantsInvariant, PTL

\* After the completion only calls begun before it, and Decline, change rows.
THEOREM ClosedOnceCompleted == ParticipantsSpec => CompletedIsClosed
<1> DEFINE Closed ==
        \A b \in completed, u \in User :
            participants'[b][u] # participants[b][u] =>
                \E c \in TagCaller :
                    /\ calls[c] # Absent /\ calls'[c] # calls[c]
                    /\ calls[c].booking = b /\ calls[c].user = u
                    /\ calls[c].op = "Decline" \/ ~calls[c].late
<1>1. ASSUME ParticipantsInv, [ParticipantsNext]_participantVars
      PROVE  Closed
  <2> SUFFICES ASSUME NEW b \in completed, NEW u \in User,
                      participants'[b][u] # participants[b][u]
               PROVE  \E c \in TagCaller :
                          /\ calls[c] # Absent /\ calls'[c] # calls[c]
                          /\ calls[c].booking = b /\ calls[c].user = u
                          /\ calls[c].op = "Decline" \/ ~calls[c].late
    OBVIOUS
  <2>1. PICK c \in TagCaller : Invite(c) \/ Update(c)
    BY <1>1 DEF ParticipantsNext, participantVars, tables, StartCall, StopCall, ResolveParticipantEligibility,
                GetParticipant, GetBookingForParticipant, enqueueNotification, Complete
  <2>2. /\ calls[c] # Absent /\ CallIsSound(c)
        /\ calls[c].booking \in BookingId /\ calls[c].user \in User
    BY <1>1, <2>1, CallTyped DEF Invite, Update, CallAt, ParticipantsInv
  <2>3. calls'[c] # calls[c]
    BY <1>1, <2>1, <2>2, CallTyped
       DEF Invite, Update, EndCall, Continue, CallAt, ParticipantsInv, ParticipantsTypeOK, TagCall
  <2>4. calls[c].op = "Decline" \/ ~calls[c].late
    BY <2>1, <2>2 DEF Invite, Update, CallIsSound, CallAt
  <2>5. \A x \in BookingId, v \in User :
            participants'[x][v] # participants[x][v] =>
                calls[c].booking = x /\ calls[c].user = v
    <3>1. PICK row : \/ UNCHANGED participants
                     \/ participants' = [participants EXCEPT
                            ![calls[c].booking][calls[c].user] = row]
      BY <2>1 DEF Invite, Update
    <3> QED
      BY <1>1, <2>2, <3>1 DEF ParticipantsInv, ParticipantsTypeOK
  <2> QED
    BY <1>1, <2>2, <2>3, <2>4, <2>5 DEF ParticipantsInv, ParticipantsTypeOK
<1>2. ParticipantsInv /\ [ParticipantsNext]_participantVars => [Closed]_participantVars
  BY <1>1
<1>3. CompletedIsClosed <=> [][Closed]_participantVars
  BY PTL DEF CompletedIsClosed
<1> QED
  BY <1>2, <1>3, ParticipantsInvariant, PTL DEF ParticipantsSpec

=============================================================================

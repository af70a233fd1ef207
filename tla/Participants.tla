---------------------------- MODULE Participants ----------------------------
(***************************************************************************)
(* internal/participants: the customer of a booking tags other users on    *)
(* it, and they accept, decline or leave.                                  *)
(*                                                                         *)
(* Every call is a row of statements without a transaction; other calls,   *)
(* of the same user too, run between any two of them, and a call whose     *)
(* client goes away stops where it is.  What a call has read it does not   *)
(* read again.                                                             *)
(*                                                                         *)
(* External: the step of a booking to 'completed', which this code asks    *)
(* for and no code of the repository takes yet, and the three columns      *)
(* allows_participants, which owners and administrators set: every reading *)
(* of them may give anything.  No other status of a booking matters here.  *)
(***************************************************************************)
EXTENDS Integers

CONSTANTS
    User,
    BookingId,
    Customer,   \* bookings.customer_id, which no statement changes
    TagCaller,  \* calls that may be under way at a time
    Absent

Op == {"Invite", "Accept", "Decline", "Leave"}

\* The statement a call is about to run.
Statement == {"eligibility", "participant", "booking", "insert", "update", "enqueue"}

\* A row of booking_participants: responded_at and left_at are set or not.
Row == [status: {"pending", "accepted", "declined", "left"},
        responded: BOOLEAN, left: BOOLEAN]

\* user: whose row it is about.  late, which no statement reads, says whether
\* the booking was completed before the call began.
TagCall == [op: Op, by: User, booking: BookingId, user: User,
         at: Statement, late: BOOLEAN]

ASSUME ParticipantsAssumption ==
    /\ Customer \in [BookingId -> User]
    /\ Absent \notin Row \cup TagCall \cup BOOLEAN

VARIABLES
    completed,     \* bookings with status 'completed'
    participants,  \* the row of a booking and a user, or Absent
    invitations,   \* jobs pushed that tell a user of an invitation, counted
    acceptances,   \* bookings whose customer was sent a job about an acceptance
    calls

tables          == <<completed, participants, invitations, acceptances>>
participantVars == <<completed, participants, invitations, acceptances, calls>>

ParticipantsTypeOK ==
    /\ completed \subseteq BookingId
    /\ participants \in [BookingId -> [User -> Row \cup {Absent}]]
    /\ invitations \in [BookingId -> [User -> Nat]]
    /\ acceptances \subseteq BookingId
    /\ calls \in [TagCaller -> TagCall \cup {Absent}]

ParticipantsInit ==
    /\ completed = {}
    /\ participants = [b \in BookingId |-> [u \in User |-> Absent]]
    /\ invitations = [b \in BookingId |-> [u \in User |-> 0]]
    /\ acceptances = {}
    /\ calls = [c \in TagCaller |-> Absent]

-----------------------------------------------------------------------------
(* Calls.                                                                  *)

\* The caller of Invite is anybody and names anybody; of the other calls the
\* handler makes sure that callers speak for themselves.
StartCall(c, op, by, b, u) ==
    /\ calls[c] = Absent
    /\ op # "Invite" => by = u
    /\ calls' = [calls EXCEPT
           ![c] = [op |-> op, by |-> by, booking |-> b, user |-> u,
                   at |-> IF op = "Invite" THEN "eligibility" ELSE "participant",
                   late |-> b \in completed]]
    /\ UNCHANGED tables

CallAt(c, statement) == calls[c] # Absent /\ calls[c].at = statement

Continue(c, statement) == calls' = [calls EXCEPT ![c].at = statement]

EndCall(c) == calls' = [calls EXCEPT ![c] = Absent]

\* An error of the database, or the request's context is cancelled.
StopCall(c) ==
    /\ calls[c] # Absent
    /\ EndCall(c)
    /\ UNCHANGED tables

-----------------------------------------------------------------------------
(* Statements.                                                             *)

\* The first of the three columns that is set, or no.
resolveEligibility(service, category, parent) ==
    \/ service = TRUE
    \/ service = Absent /\ category = TRUE
    \/ service = Absent /\ category = Absent /\ parent = TRUE

\* What it may come to, whatever the three columns say.
Eligibility == {resolveEligibility(s, k, p) : s, k, p \in BOOLEAN \cup {Absent}}

ResolveParticipantEligibility(c, eligible) ==
    /\ CallAt(c, "eligibility")
    /\ IF eligible
       THEN Continue(c, "booking")
       ELSE EndCall(c)
    /\ UNCHANGED tables

GetParticipant(c) ==
    /\ CallAt(c, "participant")
    /\ IF participants[calls[c].booking][calls[c].user] = Absent THEN EndCall(c)
       ELSE Continue(c, IF calls[c].op = "Decline" THEN "update" ELSE "booking")
    /\ UNCHANGED tables

\* The checks that follow the reading of the booking.
NotTheirs(call) ==
    Customer[call.booking] # call.by \/ Customer[call.booking] = call.user

RefusedToInvite(call) ==
    call.op = "Invite" /\ (call.booking \in completed \/ NotTheirs(call))

Refused(call) ==
    call.booking \in completed \/ (call.op = "Invite" /\ NotTheirs(call))

\* The customer is told, and the answer forgotten.
AfterBookingForgets(op) ==
    CASE op = "Invite" -> "insert" [] op = "Accept" -> "enqueue" [] op = "Leave" -> "update"

AfterBooking(op) == IF op = "Invite" THEN "insert" ELSE "update"

GetBookingForParticipant(c) ==
    /\ CallAt(c, "booking")
    /\ IF Refused(calls[c]) THEN EndCall(c)
       ELSE Continue(c, AfterBooking(calls[c].op))
    /\ UNCHANGED tables

NoConstraint(b, u) == FALSE

\* UNIQUE (booking_id, user_id).
UniqueRefuses(b, u) == participants[b][u] # Absent

Invite(c) ==
    LET b == calls[c].booking
        u == calls[c].user
    IN  /\ CallAt(c, "insert")
        /\ IF UniqueRefuses(b, u)
           THEN EndCall(c) /\ UNCHANGED participants
           ELSE /\ participants' = [participants EXCEPT
                       ![b][u] = [status |-> "pending", responded |-> FALSE, left |-> FALSE]]
                /\ Continue(c, "enqueue")
        /\ UNCHANGED <<completed, invitations, acceptances>>

UpdatedWithOp(row, op) == [row EXCEPT !.status = op]

\* What Accept, Decline and Leave make of a row, whatever it says.
Updated(row, op) ==
    CASE op = "Accept"  -> [row EXCEPT !.status = "accepted", !.responded = TRUE]
      [] op = "Decline" -> [row EXCEPT !.status = "declined", !.responded = TRUE]
      [] op = "Leave"   -> [row EXCEPT !.status = "left", !.left = TRUE]

Update(c) ==
    LET call == calls[c] IN
    /\ CallAt(c, "update")
    /\ participants' = [participants EXCEPT
           ![call.booking][call.user] = Updated(@, call.op)]
    /\ IF call.op = "Accept" THEN Continue(c, "enqueue") ELSE EndCall(c)
    /\ UNCHANGED <<completed, invitations, acceptances>>

\* The job for the user invited, or for the customer; StopCall is a push that
\* fails, whose error is dropped.
enqueueNotification(c) ==
    LET call == calls[c] IN
    /\ CallAt(c, "enqueue")
    /\ IF call.op = "Invite"
       THEN /\ invitations' = [invitations EXCEPT ![call.booking][call.user] = @ + 1]
            /\ UNCHANGED acceptances
       ELSE /\ acceptances' = acceptances \cup {call.booking}
            /\ UNCHANGED invitations
    /\ EndCall(c)
    /\ UNCHANGED <<completed, participants>>

Complete(b) ==
    /\ completed' = completed \cup {b}
    /\ UNCHANGED <<participants, invitations, acceptances, calls>>

-----------------------------------------------------------------------------
ParticipantsNext ==
    \/ \E c \in TagCaller, op \in Op, by \in User, b \in BookingId, u \in User :
           StartCall(c, op, by, b, u)
    \/ \E c \in TagCaller, eligible \in Eligibility :
           ResolveParticipantEligibility(c, eligible)
    \/ \E c \in TagCaller :
           \/ StopCall(c) \/ GetParticipant(c) \/ GetBookingForParticipant(c)
           \/ Invite(c) \/ Update(c) \/ enqueueNotification(c)
    \/ \E b \in BookingId : Complete(b)

ParticipantsSpec == ParticipantsInit /\ [][ParticipantsNext]_participantVars

-----------------------------------------------------------------------------
(* The history of who booked with whom.                                    *)

GuestsWhoeverLeft(u) ==
    {v \in User : \E b \in completed :
        Customer[b] = u /\ participants[b][v] # Absent
                        /\ participants[b][v].status = "accepted"}

\* One half of the query: who accepted to take part in bookings of u.
GuestsOf(u) ==
    {v \in User : \E b \in completed :
        Customer[b] = u /\ participants[b][v] # Absent
                        /\ participants[b][v].status = "accepted"
                        /\ ~participants[b][v].left}

HostsAskedFor(u) ==
    {Customer[b] : b \in {x \in completed : participants[x][u] # Absent}}

\* The other: the customers of the bookings in which u takes part.
HostsOf(u) ==
    {Customer[b] : b \in
        {x \in completed : /\ participants[x][u] # Absent
                           /\ participants[x][u].status = "accepted"
                           /\ ~participants[x][u].left}}

BookedWith(u) == GuestsOf(u) \cup HostsOf(u)

-----------------------------------------------------------------------------
(* Properties.                                                             *)

\* Whoever a user has booked with has booked with that user: the two halves of
\* the query, each with conditions of its own, agree on what counts.  And nobody
\* has booked with themselves, whatever was invited, accepted or left.
BookedWithMutual ==
    \A u, v \in User :
        /\ v \in BookedWith(u) <=> u \in BookedWith(v)
        /\ u \notin BookedWith(u)

\* Only agreed participation counts: behind any two users who have booked with
\* each other there is a completed booking of one of them, on which the other
\* has answered an invitation and which they have never left, not even to
\* accept it again later, or while the call to leave was under way.
HistoryIsAgreed ==
    \A u, v \in User : v \in BookedWith(u) =>
        \E b \in completed, guest \in {u, v} :
            /\ {u, v} = {Customer[b], guest}
            /\ participants[b][guest] # Absent
            /\ participants[b][guest].responded
            /\ ~participants[b][guest].left

\* Once a booking is completed only a call that was under way before can still
\* invite somebody, accept or leave: who asks later is refused.  Decline is
\* the exception, it never asks.
CompletedIsClosed ==
    [][\A b \in completed, u \in User :
         participants'[b][u] # participants[b][u] =>
             \E c \in TagCaller :
                 /\ calls[c] # Absent /\ calls'[c] # calls[c]
                 /\ calls[c].booking = b /\ calls[c].user = u
                 /\ calls[c].op = "Decline" \/ ~calls[c].late]_participantVars

\* However many calls invite a user to a booking, one of them at most tells
\* the user so: the others lose against the UNIQUE constraint.
InvitedOnce ==
    \A b \in BookingId, u \in User : invitations[b][u] <= 1

\* No job runs ahead of the row it is about: a user told of an invitation has
\* one, and a customer told of an acceptance has a participant who answered.
OnlyTruthIsAnnounced ==
    /\ \A b \in BookingId, u \in User :
           invitations[b][u] > 0 => participants[b][u] # Absent
    /\ \A b \in acceptances : \E u \in User :
           participants[b][u] # Absent /\ participants[b][u].responded

\* What the statements still to come of a call may rely on, as rows are never
\* deleted and bookings stay completed.
CallIsSound(c) ==
    LET op  == calls[c].op
        row == participants[calls[c].booking][calls[c].user]
    IN  /\ calls[c].late => calls[c].booking \in completed
        /\ CallAt(c, "eligibility") => op = "Invite"
        /\ CallAt(c, "participant") => op # "Invite"
        /\ CallAt(c, "booking") => op # "Decline" /\ (op # "Invite" => row # Absent)
        /\ CallAt(c, "insert") =>
              op = "Invite" /\ ~calls[c].late /\ Customer[calls[c].booking] # calls[c].user
        /\ CallAt(c, "update") =>
              op # "Invite" /\ row # Absent /\ (op # "Decline" => ~calls[c].late)
        /\ CallAt(c, "enqueue") =>
              op \in {"Invite", "Accept"} /\ row # Absent /\ (op = "Accept" => row.responded)

\* The calls about to tell u of an invitation to b.
Telling(b, u) ==
    {c \in TagCaller : /\ CallAt(c, "enqueue") /\ calls[c].op = "Invite"
                       /\ calls[c].booking = b /\ calls[c].user = u}

RowIsSound(b, u) ==
    LET row == participants[b][u] IN
    /\ row # Absent => u # Customer[b] /\ (row.status = "accepted" => row.responded)
    /\ row = Absent => invitations[b][u] = 0
    /\ invitations[b][u] <= 1
    /\ Telling(b, u) # {} => invitations[b][u] = 0
    /\ \A c, d \in Telling(b, u) : c = d

\* What keeps all of them from step to step.
ParticipantsInv ==
    /\ ParticipantsTypeOK
    /\ \A c \in TagCaller : calls[c] # Absent => CallIsSound(c)
    /\ \A b \in BookingId, u \in User : RowIsSound(b, u)
    /\ \A b \in acceptances : \E u \in User :
           participants[b][u] # Absent /\ participants[b][u].responded
=============================================================================

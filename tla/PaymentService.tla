--------------------------- MODULE PaymentService ---------------------------
(***************************************************************************)
(* The payment service of internal/payments, one statement or gateway call *)
(* at a time.                                                              *)
(*                                                                         *)
(* The service talks to two parties that share no transaction: PostgreSQL, *)
(* which holds payment_intents, refunds and webhook_events, and PayMongo,  *)
(* which holds the money.  Every call asks one and then tells the other,   *)
(* and may stop in between.  Nothing in the repository calls Capture, Void *)
(* and Refund yet, so they may come in any order, any number of times, and *)
(* at the same time.                                                       *)
(*                                                                         *)
(* PayMongo is external.  The client of paymongo.go is a stub that accepts *)
(* everything; the service handles errors, so a request may also be        *)
(* refused.  PayMongo sends payment.paid for money it has taken, and may   *)
(* send it again; webhooks with a false signature change nothing.          *)
(***************************************************************************)
EXTENDS Naturals, FiniteSets

CONSTANTS
    Caller,      \* requests and webhooks served at the same time
    Booking,     \* bookings to be paid
    PaymentId,   \* paymongo ids, one for each row of payment_intents
    MaxRefunds,  \* bound on refunds per payment
    Null

VARIABLES
    intents,     \* payment_intents
    refunds,     \* rows of refunds, per payment
    processed,   \* webhook_events: paymongo ids of the events recorded
    gateway,     \* what PayMongo was asked for and did
    call         \* call[c]: what c is doing, or Null

records == <<intents, refunds, processed>>
vars == <<intents, refunds, processed, gateway, call>>

Method == {"card", "wallet"}

\* A wallet has no authorization hold: its money is taken at once.
MethodType(method) == IF method = "wallet" THEN "immediate_capture" ELSE "auth_capture"

Status == {"authorized", "captured", "voided", "refunded"}

Intent == [booking: Booking, type: {"auth_capture", "immediate_capture"}, status: Status]

\* method: what PayMongo was told to charge.  taken, released: whether the
\* money was taken, or the hold released, at some time.  refunds: how often it
\* was paid back.
Account == [method: Method, taken: BOOLEAN, released: BOOLEAN, refunds: 0..MaxRefunds]

Call == [op: {"CreateIntent", "HandleWebhook", "CapturePayment", "VoidPayment",
              "RefundPayment"},
         at: {"insert", "mark", "find", "gateway", "again", "record", "update"},
         booking: Booking \cup {Null},
         id: PaymentId]

ASSUME PaymentAssumption ==
    /\ IsFiniteSet(Caller)
    /\ MaxRefunds \in Nat
    /\ Null \notin Intent \cup Account \cup Call \cup Booking

TypeOK ==
    /\ intents \in [PaymentId -> Intent \cup {Null}]
    /\ refunds \in [PaymentId -> 0..MaxRefunds]
    /\ processed \subseteq PaymentId
    /\ gateway \in [PaymentId -> Account \cup {Null}]
    /\ call \in [Caller -> Call \cup {Null}]

Init ==
    /\ intents = [p \in PaymentId |-> Null]
    /\ refunds = [p \in PaymentId |-> 0]
    /\ processed = {}
    /\ gateway = [p \in PaymentId |-> Null]
    /\ call = [c \in Caller |-> Null]

-----------------------------------------------------------------------------
(* Control.                                                                *)

At(c, op, at) == call[c] # Null /\ call[c].op = op /\ call[c].at = at

Begin(c, op, at, booking, id) ==
    /\ call[c] = Null
    /\ call' = [call EXCEPT ![c] = [op |-> op, at |-> at, booking |-> booking, id |-> id]]

Goto(c, at) == call' = [call EXCEPT ![c].at = at]

Return(c) == call' = [call EXCEPT ![c] = Null]

\* Between any two steps, when the client is gone or the database fails.
Abort(c) ==
    /\ call[c] # Null
    /\ Return(c)
    /\ UNCHANGED <<records, gateway>>

UpdateStatus(p, status) == intents' = [intents EXCEPT ![p].status = status]

\* GetByBookingID returns a row of the booking, whichever comes first.
IntentsOf(b) == {p \in PaymentId : intents[p] # Null /\ intents[p].booking = b}

-----------------------------------------------------------------------------
(* CreateIntent.                                                           *)

Authorize(c, b, method, p) ==
    /\ gateway[p] = Null
    /\ Begin(c, "CreateIntent", "insert", b, p)
    /\ gateway' = [gateway EXCEPT
           ![p] = [method |-> method, taken |-> method = "wallet",
                   released |-> FALSE, refunds |-> 0]]
    /\ UNCHANGED records

CreatePaymentIntent(c) ==
    /\ At(c, "CreateIntent", "insert")
    /\ LET p == call[c].id
           type == MethodType(gateway[p].method)
       IN  intents' = [intents EXCEPT
               ![p] = [booking |-> call[c].booking, type |-> type,
                       status |-> IF type = "immediate_capture"
                                  THEN "captured" ELSE "authorized"]]
    /\ Return(c)
    /\ UNCHANGED <<refunds, processed, gateway>>

-----------------------------------------------------------------------------
(* CapturePayment, VoidPayment, RefundPayment.                             *)

IsWalletNever(p) == FALSE

IsWallet(p) == intents[p].type = "immediate_capture"

GetToCapture(c, b) ==
    \E p \in IntentsOf(b) :
        /\ ~IsWallet(p)
        /\ Begin(c, "CapturePayment", "gateway", b, p)
        /\ UNCHANGED <<records, gateway>>

\* A wallet payment cannot be voided: VoidPayment turns to RefundPayment,
\* which reads the row again.
GetToVoid(c, b) ==
    \E p \in IntentsOf(b) :
        /\ IF IsWallet(p)
           THEN Begin(c, "RefundPayment", "again", b, p)
           ELSE Begin(c, "VoidPayment", "gateway", b, p)
        /\ UNCHANGED <<records, gateway>>

GetToRefund(c, b) ==
    \E p \in IntentsOf(b) :
        /\ Begin(c, "RefundPayment", "gateway", b, p)
        /\ UNCHANGED <<records, gateway>>

GetAgainToRefund(c) ==
    /\ At(c, "RefundPayment", "again")
    /\ \E p \in IntentsOf(call[c].booking) :
           call' = [call EXCEPT ![c].id = p, ![c].at = "gateway"]
    /\ UNCHANGED <<records, gateway>>

\* The service asks nothing about the status of the payment.
GatewayAccepts(c) ==
    LET p == call[c].id IN
    /\ call[c] # Null /\ call[c].at = "gateway"
    /\ CASE call[c].op = "CapturePayment" ->
                /\ gateway' = [gateway EXCEPT ![p].taken = TRUE]
                /\ Goto(c, "update")
         [] call[c].op = "VoidPayment" ->
                /\ gateway' = [gateway EXCEPT ![p].released = TRUE]
                /\ Goto(c, "update")
         [] call[c].op = "RefundPayment" ->
                /\ gateway[p].refunds < MaxRefunds
                /\ gateway' = [gateway EXCEPT ![p].refunds = @ + 1]
                /\ Goto(c, "record")
    /\ UNCHANGED records

ErrorIgnored(c) == Goto(c, "update")

ErrorReturned(c) == Return(c)

GatewayRefuses(c) ==
    /\ call[c] # Null /\ call[c].at = "gateway"
    /\ ErrorReturned(c)
    /\ UNCHANGED <<records, gateway>>

CreateRefund(c) ==
    /\ At(c, "RefundPayment", "record")
    /\ refunds' = [refunds EXCEPT ![call[c].id] = @ + 1]
    /\ Goto(c, "update")
    /\ UNCHANGED <<intents, processed, gateway>>

\* PayMongo's own word for it, which belongs in paymongo_status.
StatusInEvent(op) == IF op = "HandleWebhook" THEN "paid" ELSE "refunded"

StatusAfter(op) == CASE op \in {"CapturePayment", "HandleWebhook"} -> "captured"
                     [] op = "VoidPayment" -> "voided"
                     [] op = "RefundPayment" -> "refunded"

UpdatePaymentIntentStatus(c) ==
    /\ call[c] # Null /\ call[c].at = "update"
    /\ UpdateStatus(call[c].id, StatusAfter(call[c].op))
    /\ Return(c)
    /\ UNCHANGED <<refunds, processed, gateway>>

-----------------------------------------------------------------------------
(* HandleWebhook, for payment.paid.  Other events are recorded, no more.   *)

IsWebhookEventProcessed(c, p) ==
    /\ gateway[p] # Null /\ gateway[p].taken
    /\ p \notin processed
    /\ Begin(c, "HandleWebhook", "mark", Null, p)
    /\ UNCHANGED <<records, gateway>>

\* ON CONFLICT DO NOTHING: recording an event twice is no error.
MarkWebhookEventProcessed(c) ==
    /\ At(c, "HandleWebhook", "mark")
    /\ processed' = processed \cup {call[c].id}
    /\ Goto(c, "find")
    /\ UNCHANGED <<intents, refunds, gateway>>

\* No row is found if CreateIntent has not inserted it yet, or if the event
\* does not carry the id in its attributes and its own id is taken for it.
GetByPayMongoID(c) ==
    /\ At(c, "HandleWebhook", "find")
    /\ \/ intents[call[c].id] # Null /\ Goto(c, "update")
       \/ Return(c)
    /\ UNCHANGED <<records, gateway>>

-----------------------------------------------------------------------------
Next == \E c \in Caller :
    \/ \E b \in Booking, m \in Method, p \in PaymentId : Authorize(c, b, m, p)
    \/ CreatePaymentIntent(c)
    \/ \E b \in Booking : GetToCapture(c, b) \/ GetToVoid(c, b) \/ GetToRefund(c, b)
    \/ GetAgainToRefund(c)
    \/ GatewayAccepts(c) \/ GatewayRefuses(c)
    \/ CreateRefund(c)
    \/ UpdatePaymentIntentStatus(c)
    \/ \E p \in PaymentId : IsWebhookEventProcessed(c, p)
    \/ MarkWebhookEventProcessed(c) \/ GetByPayMongoID(c)
    \/ Abort(c)

Spec == Init /\ [][Next]_vars

-----------------------------------------------------------------------------
(* Properties.                                                             *)

\* However calls fail, stop and overtake one another, the records claim
\* nothing that PayMongo has not done: a payment is 'captured', 'voided' or
\* 'refunded' only if its money was taken, released or paid back at some time,
\* and there is no refund row without a refund.
RecordsAreBacked ==
    \A p \in PaymentId :
        /\ intents[p] # Null =>
            /\ gateway[p] # Null
            /\ intents[p].status = "captured" => gateway[p].taken
            /\ intents[p].status = "voided"   => gateway[p].released
            /\ intents[p].status = "refunded" => refunds[p] > 0
        /\ refunds[p] > 0 => refunds[p] <= gateway[p].refunds

\* ADR-001: a wallet payment is never voided, only refunded, and whichever row
\* a void falls upon: releasing is for holds, and only cards have them.
OnlyHoldsAreReleased ==
    \A p \in PaymentId :
        gateway[p] # Null /\ gateway[p].released => gateway[p].method = "card"

\* Refunds of p that PayMongo has made and a call under way has yet to record.
Recording(p) ==
    {c \in Caller : At(c, "RefundPayment", "record") /\ call[c].id = p}

\* What a call under way has found out or brought about.
CallIsBacked(c) ==
    LET k == call[c]
        p == k.id
    IN  /\ gateway[p] # Null
        /\ k.op = "CreateIntent" => k.at = "insert" /\ k.booking \in Booking
        /\ k.op = "HandleWebhook" =>
               /\ k.at \in {"mark", "find", "update"}
               /\ gateway[p].taken
        /\ k.op = "CapturePayment" =>
               /\ k.at \in {"gateway", "update"}
               /\ k.at = "update" => gateway[p].taken
        /\ k.op = "VoidPayment" =>
               /\ k.at \in {"gateway", "update"}
               /\ gateway[p].method = "card"
               /\ k.at = "update" => gateway[p].released
        /\ k.op = "RefundPayment" =>
               /\ k.at \in {"again", "gateway", "record", "update"}
               /\ k.at = "update" => refunds[p] > 0
        /\ k.at \in {"again", "gateway", "record", "update"} => intents[p] # Null

CallsAreBacked == \A c \in Caller : call[c] # Null => CallIsBacked(c)

WalletsAreTaken ==
    \A p \in PaymentId :
        gateway[p] # Null /\ gateway[p].method = "wallet" => gateway[p].taken

IntentsMatch ==
    \A p \in PaymentId : intents[p] # Null =>
        gateway[p] # Null /\ intents[p].type = MethodType(gateway[p].method)

RefundsCounted ==
    \A p \in PaymentId :
        IF gateway[p] = Null
        THEN refunds[p] = 0
        ELSE refunds[p] + Cardinality(Recording(p)) <= gateway[p].refunds

\* What keeps the records backed from step to step.
PaymentInv ==
    /\ TypeOK
    /\ CallsAreBacked
    /\ WalletsAreTaken
    /\ IntentsMatch
    /\ RefundsCounted
    /\ RecordsAreBacked
    /\ OnlyHoldsAreReleased
=============================================================================

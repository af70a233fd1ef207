------------------------ MODULE PaymentServiceProofs ------------------------
(***************************************************************************)
(* Theorems about PaymentService, for any number of callers, bookings,     *)
(* payments and refunds.                                                   *)
(***************************************************************************)
EXTENDS PaymentService, FiniteSetTheorems, TLAPS

-----------------------------------------------------------------------------
(* Counting refunds under way.                                             *)

\* Callers are finitely many, so those who have a refund to record are too.
LEMMA CallersCounted ==
    ASSUME NEW S \in SUBSET Caller
    PROVE  IsFiniteSet(S) /\ Cardinality(S) \in Nat
BY PaymentAssumption, FS_Subset, FS_CardinalityType

\* Fewer callers count for no more.
LEMMA FewerCallers ==
    ASSUME NEW S \in SUBSET Caller, NEW T \in SUBSET S
    PROVE  Cardinality(T) <= Cardinality(S)
BY CallersCounted, FS_Subset

\* One more caller counts for one more at most.
LEMMA OneMoreCaller ==
    ASSUME NEW S \in SUBSET Caller, NEW c \in Caller, NEW T \in SUBSET (S \cup {c})
    PROVE  Cardinality(T) <= Cardinality(S) + 1
<1>1. Cardinality(T) <= Cardinality(S \cup {c})
  BY FewerCallers
<1>2. /\ IsFiniteSet(S) /\ Cardinality(S) \in Nat
      /\ Cardinality(S \cup {c}) \in Nat /\ Cardinality(T) \in Nat
  BY CallersCounted
<1>3. Cardinality(S \cup {c}) <= Cardinality(S) + 1
  BY <1>2, FS_AddElement
<1> QED
  BY <1>1, <1>2, <1>3

\* A caller that is done counts no more.
LEMMA OneCallerLess ==
    ASSUME NEW S \in SUBSET Caller, NEW c \in S, NEW T \in SUBSET (S \ {c})
    PROVE  Cardinality(T) + 1 <= Cardinality(S)
<1>1. Cardinality(T) <= Cardinality(S \ {c})
  BY FewerCallers
<1>2. /\ IsFiniteSet(S) /\ Cardinality(S) \in Nat
      /\ Cardinality(S \ {c}) \in Nat /\ Cardinality(T) \in Nat
  BY CallersCounted
<1>3. Cardinality(S \ {c}) = Cardinality(S) - 1
  BY <1>2, FS_RemoveElement
<1> QED
  BY <1>1, <1>2, <1>3

\* The count of a payment holds on if no caller comes to record a refund of it
\* and PayMongo and the table of refunds stay as they are.
LEMMA CountHolds ==
    ASSUME TypeOK, RefundsCounted, NEW p \in PaymentId,
           Recording(p)' \subseteq Recording(p),
           refunds'[p] = refunds[p],
           gateway'[p] = gateway[p]
    PROVE  IF gateway'[p] = Null
           THEN refunds'[p] = 0
           ELSE refunds'[p] + Cardinality(Recording(p)') <= gateway'[p].refunds
<1>1. Recording(p) \subseteq Caller
  BY DEF Recording
<1>2. Cardinality(Recording(p)') <= Cardinality(Recording(p))
  BY <1>1, FewerCallers
<1>3. /\ Cardinality(Recording(p)) \in Nat
      /\ Cardinality(Recording(p)') \in Nat
  BY <1>1, CallersCounted
<1>4. CASE gateway[p] = Null
  BY <1>4 DEF RefundsCounted
<1>5. CASE gateway[p] # Null
  <2>1. gateway[p].refunds \in Nat /\ refunds[p] \in Nat
    BY <1>5, PaymentAssumption DEF TypeOK, Account
  <2>2. refunds[p] + Cardinality(Recording(p)) <= gateway[p].refunds
    BY <1>5 DEF RefundsCounted
  <2> QED
    BY <1>2, <1>3, <1>5, <2>1, <2>2
<1> QED
  BY <1>4, <1>5

-----------------------------------------------------------------------------
(* The invariant.                                                          *)

\* Nothing is paid and nobody calls at first.
LEMMA InitialPayments == Init => PaymentInv
<1> SUFFICES ASSUME Init PROVE PaymentInv
  OBVIOUS
<1>1. TypeOK
  BY PaymentAssumption DEF Init, TypeOK
<1> QED
  BY <1>1 DEF Init, PaymentInv, CallsAreBacked, WalletsAreTaken, IntentsMatch,
     RefundsCounted, RecordsAreBacked, OnlyHoldsAreReleased

USE DEF records

\* What a call relies on stays true while the others go on.
LEMMA StaysBacked ==
    ASSUME NEW c \in Caller, call[c] # Null => CallIsBacked(c), call'[c] = call[c],
           TypeOK, TypeOK',
           \A p \in PaymentId :
               /\ intents[p] # Null => intents'[p] # Null
               /\ refunds[p] <= refunds'[p]
               /\ gateway[p] # Null =>
                      /\ gateway'[p] # Null
                      /\ gateway'[p].method = gateway[p].method
                      /\ gateway[p].taken => gateway'[p].taken
                      /\ gateway[p].released => gateway'[p].released
    PROVE  (call[c] # Null => CallIsBacked(c))'
<1> SUFFICES ASSUME call[c] # Null PROVE CallIsBacked(c)'
  OBVIOUS
<1>1. call[c] \in Call /\ call[c].id \in PaymentId
  BY PaymentAssumption DEF TypeOK, Call
<1>2. refunds[call[c].id] \in Int /\ refunds'[call[c].id] \in Int
  BY <1>1 DEF TypeOK
<1> QED
  BY <1>1, <1>2 DEF CallIsBacked

\* A new payment is backed by what PayMongo has just opened for it.
LEMMA AuthorizeKeeps ==
    ASSUME PaymentInv, NEW c \in Caller, NEW b \in Booking, NEW m \in Method,
           NEW p \in PaymentId, Authorize(c, b, m, p)
    PROVE  PaymentInv'
<1> DEFINE account == [method |-> m, taken |-> m = "wallet", released |-> FALSE, refunds |-> 0]
           begun == [op |-> "CreateIntent", at |-> "insert", booking |-> b, id |-> p]
<1>1. /\ account \in Account
      /\ account.method = m /\ account.released = FALSE /\ account.refunds = 0
      /\ m = "wallet" => account.taken
  <2>1. account.taken \in BOOLEAN
    BY Zenon
  <2>2. 0 \in 0..MaxRefunds
    BY PaymentAssumption
  <2>3. m = "wallet" => account.taken
    BY Zenon
  <2> QED
    BY <2>1, <2>2, <2>3 DEF Account
<1>2. begun \in Call
  BY DEF Call
<1>3. account # Null /\ begun # Null
  BY <1>1, <1>2, PaymentAssumption
<1>4. /\ gateway' = [gateway EXCEPT ![p] = account]
      /\ call' = [call EXCEPT ![c] = begun]
      /\ gateway[p] = Null /\ call[c] = Null
      /\ UNCHANGED records
  BY DEF Authorize, Begin
<1> HIDE DEF account
<1>5. TypeOK'
  BY <1>1, <1>2, <1>4 DEF PaymentInv, TypeOK
<1>6. gateway'[p] = account /\ \A q \in PaymentId \ {p} : gateway'[q] = gateway[q]
  BY <1>4 DEF PaymentInv, TypeOK
<1>7. call'[c] = begun /\ \A d \in Caller \ {c} : call'[d] = call[d]
  BY <1>4 DEF PaymentInv, TypeOK
<1>8. CallsAreBacked'
  <2> SUFFICES ASSUME NEW d \in Caller PROVE (call[d] # Null => CallIsBacked(d))'
    BY DEF CallsAreBacked
  <2>1. CASE d = c
    BY <2>1, <1>3, <1>6, <1>7 DEF CallIsBacked
  <2>2. CASE d # c
    <3>1. \A q \in PaymentId : refunds[q] <= refunds[q]
      BY DEF PaymentInv, TypeOK
    <3> QED
      BY <1>4, <1>5, <1>6, <1>7, <2>2, <3>1, StaysBacked DEF PaymentInv, CallsAreBacked
  <2> QED
    BY <2>1, <2>2
<1>9. intents[p] = Null /\ refunds[p] = 0 /\ refunds'[p] = 0
  BY <1>4 DEF PaymentInv, IntentsMatch, RefundsCounted
<1>10. WalletsAreTaken' /\ IntentsMatch' /\ OnlyHoldsAreReleased'
  BY <1>1, <1>4, <1>6, <1>9 DEF PaymentInv, WalletsAreTaken, IntentsMatch, OnlyHoldsAreReleased
<1>11. RecordsAreBacked'
  BY <1>1, <1>4, <1>6, <1>9 DEF PaymentInv, RecordsAreBacked
<1>12. RefundsCounted'
  <2> SUFFICES ASSUME NEW q \in PaymentId
               PROVE  IF gateway'[q] = Null THEN refunds'[q] = 0
                      ELSE refunds'[q] + Cardinality(Recording(q)') <= gateway'[q].refunds
    BY DEF RefundsCounted
  <2>1. Recording(q)' \subseteq Recording(q)
    BY <1>4, <1>7 DEF Recording, At
  <2>2. CASE q # p
    BY <1>4, <1>6, <2>1, <2>2, CountHolds DEF PaymentInv
  <2>3. CASE q = p
    <3>1. Recording(p) = {}
      BY <1>4 DEF Recording, At, PaymentInv, CallsAreBacked, CallIsBacked
    <3>2. Cardinality(Recording(q)') = 0
      BY <2>1, <2>3, <3>1, FS_EmptySet
    <3> QED
      BY <1>1, <1>3, <1>6, <1>9, <2>3, <3>2
  <2> QED
    BY <2>2, <2>3
<1> QED
  BY <1>5, <1>8, <1>10, <1>11, <1>12 DEF PaymentInv

\* A call goes on or ends, and neither payments nor refunds nor PayMongo change.
LEMMA CallGoesOn ==
    ASSUME PaymentInv, NEW c \in Caller, NEW k \in Call \cup {Null},
           call' = [call EXCEPT ![c] = k],
           UNCHANGED <<intents, refunds, gateway>>,
           processed' \subseteq PaymentId,
           k # Null => CallIsBacked(c)',
           ~(k # Null /\ k.op = "RefundPayment" /\ k.at = "record")
    PROVE  PaymentInv'
<1>1. TypeOK'
  BY DEF PaymentInv, TypeOK
<1>2. call'[c] = k /\ \A d \in Caller \ {c} : call'[d] = call[d]
  BY DEF PaymentInv, TypeOK
<1>3. CallsAreBacked'
  <2> SUFFICES ASSUME NEW d \in Caller PROVE (call[d] # Null => CallIsBacked(d))'
    BY DEF CallsAreBacked
  <2>1. CASE d = c
    BY <1>2, <2>1
  <2>2. CASE d # c
    <3>1. \A q \in PaymentId : refunds[q] <= refunds[q]
      BY DEF PaymentInv, TypeOK
    <3> QED
      BY <1>1, <1>2, <2>2, <3>1, StaysBacked DEF PaymentInv, CallsAreBacked
  <2> QED
    BY <2>1, <2>2
<1>4. RefundsCounted'
  <2> SUFFICES ASSUME NEW q \in PaymentId
               PROVE  IF gateway'[q] = Null THEN refunds'[q] = 0
                      ELSE refunds'[q] + Cardinality(Recording(q)') <= gateway'[q].refunds
    BY DEF RefundsCounted
  <2>1. Recording(q)' \subseteq Recording(q)
    BY <1>2 DEF Recording, At
  <2> QED
    BY <2>1, CountHolds DEF PaymentInv
<1>5. WalletsAreTaken' /\ IntentsMatch' /\ OnlyHoldsAreReleased' /\ RecordsAreBacked'
  BY DEF PaymentInv, WalletsAreTaken, IntentsMatch, OnlyHoldsAreReleased, RecordsAreBacked
<1> QED
  BY <1>1, <1>3, <1>4, <1>5 DEF PaymentInv

\* The steps that only read, or return.
LEMMA ReadsKeep ==
    ASSUME PaymentInv, NEW c \in Caller,
           \/ \E b \in Booking : GetToCapture(c, b) \/ GetToVoid(c, b) \/ GetToRefund(c, b)
           \/ GetAgainToRefund(c) \/ GatewayRefuses(c) \/ Abort(c)
           \/ \E p \in PaymentId : IsWebhookEventProcessed(c, p)
           \/ MarkWebhookEventProcessed(c) \/ GetByPayMongoID(c)
    PROVE  PaymentInv'
<1>0. processed \subseteq PaymentId /\ call \in [Caller -> Call \cup {Null}]
  BY DEF PaymentInv, TypeOK
<1>1. ASSUME call[c] # Null
      PROVE  call[c] \in Call /\ call[c].id \in PaymentId /\ CallIsBacked(c)
  BY <1>0, <1>1 DEF PaymentInv, CallsAreBacked, Call
<1>2. ASSUME NEW b \in Booking,
             GetToCapture(c, b) \/ GetToVoid(c, b) \/ GetToRefund(c, b)
      PROVE  PaymentInv'
  <2>1. PICK p \in IntentsOf(b) :
          \/ ~IsWallet(p) /\ Begin(c, "CapturePayment", "gateway", b, p)
          \/ IsWallet(p) /\ Begin(c, "RefundPayment", "again", b, p)
          \/ ~IsWallet(p) /\ Begin(c, "VoidPayment", "gateway", b, p)
          \/ Begin(c, "RefundPayment", "gateway", b, p)
    BY <1>2 DEF GetToCapture, GetToVoid, GetToRefund
  <2>2. UNCHANGED <<records, gateway>>
    BY <1>2 DEF GetToCapture, GetToVoid, GetToRefund
  <2>3. /\ p \in PaymentId /\ intents[p] # Null /\ gateway[p] # Null
        /\ ~IsWallet(p) => gateway[p].method = "card"
    BY PaymentAssumption DEF IntentsOf, IsWallet, PaymentInv, IntentsMatch, MethodType, TypeOK, Account, Method
  <2>4. PICK op, at : /\ Begin(c, op, at, b, p)
                      /\ \/ op = "CapturePayment" /\ at = "gateway"
                         \/ op = "RefundPayment" /\ at \in {"again", "gateway"}
                         \/ op = "VoidPayment" /\ at = "gateway" /\ ~IsWallet(p)
    BY <2>1
  <2> DEFINE k == [op |-> op, at |-> at, booking |-> b, id |-> p]
  <2>5. k \in Call
    BY <2>3, <2>4 DEF Call
  <2>6. call' = [call EXCEPT ![c] = k]
    BY <2>4 DEF Begin
  <2>7. call'[c] = k
    BY <1>0, <2>6
  <2>8. CallIsBacked(c)'
    BY <2>2, <2>3, <2>4, <2>7 DEF CallIsBacked
  <2>9. ~(k.op = "RefundPayment" /\ k.at = "record")
    BY <2>4
  <2> HIDE DEF k
  <2> QED
    BY <1>0, <2>2, <2>5, <2>6, <2>8, <2>9, CallGoesOn
<1>3. ASSUME GetAgainToRefund(c) PROVE PaymentInv'
  <2>1. PICK p \in IntentsOf(call[c].booking) :
            call' = [call EXCEPT ![c].id = p, ![c].at = "gateway"]
    BY <1>3 DEF GetAgainToRefund
  <2>2. /\ call[c] # Null /\ call[c].op = "RefundPayment"
        /\ UNCHANGED <<records, gateway>>
    BY <1>3 DEF GetAgainToRefund, At
  <2>3. p \in PaymentId /\ intents[p] # Null /\ gateway[p] # Null
    BY DEF IntentsOf, PaymentInv, IntentsMatch
  <2> DEFINE k == [call[c] EXCEPT !.id = p, !.at = "gateway"]
  <2>4. k \in Call /\ k.op = "RefundPayment" /\ k.at = "gateway" /\ k.id = p
    BY <1>1, <2>2, <2>3 DEF Call
  <2>5. call' = [call EXCEPT ![c] = k] /\ call'[c] = k
    BY <1>0, <1>1, <2>1, <2>2 DEF Call
  <2> HIDE DEF k
  <2>6. CallIsBacked(c)'
    BY <2>2, <2>3, <2>4, <2>5 DEF CallIsBacked
  <2> QED
    BY <1>0, <2>2, <2>4, <2>5, <2>6, CallGoesOn
<1>4. ASSUME GatewayRefuses(c) \/ Abort(c) PROVE PaymentInv'
  BY <1>0, <1>4, CallGoesOn DEF GatewayRefuses, Abort, ErrorReturned, Return
<1>5. ASSUME NEW p \in PaymentId, IsWebhookEventProcessed(c, p) PROVE PaymentInv'
  <2> DEFINE k == [op |-> "HandleWebhook", at |-> "mark", booking |-> Null, id |-> p]
  <2>1. k \in Call
    BY DEF Call
  <2>2. /\ call' = [call EXCEPT ![c] = k] /\ call'[c] = k
        /\ gateway[p] # Null /\ gateway[p].taken
        /\ UNCHANGED <<records, gateway>>
    BY <1>0, <1>5 DEF IsWebhookEventProcessed, Begin
  <2>3. CallIsBacked(c)'
    BY <2>2 DEF CallIsBacked
  <2> QED
    BY <1>0, <2>1, <2>2, <2>3, CallGoesOn
<1>6. ASSUME MarkWebhookEventProcessed(c) PROVE PaymentInv'
  <2>1. /\ call[c] # Null /\ call[c].op = "HandleWebhook"
        /\ call' = [call EXCEPT ![c].at = "find"]
        /\ processed' = processed \cup {call[c].id}
        /\ UNCHANGED <<intents, refunds, gateway>>
    BY <1>6 DEF MarkWebhookEventProcessed, At, Goto
  <2> DEFINE k == [call[c] EXCEPT !.at = "find"]
  <2>2. k \in Call /\ k.op = "HandleWebhook" /\ k.at = "find" /\ k.id = call[c].id
    BY <1>1, <2>1 DEF Call
  <2>3. call' = [call EXCEPT ![c] = k] /\ call'[c] = k
    BY <1>0, <1>1, <2>1 DEF Call
  <2> HIDE DEF k
  <2>4. CallIsBacked(c)'
    BY <1>1, <2>1, <2>2, <2>3 DEF CallIsBacked
  <2>5. processed' \subseteq PaymentId
    BY <1>0, <1>1, <2>1
  <2> QED
    BY <2>1, <2>2, <2>3, <2>4, <2>5, CallGoesOn
<1>7. ASSUME GetByPayMongoID(c) PROVE PaymentInv'
  <2>1. CASE Return(c)
    BY <1>0, <1>7, <2>1, CallGoesOn DEF GetByPayMongoID, Return
  <2>2. CASE intents[call[c].id] # Null /\ Goto(c, "update")
    <3>1. /\ call[c] # Null /\ call[c].op = "HandleWebhook"
          /\ call' = [call EXCEPT ![c].at = "update"]
          /\ UNCHANGED <<records, gateway>>
      BY <1>7, <2>2 DEF GetByPayMongoID, At, Goto
    <3> DEFINE k == [call[c] EXCEPT !.at = "update"]
    <3>2. k \in Call /\ k.op = "HandleWebhook" /\ k.at = "update" /\ k.id = call[c].id
      BY <1>1, <3>1 DEF Call
    <3>3. call' = [call EXCEPT ![c] = k] /\ call'[c] = k
      BY <1>0, <1>1, <3>1 DEF Call
    <3> HIDE DEF k
    <3>4. CallIsBacked(c)'
      BY <1>1, <2>2, <3>1, <3>2, <3>3 DEF CallIsBacked
    <3> QED
      BY <1>0, <3>1, <3>2, <3>3, <3>4, CallGoesOn
  <2> QED
    BY <1>7, <2>1, <2>2 DEF GetByPayMongoID
<1> QED
  BY <1>2, <1>3, <1>4, <1>5, <1>6, <1>7

-----------------------------------------------------------------------------
(* The steps that change one payment.                                      *)

\* What the invariant says of one payment.
PaymentIsBacked(p) ==
    /\ gateway[p] # Null =>
           /\ gateway[p].method = "wallet" => gateway[p].taken
           /\ gateway[p].released => gateway[p].method = "card"
    /\ intents[p] # Null =>
           /\ gateway[p] # Null
           /\ intents[p].type = MethodType(gateway[p].method)
           /\ intents[p].status = "captured" => gateway[p].taken
           /\ intents[p].status = "voided"   => gateway[p].released
           /\ intents[p].status = "refunded" => refunds[p] > 0
    /\ IF gateway[p] = Null
       THEN refunds[p] = 0
       ELSE refunds[p] + Cardinality(Recording(p)) <= gateway[p].refunds

PaymentsAreBacked == \A p \in PaymentId : PaymentIsBacked(p)

\* The invariant, payment by payment.
LEMMA PaymentByPayment ==
    TypeOK => (PaymentInv <=> CallsAreBacked /\ PaymentsAreBacked)
<1> USE DEF PaymentsAreBacked
<1> SUFFICES ASSUME TypeOK PROVE PaymentInv <=> CallsAreBacked /\ PaymentsAreBacked
  OBVIOUS
<1>1. ASSUME NEW p \in PaymentId, gateway[p] # Null,
             refunds[p] + Cardinality(Recording(p)) <= gateway[p].refunds
      PROVE  refunds[p] <= gateway[p].refunds
  <2>1. Cardinality(Recording(p)) \in Nat
    BY CallersCounted DEF Recording
  <2>2. refunds[p] \in Nat /\ gateway[p].refunds \in Nat
    BY <1>1, PaymentAssumption DEF TypeOK, Account
  <2> QED
    BY <1>1, <2>1, <2>2
<1>2. \A p \in PaymentId : refunds[p] = 0 => ~(refunds[p] > 0)
  OBVIOUS
<1>3. ASSUME CallsAreBacked, \A p \in PaymentId : PaymentIsBacked(p)
      PROVE  PaymentInv
  <2>1. WalletsAreTaken /\ IntentsMatch /\ RefundsCounted /\ OnlyHoldsAreReleased
    BY <1>3 DEF PaymentIsBacked, WalletsAreTaken, IntentsMatch, RefundsCounted, OnlyHoldsAreReleased
  <2>2. RecordsAreBacked
    BY <1>1, <1>2, <1>3 DEF PaymentIsBacked, RecordsAreBacked
  <2> QED
    BY <1>3, <2>1, <2>2 DEF PaymentInv
<1>4. ASSUME PaymentInv PROVE CallsAreBacked /\ \A p \in PaymentId : PaymentIsBacked(p)
  BY <1>4 DEF PaymentInv, PaymentIsBacked, WalletsAreTaken, IntentsMatch,
     RefundsCounted, OnlyHoldsAreReleased, RecordsAreBacked
<1> QED
  BY <1>3, <1>4

\* A step of caller c that changes payment p and no other.
LEMMA PaymentChanges ==
    ASSUME PaymentInv, TypeOK', NEW c \in Caller, NEW p \in PaymentId,
           NEW k \in Call \cup {Null}, call' = [call EXCEPT ![c] = k],
           k # Null => k.id = p /\ CallIsBacked(c)',
           \A q \in PaymentId \ {p} : /\ intents'[q] = intents[q]
                                      /\ refunds'[q] = refunds[q]
                                      /\ gateway'[q] = gateway[q],
           intents[p] # Null => intents'[p] # Null,
           refunds[p] <= refunds'[p],
           gateway[p] # Null =>
               /\ gateway'[p] # Null
               /\ gateway'[p].method = gateway[p].method
               /\ gateway[p].taken => gateway'[p].taken
               /\ gateway[p].released => gateway'[p].released,
           PaymentIsBacked(p)'
    PROVE  PaymentInv'
<1>1. call'[c] = k /\ \A d \in Caller \ {c} : call'[d] = call[d]
  BY DEF PaymentInv, TypeOK
<1>2. CallsAreBacked'
  <2> SUFFICES ASSUME NEW d \in Caller PROVE (call[d] # Null => CallIsBacked(d))'
    BY DEF CallsAreBacked
  <2>1. CASE d = c
    BY <1>1, <2>1
  <2>2. CASE d # c
    <3>1. \A q \in PaymentId : refunds[q] \in Nat
      BY DEF PaymentInv, TypeOK
    <3>2. \A q \in PaymentId :
               /\ intents[q] # Null => intents'[q] # Null
               /\ refunds[q] <= refunds'[q]
               /\ gateway[q] # Null =>
                      /\ gateway'[q] # Null
                      /\ gateway'[q].method = gateway[q].method
                      /\ gateway[q].taken => gateway'[q].taken
                      /\ gateway[q].released => gateway'[q].released
      BY <3>1
    <3> QED
      BY <1>1, <2>2, <3>2, StaysBacked DEF PaymentInv, CallsAreBacked
  <2> QED
    BY <2>1, <2>2
<1>3. ASSUME NEW q \in PaymentId PROVE PaymentIsBacked(q)'
  <2>1. CASE q = p
    BY <2>1
  <2>2. CASE q # p
    <3>1. Recording(q)' \subseteq Recording(q)
      BY <1>1, <2>2 DEF Recording, At
    <3>2. IF gateway'[q] = Null THEN refunds'[q] = 0
          ELSE refunds'[q] + Cardinality(Recording(q)') <= gateway'[q].refunds
      BY <2>2, <3>1, CountHolds DEF PaymentInv
    <3>3. PaymentIsBacked(q)
      BY PaymentByPayment DEF PaymentInv, PaymentsAreBacked
    <3> QED
      BY <2>2, <3>2, <3>3 DEF PaymentIsBacked
  <2> QED
    BY <2>1, <2>2
<1>4. (TypeOK => (PaymentInv <=> CallsAreBacked /\ PaymentsAreBacked))'
  BY PaymentByPayment, PTL
<1> QED
  BY <1>2, <1>3, <1>4 DEF PaymentsAreBacked

\* The count of the payment a step is about, when no refund comes or goes.
LEMMA CountOfPayment ==
    ASSUME PaymentInv, NEW p \in PaymentId,
           gateway[p] # Null, gateway'[p] # Null,
           Recording(p)' \subseteq Recording(p),
           refunds'[p] = refunds[p],
           gateway'[p].refunds = gateway[p].refunds
    PROVE  refunds'[p] + Cardinality(Recording(p)') <= gateway'[p].refunds
<1>1. Recording(p) \subseteq Caller
  BY DEF Recording
<1>2. /\ Cardinality(Recording(p)') <= Cardinality(Recording(p))
      /\ Cardinality(Recording(p)) \in Nat /\ Cardinality(Recording(p)') \in Nat
  BY <1>1, FewerCallers, CallersCounted
<1>3. gateway[p].refunds \in Nat /\ refunds[p] \in Nat
  BY PaymentAssumption DEF PaymentInv, TypeOK, Account
<1>4. refunds[p] + Cardinality(Recording(p)) <= gateway[p].refunds
  BY DEF PaymentInv, RefundsCounted
<1> QED
  BY <1>2, <1>3, <1>4

\* The row of a new payment says what PayMongo was told.
LEMMA CreatePaymentIntentKeeps ==
    ASSUME PaymentInv, NEW c \in Caller, CreatePaymentIntent(c)
    PROVE  PaymentInv'
<1>1. PICK p \in PaymentId : call[c].id = p
  BY DEF CreatePaymentIntent, At, PaymentInv, TypeOK, Call
<1> DEFINE type == MethodType(gateway[p].method)
           row == [booking |-> call[c].booking, type |-> type,
                   status |-> IF type = "immediate_capture"
                              THEN "captured" ELSE "authorized"]
<1>2. /\ call[c] # Null /\ call[c].op = "CreateIntent"
      /\ intents' = [intents EXCEPT ![p] = row]
      /\ call' = [call EXCEPT ![c] = Null]
      /\ UNCHANGED <<refunds, processed, gateway>>
  BY <1>1 DEF CreatePaymentIntent, At, Return
<1>3. call[c].booking \in Booking /\ gateway[p] \in Account /\ gateway[p] # Null
  BY <1>1, <1>2 DEF PaymentInv, TypeOK, CallsAreBacked, CallIsBacked, Call
<1>4. /\ row \in Intent /\ row.type = type
      /\ row.status = "captured" => gateway[p].method = "wallet"
      /\ row.status \in {"captured", "authorized"}
  BY <1>3 DEF Intent, MethodType, Status
<1> HIDE DEF row
<1>5. TypeOK'
  BY <1>2, <1>4 DEF PaymentInv, TypeOK
<1>6. /\ intents'[p] = row /\ intents'[p] # Null
      /\ \A q \in PaymentId \ {p} : intents'[q] = intents[q]
  BY <1>2, <1>4, PaymentAssumption DEF PaymentInv, TypeOK
<1>7. refunds[p] <= refunds[p]
  BY DEF PaymentInv, TypeOK
<1>8. Recording(p)' \subseteq Recording(p)
  BY <1>2 DEF Recording, At, PaymentInv, TypeOK
<1>9. PaymentIsBacked(p)'
  <2>1. refunds'[p] + Cardinality(Recording(p)') <= gateway'[p].refunds
    BY <1>2, <1>3, <1>8, CountOfPayment
  <2>2. PaymentIsBacked(p)
    BY PaymentByPayment DEF PaymentInv, PaymentsAreBacked
  <2> QED
    BY <1>2, <1>3, <1>4, <1>6, <2>1, <2>2 DEF PaymentIsBacked
<1> QED
  BY <1>2, <1>5, <1>6, <1>7, <1>9, PaymentChanges

\* PayMongo takes, releases or pays back the money of a payment.
LEMMA GatewayAcceptsKeeps ==
    ASSUME PaymentInv, NEW c \in Caller, GatewayAccepts(c)
    PROVE  PaymentInv'
<1>1. PICK p \in PaymentId : call[c].id = p
  BY DEF GatewayAccepts, PaymentInv, TypeOK, Call
<1>2. /\ call[c] # Null /\ call[c] \in Call /\ call[c].at = "gateway"
      /\ UNCHANGED records
  BY DEF GatewayAccepts, PaymentInv, TypeOK
<1>3. /\ intents[p] # Null /\ gateway[p] # Null /\ gateway[p] \in Account
      /\ call[c].op = "VoidPayment" => gateway[p].method = "card"
      /\ call[c].op \in {"CapturePayment", "VoidPayment", "RefundPayment"}
  BY <1>1, <1>2 DEF PaymentInv, TypeOK, CallsAreBacked, CallIsBacked, Call
<1>4. refunds[p] \in Nat /\ gateway[p].refunds \in 0..MaxRefunds
  BY <1>3 DEF PaymentInv, TypeOK, Account
<1>5. PaymentIsBacked(p)
  BY PaymentByPayment DEF PaymentInv, PaymentsAreBacked
<1>6. ASSUME NEW account \in Account, NEW k \in Call,
             gateway' = [gateway EXCEPT ![p] = account],
             call' = [call EXCEPT ![c] = k],
             account.method = gateway[p].method,
             gateway[p].taken => account.taken,
             gateway[p].released => account.released,
             account.released => account.method = "card",
             k.id = p, k.op = call[c].op, k.op = "RefundPayment" => k.at = "record",
             k.op # "RefundPayment" => k.at = "update",
             k.op = "CapturePayment" => account.taken,
             k.op = "VoidPayment" => account.released,
             refunds[p] + Cardinality(Recording(p)') <= account.refunds
      PROVE  PaymentInv'
  <2>1. TypeOK'
    BY <1>2, <1>6 DEF PaymentInv, TypeOK
  <2>2. /\ gateway'[p] = account /\ account # Null
        /\ \A q \in PaymentId \ {p} : gateway'[q] = gateway[q]
    BY <1>6, PaymentAssumption DEF PaymentInv, TypeOK
  <2>3. call'[c] = k
    BY <1>6 DEF PaymentInv, TypeOK
  <2>4. CallIsBacked(c)'
    BY <1>2, <1>3, <1>6, <2>2, <2>3 DEF CallIsBacked
  <2>5. PaymentIsBacked(p)'
    BY <1>2, <1>3, <1>5, <1>6, <2>2 DEF PaymentIsBacked
  <2>6. refunds[p] <= refunds[p]
    BY <1>4
  <2> QED
    BY <1>2, <1>3, <1>6, <2>1, <2>2, <2>4, <2>5, <2>6, PaymentChanges
<1>7. ASSUME NEW k, call' = [call EXCEPT ![c] = k], k.id = p, k.at # "record"
      PROVE  Recording(p)' \subseteq Recording(p)
  BY <1>7 DEF Recording, At, PaymentInv, TypeOK
<1>8. ASSUME NEW k, call' = [call EXCEPT ![c] = k]
      PROVE  Recording(p)' \subseteq Recording(p) \cup {c}
  BY <1>8 DEF Recording, At, PaymentInv, TypeOK
<1>9. CASE call[c].op = "CapturePayment"
  <2> DEFINE k == [call[c] EXCEPT !.at = "update"]
             account == [gateway[p] EXCEPT !.taken = TRUE]
  <2>1. /\ gateway' = [gateway EXCEPT ![p] = account]
        /\ call' = [call EXCEPT ![c] = k]
    BY <1>1, <1>2, <1>3, <1>9 DEF GatewayAccepts, Goto, PaymentInv, TypeOK
  <2>2. k \in Call /\ k.id = p /\ k.op = "CapturePayment" /\ k.at = "update"
    BY <1>1, <1>2, <1>9 DEF Call
  <2>3. /\ account \in Account /\ account.taken /\ account.method = gateway[p].method
        /\ account.released = gateway[p].released
        /\ account.refunds = gateway[p].refunds
    BY <1>3 DEF Account
  <2> HIDE DEF k, account
  <2>4. gateway'[p] = account /\ account # Null
    BY <2>1, <2>3, PaymentAssumption DEF PaymentInv, TypeOK
  <2>5. refunds[p] + Cardinality(Recording(p)') <= account.refunds
    BY <1>2, <1>3, <1>7, <2>1, <2>2, <2>3, <2>4, CountOfPayment
  <2> QED
    BY <1>5, <1>6, <1>9, <2>1, <2>2, <2>3, <2>5, <1>3 DEF PaymentIsBacked
<1>10. CASE call[c].op = "VoidPayment"
  <2> DEFINE k == [call[c] EXCEPT !.at = "update"]
             account == [gateway[p] EXCEPT !.released = TRUE]
  <2>1. /\ gateway' = [gateway EXCEPT ![p] = account]
        /\ call' = [call EXCEPT ![c] = k]
    BY <1>1, <1>2, <1>3, <1>10 DEF GatewayAccepts, Goto, PaymentInv, TypeOK
  <2>2. k \in Call /\ k.id = p /\ k.op = "VoidPayment" /\ k.at = "update"
    BY <1>1, <1>2, <1>10 DEF Call
  <2>3. /\ account \in Account /\ account.released /\ account.method = gateway[p].method
        /\ account.taken = gateway[p].taken
        /\ account.refunds = gateway[p].refunds
    BY <1>3 DEF Account
  <2> HIDE DEF k, account
  <2>4. gateway'[p] = account /\ account # Null
    BY <2>1, <2>3, PaymentAssumption DEF PaymentInv, TypeOK
  <2>5. refunds[p] + Cardinality(Recording(p)') <= account.refunds
    BY <1>2, <1>3, <1>7, <2>1, <2>2, <2>3, <2>4, CountOfPayment
  <2> QED
    BY <1>3, <1>6, <1>10, <2>1, <2>2, <2>3, <2>5
<1>11. CASE call[c].op = "RefundPayment"
  <2> DEFINE k == [call[c] EXCEPT !.at = "record"]
             account == [gateway[p] EXCEPT !.refunds = @ + 1]
  <2>1. /\ gateway' = [gateway EXCEPT ![p] = account]
        /\ call' = [call EXCEPT ![c] = k]
        /\ gateway[p].refunds < MaxRefunds
    BY <1>1, <1>2, <1>3, <1>11 DEF GatewayAccepts, Goto, PaymentInv, TypeOK
  <2>2. k \in Call /\ k.id = p /\ k.op = "RefundPayment" /\ k.at = "record"
    BY <1>1, <1>2, <1>11 DEF Call
  <2>3. /\ account \in Account /\ account.method = gateway[p].method
        /\ account.taken = gateway[p].taken
        /\ account.released = gateway[p].released
        /\ account.refunds = gateway[p].refunds + 1
    BY <1>3, <1>4, <2>1, PaymentAssumption DEF Account
  <2> HIDE DEF k, account
  <2>4. Recording(p) \subseteq Caller
    BY DEF Recording
  <2>5. /\ Cardinality(Recording(p)') <= Cardinality(Recording(p)) + 1
        /\ Cardinality(Recording(p)) \in Nat /\ Cardinality(Recording(p)') \in Nat
    <3>1. Recording(p)' \subseteq Recording(p) \cup {c}
      BY <1>8, <2>1
    <3>2. Recording(p)' \subseteq Caller
      BY <2>4, <3>1
    <3> QED
      BY <2>4, <3>1, <3>2, OneMoreCaller, CallersCounted
  <2>6. refunds[p] + Cardinality(Recording(p)) <= gateway[p].refunds
    BY <1>3 DEF PaymentInv, RefundsCounted
  <2>7. refunds[p] + Cardinality(Recording(p)') <= account.refunds
    BY <1>4, <2>3, <2>5, <2>6
  <2> QED
    BY <1>3, <1>5, <1>6, <1>11, <2>1, <2>2, <2>3, <2>7 DEF PaymentIsBacked
<1> QED
  BY <1>3, <1>9, <1>10, <1>11

\* A row of refunds takes the place of a refund still to be recorded.
LEMMA CreateRefundKeeps ==
    ASSUME PaymentInv, NEW c \in Caller, CreateRefund(c)
    PROVE  PaymentInv'
<1>1. PICK p \in PaymentId : call[c].id = p
  BY DEF CreateRefund, At, PaymentInv, TypeOK, Call
<1> DEFINE k == [call[c] EXCEPT !.at = "update"]
<1>2. /\ call[c] # Null /\ call[c] \in Call
      /\ call[c].op = "RefundPayment" /\ call[c].at = "record"
      /\ refunds' = [refunds EXCEPT ![p] = @ + 1]
      /\ call' = [call EXCEPT ![c] = k]
      /\ UNCHANGED <<intents, processed, gateway>>
  BY <1>1 DEF CreateRefund, At, Goto, PaymentInv, TypeOK
<1>3. k \in Call /\ k.id = p /\ k.op = "RefundPayment" /\ k.at = "update"
  BY <1>1, <1>2 DEF Call
<1> HIDE DEF k
<1>4. intents[p] # Null /\ gateway[p] # Null /\ gateway[p] \in Account
  BY <1>1, <1>2 DEF PaymentInv, TypeOK, CallsAreBacked, CallIsBacked
<1>5. call'[c] = k /\ k # Null
  BY <1>2, <1>3, PaymentAssumption DEF PaymentInv, TypeOK
<1>6. /\ refunds[p] \in Nat /\ refunds'[p] = refunds[p] + 1
      /\ \A q \in PaymentId \ {p} : refunds'[q] = refunds[q]
  BY <1>2 DEF PaymentInv, TypeOK
<1>7. Recording(p) \subseteq Caller /\ c \in Recording(p)
  BY <1>1, <1>2 DEF Recording, At
<1>8. Recording(p)' \subseteq Recording(p) \ {c}
  BY <1>2, <1>3 DEF Recording, At, PaymentInv, TypeOK
<1>9. /\ Cardinality(Recording(p)') + 1 <= Cardinality(Recording(p))
      /\ Cardinality(Recording(p)) \in Nat /\ Cardinality(Recording(p)') \in Nat
  <2>1. Recording(p)' \subseteq Caller
    BY <1>7, <1>8
  <2> QED
    BY <1>7, <1>8, <2>1, OneCallerLess, CallersCounted
<1>10. gateway[p].refunds \in 0..MaxRefunds
  BY <1>4 DEF Account
<1>11. refunds'[p] + Cardinality(Recording(p)') <= gateway[p].refunds
  <2>1. refunds[p] + Cardinality(Recording(p)) <= gateway[p].refunds
    BY <1>4 DEF PaymentInv, RefundsCounted
  <2> QED
    BY <1>6, <1>9, <1>10, <2>1, PaymentAssumption
<1>12. refunds'[p] \in 0..MaxRefunds /\ refunds'[p] > 0 /\ refunds[p] <= refunds'[p]
  BY <1>6, <1>9, <1>10, <1>11, PaymentAssumption
<1>13. TypeOK'
  BY <1>2, <1>3, <1>6, <1>12 DEF PaymentInv, TypeOK
<1>14. CallIsBacked(c)'
  BY <1>2, <1>3, <1>4, <1>5, <1>12 DEF CallIsBacked
<1>15. PaymentIsBacked(p)'
  <2>1. PaymentIsBacked(p)
    BY PaymentByPayment DEF PaymentInv, PaymentsAreBacked
  <2> QED
    BY <1>2, <1>4, <1>11, <1>12, <2>1 DEF PaymentIsBacked
<1> QED
  BY <1>2, <1>3, <1>5, <1>6, <1>12, <1>13, <1>14, <1>15, PaymentChanges

\* The status written is what the call has brought about or been told.
LEMMA UpdateKeeps ==
    ASSUME PaymentInv, NEW c \in Caller, UpdatePaymentIntentStatus(c)
    PROVE  PaymentInv'
<1>1. PICK p \in PaymentId : call[c].id = p
  BY DEF UpdatePaymentIntentStatus, PaymentInv, TypeOK, Call
<1> DEFINE status == StatusAfter(call[c].op)
           row == [intents[p] EXCEPT !.status = status]
<1>2. /\ call[c] # Null /\ call[c] \in Call /\ call[c].at = "update"
      /\ intents' = [intents EXCEPT ![p] = row]
      /\ call' = [call EXCEPT ![c] = Null]
      /\ UNCHANGED <<refunds, processed, gateway>>
  BY <1>1 DEF UpdatePaymentIntentStatus, UpdateStatus, Return, PaymentInv, TypeOK
<1>3. /\ intents[p] # Null /\ intents[p] \in Intent
      /\ gateway[p] # Null
      /\ CallIsBacked(c)
  BY <1>1, <1>2 DEF PaymentInv, TypeOK, CallsAreBacked, CallIsBacked
<1>4. /\ status \in Status
      /\ status = "captured" => gateway[p].taken
      /\ status = "voided" => gateway[p].released
      /\ status = "refunded" => refunds[p] > 0
  <2>1. call[c].op \in {"HandleWebhook", "CapturePayment", "VoidPayment", "RefundPayment"}
    BY <1>2, <1>3 DEF Call, CallIsBacked
  <2> QED
    BY <1>1, <1>2, <1>3, <2>1 DEF StatusAfter, Status, CallIsBacked
<1>5. row \in Intent /\ row.status = status /\ row.type = intents[p].type
  BY <1>3, <1>4 DEF Intent
<1> HIDE DEF row, status
<1>6. TypeOK'
  BY <1>2, <1>5 DEF PaymentInv, TypeOK
<1>7. /\ intents'[p] = row /\ row # Null
      /\ \A q \in PaymentId \ {p} : intents'[q] = intents[q]
  BY <1>2, <1>5, PaymentAssumption DEF PaymentInv, TypeOK
<1>8. refunds[p] <= refunds[p]
  BY DEF PaymentInv, TypeOK
<1>9. Recording(p)' \subseteq Recording(p)
  BY <1>2 DEF Recording, At, PaymentInv, TypeOK
<1>10. PaymentIsBacked(p)'
  <2>1. refunds'[p] + Cardinality(Recording(p)') <= gateway'[p].refunds
    BY <1>2, <1>3, <1>9, CountOfPayment
  <2>2. PaymentIsBacked(p)
    BY PaymentByPayment DEF PaymentInv, PaymentsAreBacked
  <2> QED
    BY <1>2, <1>3, <1>4, <1>5, <1>7, <2>1, <2>2 DEF PaymentIsBacked
<1> QED
  BY <1>2, <1>6, <1>7, <1>8, <1>10, PaymentChanges

-----------------------------------------------------------------------------
(* Theorems.                                                               *)

\* Every step keeps the invariant.
LEMMA PaymentStep == PaymentInv /\ [Next]_vars => PaymentInv'
<1> SUFFICES ASSUME PaymentInv, [Next]_vars PROVE PaymentInv'
  OBVIOUS
<1>1. CASE UNCHANGED vars
  BY <1>1 DEF vars, PaymentInv, TypeOK, CallsAreBacked, CallIsBacked, WalletsAreTaken,
     IntentsMatch, RefundsCounted, Recording, At, RecordsAreBacked, OnlyHoldsAreReleased
<1>2. CASE Next
  BY <1>2, AuthorizeKeeps, CreatePaymentIntentKeeps, ReadsKeep, GatewayAcceptsKeeps,
     CreateRefundKeeps, UpdateKeeps DEF Next
<1> QED
  BY <1>1, <1>2

\* The invariant holds of every state the service can reach, whatever calls
\* run at the same time and wherever they stop.
THEOREM PaymentsInvariant == Spec => []PaymentInv
BY InitialPayments, PaymentStep, PTL DEF Spec

\* The tables and calls stay well typed; that there are no more rows of
\* refunds than refunds takes the whole invariant.
THEOREM PaymentsTyped == Spec => []TypeOK
<1>1. PaymentInv => TypeOK
  BY DEF PaymentInv
<1> QED
  BY <1>1, PaymentsInvariant, PTL

\* For any number of callers and payments, no record claims what PayMongo has
\* not done.
THEOREM PaymentRecordsBacked == Spec => []RecordsAreBacked
<1>1. PaymentInv => RecordsAreBacked
  BY DEF PaymentInv
<1> QED
  BY <1>1, PaymentsInvariant, PTL

\* For any number of callers and payments, no wallet payment is ever voided.
THEOREM WalletsNeverVoided == Spec => []OnlyHoldsAreReleased
<1>1. PaymentInv => OnlyHoldsAreReleased
  BY DEF PaymentInv
<1> QED
  BY <1>1, PaymentsInvariant, PTL
=============================================================================

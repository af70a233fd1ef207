------------------------ MODULE NotificationsProofs -------------------------
(***************************************************************************)
(* Theorems about Notifications, for any users, devices and notifications, *)
(* any length of the queue, and a worker that stops and restarts anywhere. *)
(***************************************************************************)
EXTENDS Notifications, SequenceTheorems, TLAPS

-----------------------------------------------------------------------------
(* The invariant.                                                          *)

InQueue(n) == \E i \in 1..Len(queue) : queue[i].notification = n

Taken(n) == worker.at # "idle" /\ worker.job.notification = n

\* TypeOK, with logs a table.
Typed ==
    /\ TypeOK
    /\ logs \in [NotificationId -> [Device -> Seq(Outcome)]]

\* What the worker knows at each statement.
WorkerInv ==
    /\ worker.at # "idle" => worker.job \in Job
    /\ worker.at \in {"idle", "tokens"} => worker.tokens = {}
    /\ \A d \in worker.tokens : d[1] = worker.job.user /\ deviceTokens[d] = "active"
    /\ worker.at \in {"send", "log", "deactivate"} =>
           worker.device \in Device /\ worker.device \notin worker.tokens
    /\ worker.at \in {"send", "log"} =>
           worker.device[1] = worker.job.user /\ deviceTokens[worker.device] = "active"
    /\ worker.at = "log" =>
           /\ worker.outcome \in Outcome
           /\ worker.outcome = "invalid_token" => worker.device[2] \notin installed
    /\ worker.at = "deactivate" => worker.device[2] \notin installed

\* A notification has one job at most: to be pushed, in the list, or with the
\* worker; the job names its user.
JobsInv ==
    /\ \A i, j \in 1..Len(queue) :
           queue[i].notification = queue[j].notification
               /\ queue[i].notification \in NotificationId => i = j
    /\ \A i \in 1..Len(queue) : queue[i].notification \in NotificationId =>
           queue[i].user = notifications[queue[i].notification].user
    /\ \A n \in NotificationId :
           /\ notifications[n] = Null => n \notin unqueued /\ ~InQueue(n) /\ ~Taken(n)
           /\ n \in unqueued => ~InQueue(n) /\ ~Taken(n)
           /\ InQueue(n) => ~Taken(n)
           /\ Taken(n) => worker.job.user = notifications[n].user

AllFailed(log) == \A i \in 1..Len(log) : log[i] = "failed"

\* What has been pushed so far, by where the job is.
LogsInv ==
    \A n \in NotificationId, d \in Device :
        /\ notifications[n] = Null \/ n \in unqueued \/ InQueue(n) => logs[n][d] = <<>>
        /\ Taken(n) /\ (worker.at = "tokens" \/ d \in worker.tokens) => logs[n][d] = <<>>
        /\ Taken(n) /\ worker.at \in {"send", "log"} /\ d = worker.device =>
               Len(logs[n][d]) <= worker.attempt /\ AllFailed(logs[n][d])

PushInv == Typed /\ WorkerInv /\ JobsInv

-----------------------------------------------------------------------------
(* Lists.                                                                  *)

LEMMA Pushed ==
    ASSUME TypeOK, NEW job \in Job, Push(job)
    PROVE  /\ queue' \in Seq(Job) /\ Len(queue') <= MaxQueue
           /\ Len(queue') = Len(queue) + 1
           /\ \A i \in 1..Len(queue') : queue'[i] = IF i = 1 THEN job ELSE queue[i - 1]
<1>1. <<job>> \in Seq(Job) /\ Len(<<job>>) = 1 /\ <<job>>[1] = job
  OBVIOUS
<1>2. queue \in Seq(Job) /\ Len(queue) \in Nat /\ MaxQueue \in Nat
  BY NotificationsAssumption, LenProperties DEF TypeOK
<1>3. queue' = <<job>> \o queue /\ Len(queue) < MaxQueue
  BY DEF Push, LPush
<1>4. /\ queue' \in Seq(Job)
      /\ Len(queue') = 1 + Len(queue)
      /\ \A i \in 1..1 + Len(queue) :
             queue'[i] = IF i <= 1 THEN <<job>>[i] ELSE queue[i - 1]
  BY <1>1, <1>2, <1>3, ConcatProperties
<1> QED
  BY <1>1, <1>2, <1>3, <1>4

LEMMA Popped ==
    ASSUME TypeOK, BRPop
    PROVE  /\ queue' \in Seq(Job) /\ Len(queue') <= MaxQueue
           /\ Len(queue) \in Nat /\ Len(queue) > 0
           /\ Len(queue') = Len(queue) - 1
           /\ \A i \in 1..Len(queue') : queue'[i] = queue[i]
           /\ queue[Len(queue)] \in Job
<1>1. queue \in Seq(Job) /\ Len(queue) \in Nat /\ Len(queue) > 0
  BY EmptySeq, LenProperties DEF TypeOK, BRPop
<1>2. \A i \in 1..Len(queue) : queue[i] \in Job
  BY <1>1, ElementOfSeq
<1> DEFINE m == Len(queue) - 1
<1>3. m \in Nat /\ queue' = SubSeq(queue, 1, m) /\ m + 1 = Len(queue)
  BY <1>1 DEF BRPop
<1>4. ASSUME NEW n \in Nat, n + 1 = Len(queue)
      PROVE  /\ SubSeq(queue, 1, n) \in Seq(Job) /\ Len(SubSeq(queue, 1, n)) = n
             /\ \A i \in 1..n : SubSeq(queue, 1, n)[i] = queue[i]
  <2>1. \A i \in 1..n : queue[i] \in Job
    BY <1>2, <1>4
  <2>2. 1 \in Int /\ n \in Int
    BY <1>4
  <2>3. /\ SubSeq(queue, 1, n) \in Seq(Job)
        /\ Len(SubSeq(queue, 1, n)) = IF 1 <= n THEN n - 1 + 1 ELSE 0
        /\ \A i \in 1..n - 1 + 1 : SubSeq(queue, 1, n)[i] = queue[1 + i - 1]
    BY <2>1, <2>2, SubSeqProperties
  <2>4. n - 1 + 1 = n /\ \A i \in 1..n : 1 + i - 1 = i
    BY <1>4
  <2> QED
    BY <1>4, <2>3, <2>4
<1>5. MaxQueue \in Nat /\ Len(queue) <= MaxQueue
  BY NotificationsAssumption DEF TypeOK
<1> HIDE DEF m
<1> QED
  BY <1>1, <1>2, <1>3, <1>4, <1>5

LEMMA Logged ==
    ASSUME NEW log \in Seq(Outcome), NEW outcome \in Outcome
    PROVE  /\ Append(log, outcome) \in Seq(Outcome)
           /\ Len(log) \in Nat
           /\ Len(Append(log, outcome)) = Len(log) + 1
           /\ \A i \in 1..Len(log) : Append(log, outcome)[i] = log[i]
           /\ Append(log, outcome)[Len(log) + 1] = outcome
BY AppendProperties, LenProperties

-----------------------------------------------------------------------------
(* Types.                                                                  *)

LEMMA AttemptIsDone ==
    ASSUME Typed, worker.at = "log", worker' = AfterAttempt(worker)
    PROVE  /\ worker' \in Worker
           /\ worker'.job = worker.job /\ worker'.tokens = worker.tokens
           /\ worker'.device = worker.device
           /\ \/ /\ worker'.at = "send" /\ worker.outcome = "failed"
                 /\ worker.attempt < 2 /\ worker'.attempt = worker.attempt + 1
              \/ worker'.at = "next"
              \/ worker'.at = "deactivate" /\ worker.outcome = "invalid_token"
<1> DEFINE w == worker
<1>1. w \in Worker /\ w.attempt \in 0..2
  BY DEF Typed, TypeOK, Worker, maxAttempts
<1>2. CASE Retries(w)
  <2> DEFINE v == [w EXCEPT !.at = "send", !.attempt = @ + 1, !.outcome = Null]
             n == w.attempt + 1
  <2>1. w.outcome = "failed" /\ w.attempt < 2 /\ n \in 0..maxAttempts - 1
    BY <1>1, <1>2 DEF Retries, maxAttempts
  <2> HIDE DEF n
  <2>2. v = [w EXCEPT !.at = "send", !.attempt = n, !.outcome = Null]
    BY DEF n
  <2>3. v \in Worker
    BY <1>1, <2>1, <2>2 DEF Worker
  <2>4. /\ v.job = w.job /\ v.tokens = w.tokens /\ v.device = w.device
        /\ v.at = "send" /\ v.attempt = n
    BY <1>1, <2>2 DEF Worker
  <2>5. worker' = v
    BY <1>2 DEF AfterAttempt
  <2> HIDE DEF v
  <2> QED
    BY <2>1, <2>3, <2>4, <2>5 DEF n
<1>3. CASE ~Retries(w)
  <2> DEFINE at == IF Deactivates(w) THEN "deactivate" ELSE "next"
             v == [w EXCEPT !.at = at, !.attempt = 0, !.outcome = Null]
  <2>1. at \in {"deactivate", "next"} /\ (at = "deactivate" => w.outcome = "invalid_token")
    BY DEF Deactivates
  <2>2. worker' = v
    BY <1>3 DEF AfterAttempt
  <2> HIDE DEF at
  <2>3. 0 \in 0..maxAttempts - 1
    BY DEF maxAttempts
  <2>4. v \in Worker
    BY <1>1, <2>1, <2>3 DEF Worker
  <2>5. v.job = w.job /\ v.tokens = w.tokens /\ v.device = w.device /\ v.at = at
    BY <1>1 DEF Worker
  <2> HIDE DEF v
  <2> QED
    BY <2>1, <2>2, <2>4, <2>5
<1> QED
  BY <1>2, <1>3

\* The fields of a worker that has just begun, or ended, a job.
LEMMA WorkerBegins ==
    /\ Idle \in Worker /\ Idle.at = "idle" /\ Idle.tokens = {}
    /\ \A job \in Job :
           LET w == [Idle EXCEPT !.at = "tokens", !.job = job]
           IN  w \in Worker /\ w.at = "tokens" /\ w.job = job /\ w.tokens = {}
<1>1. 0 \in 0..maxAttempts - 1
  BY DEF maxAttempts
<1>2. Idle \in Worker /\ Idle.at = "idle" /\ Idle.tokens = {}
  BY <1>1 DEF Idle, Worker
<1>3. ASSUME NEW job \in Job
      PROVE  LET w == [Idle EXCEPT !.at = "tokens", !.job = job]
             IN  w \in Worker /\ w.at = "tokens" /\ w.job = job /\ w.tokens = {}
  BY <1>2 DEF Worker
<1> QED
  BY <1>2, <1>3

LEMMA WorkerGetsTokens ==
    ASSUME Typed, GetActiveDeviceTokens
    PROVE  /\ worker' \in Worker /\ worker.at = "tokens"
           /\ \/ worker' = Idle
              \/ /\ worker'.at = "next" /\ worker'.job = worker.job
                 /\ worker'.tokens = ActiveTokens(worker.job.user)
<1> DEFINE S == ActiveTokens(worker.job.user)
<1>1. S \in SUBSET Device
  BY DEF ActiveTokens
<1>2. /\ worker.at = "tokens" /\ worker \in Worker
      /\ \/ worker' = Idle
         \/ worker' = [worker EXCEPT !.at = "next", !.tokens = S]
  BY DEF GetActiveDeviceTokens, Typed, TypeOK
<1> HIDE DEF S
<1>3. CASE worker' = Idle
  BY <1>2, <1>3, WorkerBegins
<1>4. CASE worker' = [worker EXCEPT !.at = "next", !.tokens = S]
  <2>1. worker' \in Worker
    BY <1>1, <1>2, <1>4 DEF Worker
  <2>2. worker'.at = "next" /\ worker'.job = worker.job /\ worker'.tokens = S
    BY <1>2, <1>4 DEF Worker
  <2> QED
    BY <1>2, <2>1, <2>2 DEF S
<1> QED
  BY <1>2, <1>3, <1>4

LEMMA WorkerTakesToken ==
    ASSUME Typed, NextToken
    PROVE  /\ worker' \in Worker /\ worker.at = "next"
           /\ \/ worker' = Idle
              \/ /\ worker'.at = "send" /\ worker'.job = worker.job
                 /\ worker'.device \in worker.tokens /\ worker'.device \in Device
                 /\ worker'.tokens = worker.tokens \ {worker'.device}
                 /\ worker'.attempt = 0
<1>1. worker \in Worker /\ worker.tokens \subseteq Device /\ worker.at = "next"
  BY DEF Typed, TypeOK, Worker, NextToken
<1>2. ASSUME NEW d \in worker.tokens,
             worker' = [worker EXCEPT !.at = "send", !.device = d,
                                      !.tokens = @ \ {d}, !.attempt = 0]
      PROVE  /\ worker' \in Worker
             /\ worker'.at = "send" /\ worker'.job = worker.job
             /\ worker'.device = d /\ worker'.tokens = worker.tokens \ {d}
             /\ worker'.attempt = 0
  <2> DEFINE rest == worker.tokens \ {d}
  <2>1. 0 \in 0..maxAttempts - 1
    BY DEF maxAttempts
  <2>2. rest \in SUBSET Device /\ d \in Device
    BY <1>1
  <2>3. worker' = [worker EXCEPT !.at = "send", !.device = d, !.tokens = rest, !.attempt = 0]
    BY <1>1, <1>2 DEF Worker
  <2> HIDE DEF rest
  <2>4. worker' \in Worker
    BY <1>1, <2>1, <2>2, <2>3 DEF Worker
  <2>5. /\ worker'.at = "send" /\ worker'.job = worker.job
        /\ worker'.device = d /\ worker'.tokens = rest
        /\ worker'.attempt = 0
    BY <1>1, <2>3 DEF Worker
  <2> QED
    BY <2>4, <2>5 DEF rest
<1>3. CASE worker.tokens = {}
  BY <1>1, <1>3, WorkerBegins DEF NextToken
<1>4. CASE worker.tokens # {}
  <2>1. PICK d \in worker.tokens :
            worker' = [worker EXCEPT !.at = "send", !.device = d,
                                     !.tokens = @ \ {d}, !.attempt = 0]
    BY <1>4 DEF NextToken
  <2> QED
    BY <1>1, <1>2, <2>1
<1> QED
  BY <1>3, <1>4

LEMMA WorkerSends ==
    ASSUME Typed, NEW outcome \in Outcome, SendPush(outcome)
    PROVE  /\ worker' \in Worker /\ worker.at = "send" /\ worker'.at = "log"
           /\ worker'.job = worker.job /\ worker'.tokens = worker.tokens
           /\ worker'.device = worker.device /\ worker'.attempt = worker.attempt
           /\ worker'.outcome = outcome
BY DEF SendPush, Typed, TypeOK, Worker

LEMMA WorkerDeactivates ==
    ASSUME Typed, DeactivateToken
    PROVE  /\ worker' \in Worker /\ worker.at = "deactivate" /\ worker'.at = "next"
           /\ worker'.job = worker.job /\ worker'.tokens = worker.tokens
BY DEF DeactivateToken, Typed, TypeOK, Worker

LEMMA WorkerGivesUp ==
    ASSUME Typed, GiveUp
    PROVE  /\ worker' \in Worker /\ worker.at = "send" /\ worker'.at = "next"
           /\ worker'.job = worker.job /\ worker'.tokens = worker.tokens
<1>1. 0 \in 0..maxAttempts - 1
  BY DEF maxAttempts
<1> QED
  BY <1>1 DEF GiveUp, Typed, TypeOK, Worker

LEMMA WorkerIsStopped ==
    ASSUME Typed, Stop
    PROVE  /\ worker' \in Worker /\ worker.at # "idle" /\ worker'.at = worker.at
           /\ worker'.job = worker.job /\ worker'.tokens = worker.tokens
           /\ worker'.device = worker.device /\ worker'.attempt = worker.attempt
           /\ worker'.outcome = worker.outcome
BY DEF Stop, Typed, TypeOK, Worker

LEMMA NullIsNoNotification ==
    Null \notin NotificationId /\ Null \notin [user: User, isRead: BOOLEAN]
BY NotificationsAssumption

LEMMA MarkedRead ==
    ASSUME TypeOK, NEW u \in User, NEW ids \in SUBSET NotificationId, MarkRead(u, ids)
    PROVE  /\ notifications' \in [NotificationId -> [user: User, isRead: BOOLEAN] \cup {Null}]
           /\ \A n \in NotificationId :
                  /\ notifications'[n] = Null <=> notifications[n] = Null
                  /\ notifications[n] # Null => notifications'[n].user = notifications[n].user
<1>1. ASSUME NEW n \in NotificationId, notifications[n] # Null
      PROVE  LET row == [notifications[n] EXCEPT !.isRead = TRUE]
             IN  row \in [user: User, isRead: BOOLEAN] /\ row.user = notifications[n].user
  <2>1. notifications[n] \in [user: User, isRead: BOOLEAN]
    BY <1>1 DEF TypeOK
  <2> QED
    BY <2>1
<1>2. /\ notifications \in [NotificationId -> [user: User, isRead: BOOLEAN] \cup {Null}]
      /\ notifications' = [n \in NotificationId |->
             IF n \in ids /\ notifications[n] # Null /\ notifications[n].user = u
             THEN [notifications[n] EXCEPT !.isRead = TRUE]
             ELSE notifications[n]]
  BY DEF MarkRead, TypeOK
<1> QED
  BY <1>1, <1>2, NullIsNoNotification

LEMMA LogRowType ==
    ASSUME Typed, worker.at = "log", worker.device \in Device, worker.outcome \in Outcome,
           NEW n \in NotificationId,
           logs' = [logs EXCEPT ![n][worker.device] = Append(@, worker.outcome)]
    PROVE  /\ logs' \in [NotificationId -> [Device -> Seq(Outcome)]]
           /\ logs'[n][worker.device] = Append(logs[n][worker.device], worker.outcome)
           /\ \A m \in NotificationId, d \in Device :
                  m # n \/ d # worker.device => logs'[m][d] = logs[m][d]
<1>1. logs \in [NotificationId -> [Device -> Seq(Outcome)]]
  BY DEF Typed
<1> DEFINE log == Append(logs[n][worker.device], worker.outcome)
           row == [logs[n] EXCEPT ![worker.device] = log]
<1>2. log \in Seq(Outcome)
  BY <1>1, Logged
<1>3. logs' = [logs EXCEPT ![n] = row]
  BY <1>1
<1> HIDE DEF log
<1>4. row \in [Device -> Seq(Outcome)] /\ row[worker.device] = log
      /\ \A d \in Device : d # worker.device => row[d] = logs[n][d]
  BY <1>1, <1>2
<1> HIDE DEF row
<1> QED
  BY <1>1, <1>3, <1>4 DEF log

\* The job a handler pushes.
LEMMA HandlersJob ==
    ASSUME PushInv, NEW n \in unqueued
    PROVE  /\ [notification |-> n, user |-> notifications[n].user] \in Job
           /\ n \in NotificationId /\ notifications[n] # Null
<1>1. n \in NotificationId /\ notifications[n] # Null
  BY DEF PushInv, Typed, TypeOK, JobsInv
<1>2. notifications[n] \in [user: User, isRead: BOOLEAN]
  BY <1>1 DEF PushInv, Typed, TypeOK
<1> QED
  BY <1>1, <1>2 DEF Job

LEMMA TypedStep ==
    ASSUME PushInv, [Next]_vars
    PROVE  Typed'
<1> DEFINE Kept == /\ notifications' \in [NotificationId -> [user: User, isRead: BOOLEAN] \cup {Null}]
                   /\ unqueued' \subseteq NotificationId
                   /\ deviceTokens' \in [Device -> {"active", "inactive", Null}]
                   /\ installed' \subseteq Token
                   /\ queue' \in Seq(Job) /\ Len(queue') <= MaxQueue
                   /\ logs' \in [NotificationId -> [Device -> Seq(Outcome)]]
                   /\ worker' \in Worker
<1> USE DEF PushInv, Typed
<1>1. ASSUME NEW n \in NotificationId, NEW u \in User, CreateNotification(n, u) PROVE Kept
  BY <1>1 DEF CreateNotification, TypeOK
<1>2. ASSUME NEW n \in NotificationId, Enqueue(n) PROVE Kept
  <2> DEFINE job == [notification |-> n, user |-> notifications[n].user]
  <2>1. n \in unqueued /\ Push(job)
    BY <1>2 DEF Enqueue
  <2>2. job \in Job
    BY <2>1, HandlersJob
  <2> HIDE DEF job
  <2> QED
    BY <1>2, <2>1, <2>2, Pushed DEF Enqueue, TypeOK
<1>3. ASSUME NEW n \in NotificationId, EnqueueFails(n) PROVE Kept
  BY <1>3 DEF EnqueueFails, TypeOK
<1>4. ASSUME NEW u \in User, EnqueueNotification(u) PROVE Kept
  <2> DEFINE job == [notification |-> Null, user |-> u]
  <2>1. job \in Job /\ Push(job)
    BY <1>4 DEF EnqueueNotification, Job
  <2> HIDE DEF job
  <2> QED
    BY <1>4, <2>1, Pushed DEF EnqueueNotification, TypeOK, feed
<1>5. ASSUME NEW u \in User, NEW ids \in SUBSET NotificationId \ {{}}, MarkRead(u, ids) PROVE Kept
  BY <1>5, MarkedRead DEF MarkRead, TypeOK
<1>6. ASSUME NEW d \in Device, SaveDeviceToken(d) PROVE Kept
  BY <1>6 DEF SaveDeviceToken, TypeOK, feed
<1>7. ASSUME NEW t \in Token, Uninstall(t) PROVE Kept
  BY <1>7 DEF Uninstall, TypeOK, feed
<1>8. ASSUME BRPop PROVE Kept
  <2>1. worker' \in Worker
    BY <1>8, Popped, WorkerBegins DEF BRPop
  <2> QED
    BY <1>8, <2>1, Popped DEF BRPop, TypeOK, feed
<1>9. ASSUME GetActiveDeviceTokens PROVE Kept
  BY <1>9, WorkerGetsTokens DEF GetActiveDeviceTokens, TypeOK, feed
<1>10. ASSUME NextToken PROVE Kept
  BY <1>10, WorkerTakesToken DEF NextToken, TypeOK, feed
<1>11. ASSUME NEW outcome \in Outcome, SendPush(outcome) PROVE Kept
  BY <1>11, WorkerSends DEF SendPush, TypeOK, feed
<1>12. ASSUME LogDeliveryAttempt PROVE Kept
  <2> DEFINE n == worker.job.notification
  <2>1. /\ worker.at = "log" /\ worker' = AfterAttempt(worker)
        /\ \/ n # Null /\ logs' = [logs EXCEPT ![n][worker.device] =
                                       Append(@, worker.outcome)]
           \/ logs' = logs
    BY <1>12 DEF LogDeliveryAttempt
  <2>2. worker.device \in Device /\ worker.outcome \in Outcome /\ worker.job \in Job
    BY <2>1 DEF WorkerInv
  <2>3. n # Null => n \in NotificationId
    BY <2>2 DEF Job
  <2>4. logs' \in [NotificationId -> [Device -> Seq(Outcome)]]
    BY <2>1, <2>2, <2>3, LogRowType
  <2> QED
    BY <1>12, <2>1, <2>4, AttemptIsDone DEF LogDeliveryAttempt, TypeOK, feed
<1>13. ASSUME DeactivateToken PROVE Kept
  BY <1>13, WorkerDeactivates DEF DeactivateToken, TypeOK, feed, WorkerInv
<1>14. ASSUME Restart PROVE Kept
  BY <1>14, WorkerBegins DEF Restart, TypeOK, feed
<1>15. ASSUME GiveUp PROVE Kept
  BY <1>15, WorkerGivesUp DEF GiveUp, TypeOK, feed
<1>16. ASSUME Stop PROVE Kept
  BY <1>16, WorkerIsStopped DEF Stop, TypeOK, feed
<1>17. ASSUME UNCHANGED vars PROVE Kept
  BY <1>17 DEF vars, TypeOK
<1>18. Kept
  BY <1>1, <1>2, <1>3, <1>4, <1>5, <1>6, <1>7, <1>8, <1>9, <1>10, <1>11, <1>12, <1>13,
     <1>14, <1>15, <1>16, <1>17 DEF Next, Work
<1> QED
  BY <1>18 DEF TypeOK

-----------------------------------------------------------------------------
(* The worker.                                                             *)

\* Whatever does not move the worker leaves it what it knows.
LEMMA WorkerStays ==
    ASSUME Typed, WorkerInv, worker' = worker, installed' \subseteq installed,
           \A d \in Device : deviceTokens[d] = "active" => deviceTokens'[d] = "active"
    PROVE  WorkerInv'
<1>1. worker.tokens \subseteq Device
  BY DEF Typed, TypeOK, Worker
<1> QED
  BY <1>1 DEF WorkerInv

LEMMA WorkerStep ==
    ASSUME PushInv, [Next]_vars
    PROVE  WorkerInv'
<1> USE DEF PushInv
<1>1. ASSUME \/ \E n \in NotificationId, u \in User : CreateNotification(n, u)
             \/ \E n \in NotificationId : Enqueue(n) \/ EnqueueFails(n)
             \/ \E u \in User : EnqueueNotification(u)
             \/ \E u \in User, ids \in SUBSET NotificationId \ {{}} : MarkRead(u, ids)
             \/ \E t \in Token : Uninstall(t)
             \/ UNCHANGED vars
      PROVE  WorkerInv'
  <2>1. worker' = worker /\ installed' \subseteq installed /\ deviceTokens' = deviceTokens
    BY <1>1 DEF CreateNotification, Enqueue, EnqueueFails, EnqueueNotification, MarkRead,
                Uninstall, vars, feed
  <2> QED
    BY <2>1, WorkerStays
<1>2. CASE BRPop
  <2>1. queue[Len(queue)] \in Job
    BY <1>2, Popped DEF Typed
  <2>2. worker' = [Idle EXCEPT !.at = "tokens", !.job = queue[Len(queue)]]
    BY <1>2 DEF BRPop
  <2>3. worker'.at = "tokens" /\ worker'.job \in Job /\ worker'.tokens = {}
    BY <2>1, <2>2, WorkerBegins
  <2> QED
    BY <2>3 DEF WorkerInv
<1>3. CASE GetActiveDeviceTokens
  <2>1. CASE worker' = Idle
    BY <2>1, WorkerBegins DEF WorkerInv
  <2>2. CASE worker'.at = "next" /\ worker'.job = worker.job
             /\ worker'.tokens = ActiveTokens(worker.job.user)
    <3>1. worker.job \in Job /\ deviceTokens' = deviceTokens
      BY <1>3 DEF WorkerInv, GetActiveDeviceTokens
    <3> QED
      BY <2>2, <3>1 DEF WorkerInv, ActiveTokens
  <2> QED
    BY <1>3, <2>1, <2>2, WorkerGetsTokens
<1>4. CASE NextToken
  <2>1. CASE worker' = Idle
    <3>1. worker'.at = "idle" /\ worker'.tokens = {}
      BY <2>1, WorkerBegins
    <3> QED
      BY <3>1 DEF WorkerInv
  <2>2. CASE /\ worker'.at = "send" /\ worker'.job = worker.job
             /\ worker'.device \in worker.tokens /\ worker'.device \in Device
             /\ worker'.tokens = worker.tokens \ {worker'.device}
    <3>1. worker.at = "next" /\ deviceTokens' = deviceTokens
      BY <1>4 DEF NextToken
    <3> QED
      BY <2>2, <3>1 DEF WorkerInv
  <2> QED
    BY <1>4, <2>1, <2>2, WorkerTakesToken
<1>5. ASSUME NEW outcome \in Outcome, SendPush(outcome) PROVE WorkerInv'
  <2>1. /\ outcome = "invalid_token" => worker.device[2] \notin installed
        /\ installed' = installed /\ deviceTokens' = deviceTokens
    BY <1>5 DEF SendPush
  <2> QED
    BY <1>5, <2>1, WorkerSends DEF WorkerInv
<1>6. CASE LogDeliveryAttempt
  <2>1. /\ worker.at = "log" /\ worker' = AfterAttempt(worker)
        /\ installed' = installed /\ deviceTokens' = deviceTokens
    BY <1>6 DEF LogDeliveryAttempt
  <2> QED
    BY <2>1, AttemptIsDone DEF WorkerInv
<1>7. CASE DeactivateToken
  <2>1. worker.tokens \subseteq Device /\ worker.device \notin worker.tokens
    BY <1>7 DEF DeactivateToken, WorkerInv, Typed, TypeOK, Worker
  <2>2. \A d \in worker.tokens : deviceTokens'[d] = deviceTokens[d]
    BY <1>7, <2>1 DEF DeactivateToken, Typed, TypeOK
  <2> QED
    BY <1>7, <2>2, WorkerDeactivates DEF WorkerInv
<1>8. CASE Restart
  BY <1>8, WorkerBegins DEF Restart, WorkerInv
<1>9. ASSUME NEW d \in Device, SaveDeviceToken(d) PROVE WorkerInv'
  BY <1>9, WorkerStays DEF SaveDeviceToken, Typed, TypeOK
<1>10. CASE GiveUp
  <2>1. deviceTokens' = deviceTokens
    BY <1>10 DEF GiveUp
  <2> QED
    BY <1>10, <2>1, WorkerGivesUp DEF WorkerInv
<1>11. CASE Stop
  <2>1. deviceTokens' = deviceTokens /\ installed' = installed
    BY <1>11 DEF Stop
  <2> QED
    BY <1>11, <2>1, WorkerIsStopped DEF WorkerInv
<1> QED
  BY <1>1, <1>2, <1>3, <1>4, <1>5, <1>6, <1>7, <1>8, <1>9, <1>10, <1>11 DEF Next, Work

-----------------------------------------------------------------------------
(* Jobs.                                                                   *)

\* What becomes of the job of one notification.
Stays(n) ==
    /\ notifications[n] = Null <=> notifications'[n] = Null
    /\ notifications[n] # Null => notifications'[n].user = notifications[n].user
    /\ n \in unqueued' => n \in unqueued

LEMMA JobsKept ==
    ASSUME PushInv, \A n \in NotificationId : Stays(n), queue' = queue,
           \/ worker' = worker
           \/ worker'.at = "idle"
           \/ worker.at # "idle" /\ worker'.job = worker.job
    PROVE  JobsInv' /\ \A n \in NotificationId : Taken(n)' => Taken(n)
<1> USE DEF PushInv
<1>1. \A n \in NotificationId : Taken(n)' => Taken(n) /\ worker'.job = worker.job
  BY DEF Taken
<1>2. \A n \in NotificationId : InQueue(n)' <=> InQueue(n)
  BY DEF InQueue
<1>3. \A i \in 1..Len(queue) : queue[i].notification \in NotificationId =>
          /\ notifications[queue[i].notification] # Null
          /\ queue[i].user = notifications[queue[i].notification].user
  BY DEF JobsInv, InQueue
<1>4. \A n \in NotificationId :
          /\ notifications'[n] = Null => n \notin unqueued' /\ ~InQueue(n)' /\ ~Taken(n)'
          /\ n \in unqueued' => ~InQueue(n)' /\ ~Taken(n)'
          /\ InQueue(n)' => ~Taken(n)'
          /\ Taken(n)' => worker'.job.user = notifications'[n].user
  BY <1>1, <1>2 DEF JobsInv, Stays
<1>5. \A i \in 1..Len(queue') : queue'[i].notification \in NotificationId =>
          queue'[i].user = notifications'[queue'[i].notification].user
  BY <1>3 DEF Stays
<1> QED
  BY <1>1, <1>4, <1>5 DEF JobsInv

LEMMA JobsPushed ==
    ASSUME PushInv, NEW job \in Job, Push(job),
           UNCHANGED <<notifications, worker>>, unqueued' \subseteq unqueued,
           job.notification \in NotificationId =>
               /\ job.notification \in unqueued \ unqueued'
               /\ job.user = notifications[job.notification].user
    PROVE  /\ JobsInv'
           /\ \A n \in NotificationId :
                  InQueue(n)' => InQueue(n) \/ n \in unqueued
<1> USE DEF PushInv
<1> DEFINE q == queue'
<1>1. /\ Len(queue) \in Nat /\ Len(q) = Len(queue) + 1
      /\ q[1] = job
      /\ \A i \in 2..Len(q) : i - 1 \in 1..Len(queue) /\ q[i] = queue[i - 1]
  <2>1. Len(queue) \in Nat
    BY LenProperties DEF Typed, TypeOK
  <2>2. /\ Len(q) = Len(queue) + 1
        /\ \A i \in 1..Len(q) : q[i] = IF i = 1 THEN job ELSE queue[i - 1]
    BY Pushed DEF Typed
  <2> HIDE DEF q
  <2> QED
    BY <2>1, <2>2
<1> HIDE DEF q
<1>2. ASSUME NEW i \in 1..Len(q)
      PROVE  \/ i = 1 /\ q[i] = job
             \/ i \in 2..Len(q) /\ i - 1 \in 1..Len(queue) /\ q[i] = queue[i - 1]
  BY <1>1, <1>2
<1>3. ASSUME NEW n \in NotificationId, InQueue(n)'
      PROVE  InQueue(n) \/ n = job.notification
  BY <1>2, <1>3 DEF InQueue, q
<1>4. ASSUME NEW i \in 1..Len(q), NEW j \in 1..Len(q),
             q[i].notification = q[j].notification, q[i].notification \in NotificationId
      PROVE  i = j
  <2>1. ASSUME NEW k \in 2..Len(q), q[k].notification = job.notification,
               job.notification \in NotificationId
        PROVE  FALSE
    <3>1. InQueue(job.notification)
      BY <1>1, <2>1 DEF InQueue
    <3> QED
      BY <2>1, <3>1 DEF JobsInv
  <2>2. CASE i = 1 /\ j = 1
    BY <2>2
  <2>3. CASE i = 1 /\ j \in 2..Len(q)
    BY <1>1, <1>4, <2>1, <2>3
  <2>4. CASE j = 1 /\ i \in 2..Len(q)
    BY <1>1, <1>4, <2>1, <2>4
  <2>5. CASE i \in 2..Len(q) /\ j \in 2..Len(q)
    <3>1. i - 1 = j - 1
      BY <1>1, <1>4, <2>5 DEF JobsInv
    <3> QED
      BY <2>5, <3>1
  <2> QED
    BY <1>2, <2>2, <2>3, <2>4, <2>5
<1>5. ASSUME NEW i \in 1..Len(q), q[i].notification \in NotificationId
      PROVE  q[i].user = notifications[q[i].notification].user
  BY <1>2, <1>5 DEF JobsInv
<1>6. ASSUME NEW n \in NotificationId
      PROVE  /\ notifications[n] = Null => n \notin unqueued' /\ ~InQueue(n)' /\ ~Taken(n)
             /\ n \in unqueued' => ~InQueue(n)' /\ ~Taken(n)
             /\ InQueue(n)' => ~Taken(n)
             /\ Taken(n) => worker.job.user = notifications[n].user
  BY <1>3 DEF JobsInv
<1>7. \A n \in NotificationId : Taken(n)' <=> Taken(n)
  BY DEF Taken
<1>8. JobsInv'
  BY <1>4, <1>5, <1>6, <1>7 DEF JobsInv, q
<1> QED
  BY <1>3, <1>8

LEMMA JobsPopped ==
    ASSUME PushInv, BRPop
    PROVE  /\ JobsInv'
           /\ worker'.at = "tokens"
           /\ \A n \in NotificationId :
                  (InQueue(n)' => InQueue(n)) /\ (Taken(n)' => InQueue(n))
<1> USE DEF PushInv
<1> DEFINE last == Len(queue)
           job == queue[last]
<1>1. /\ last \in Nat /\ last > 0 /\ Len(queue') = last - 1
      /\ \A i \in 1..Len(queue') : queue'[i] = queue[i]
      /\ job \in Job
  BY Popped DEF Typed
<1>2. /\ worker' = [Idle EXCEPT !.at = "tokens", !.job = job]
      /\ UNCHANGED <<notifications, unqueued>> /\ worker.at = "idle"
  BY DEF BRPop, feed
<1>3. worker'.at = "tokens" /\ worker'.job = job
  BY <1>1, <1>2, WorkerBegins
<1>4. last \in 1..Len(queue) /\ \A i \in 1..Len(queue') : i \in 1..Len(queue) /\ i # last
  BY <1>1
<1> HIDE DEF last
<1>5. ASSUME NEW n \in NotificationId
      PROVE  /\ InQueue(n)' => InQueue(n)
             /\ Taken(n)' => InQueue(n) /\ job.notification = n
             /\ InQueue(n)' => ~Taken(n)'
  <2>1. InQueue(n)' => InQueue(n)
    BY <1>1, <1>4 DEF InQueue
  <2>2. Taken(n)' => InQueue(n) /\ job.notification = n
    BY <1>3, <1>4 DEF InQueue, Taken
  <2>3. ASSUME NEW i \in 1..Len(queue'), queue'[i].notification = n, job.notification = n
        PROVE  FALSE
    BY <1>1, <1>4, <2>3 DEF JobsInv
  <2> QED
    BY <2>1, <2>2, <2>3 DEF InQueue
<1>6. job.notification \in NotificationId =>
          job.user = notifications[job.notification].user
  BY <1>4 DEF JobsInv
<1>7. JobsInv'
  <2>1. ASSUME NEW n \in NotificationId
        PROVE  /\ notifications[n] = Null => n \notin unqueued /\ ~InQueue(n)' /\ ~Taken(n)'
               /\ n \in unqueued => ~InQueue(n)' /\ ~Taken(n)'
               /\ InQueue(n)' => ~Taken(n)'
               /\ Taken(n)' => worker'.job.user = notifications[n].user
    BY <1>3, <1>5, <1>6 DEF JobsInv
  <2>2. \A i, j \in 1..Len(queue') :
            queue'[i].notification = queue'[j].notification
                /\ queue'[i].notification \in NotificationId => i = j
    BY <1>1, <1>4 DEF JobsInv
  <2>3. \A i \in 1..Len(queue') : queue'[i].notification \in NotificationId =>
            queue'[i].user = notifications[queue'[i].notification].user
    BY <1>1, <1>4 DEF JobsInv
  <2> QED
    BY <1>2, <2>1, <2>2, <2>3 DEF JobsInv
<1> QED
  BY <1>3, <1>5, <1>7

-----------------------------------------------------------------------------
(* Attempts.                                                               *)

Waits(n) == notifications[n] = Null \/ n \in unqueued \/ InQueue(n)

\* A step that logs nothing.
LEMMA NothingLogged ==
    ASSUME PushInv, LogsInv, logs' = logs, worker' \in Worker,
           \A n \in NotificationId : Waits(n)' => Waits(n),
           \A n \in NotificationId : Taken(n)' =>
               \/ worker'.at = "tokens" /\ Waits(n)
               \/ worker'.at = "tokens" /\ Taken(n) /\ worker.at = "tokens"
               \/ /\ Taken(n) /\ worker'.at # "tokens"
                  /\ worker.at = "tokens" \/ worker'.tokens \subseteq worker.tokens
                  /\ worker'.at \in {"send", "log"} =>
                         \/ worker'.device \in worker.tokens
                         \/ /\ worker.at \in {"send", "log"}
                            /\ worker'.device = worker.device
                            /\ worker'.attempt \in {worker.attempt, worker.attempt + 1}
    PROVE  LogsInv'
<1> SUFFICES ASSUME NEW n \in NotificationId, NEW d \in Device
             PROVE  /\ Waits(n)' => logs[n][d] = <<>>
                    /\ Taken(n)' /\ (worker'.at = "tokens" \/ d \in worker'.tokens) =>
                           logs[n][d] = <<>>
                    /\ Taken(n)' /\ worker'.at \in {"send", "log"} /\ d = worker'.device =>
                           Len(logs[n][d]) <= worker'.attempt /\ AllFailed(logs[n][d])
  BY DEF LogsInv, Waits, AllFailed
<1>1. Waits(n) => logs[n][d] = <<>>
  BY DEF LogsInv, Waits
<1>2. Taken(n) /\ (worker.at = "tokens" \/ d \in worker.tokens) => logs[n][d] = <<>>
  BY DEF LogsInv
<1>3. Taken(n) /\ worker.at \in {"send", "log"} /\ d = worker.device =>
          Len(logs[n][d]) <= worker.attempt /\ AllFailed(logs[n][d])
  BY DEF LogsInv
<1>4. worker'.attempt \in Nat /\ worker.attempt \in Nat /\ Len(logs[n][d]) \in Nat
  BY LenProperties DEF Worker, PushInv, Typed, TypeOK, maxAttempts
<1>5. logs[n][d] = <<>> => Len(logs[n][d]) <= worker'.attempt /\ AllFailed(logs[n][d])
  <2>1. Len(<<>>) = 0
    OBVIOUS
  <2> QED
    BY <1>4, <2>1 DEF AllFailed
<1>6. Taken(n)' /\ (worker'.at = "tokens" \/ d \in worker'.tokens) => logs[n][d] = <<>>
  BY <1>1, <1>2
<1>7. Taken(n)' /\ worker'.at \in {"send", "log"} /\ d = worker'.device =>
          Len(logs[n][d]) <= worker'.attempt /\ AllFailed(logs[n][d])
  BY <1>2, <1>3, <1>4, <1>5
<1> QED
  BY <1>1, <1>6, <1>7

LEMMA AttemptLogged ==
    ASSUME PushInv, LogsInv, AttemptsEnd, LogDeliveryAttempt
    PROVE  LogsInv' /\ AttemptsEnd'
<1> USE DEF PushInv
<1> DEFINE n == worker.job.notification
           e == worker.device
<1>1. /\ worker.at = "log" /\ worker' = AfterAttempt(worker)
      /\ \/ n # Null /\ logs' = [logs EXCEPT ![n][e] = Append(@, worker.outcome)]
         \/ logs' = logs
      /\ UNCHANGED <<notifications, unqueued, queue>>
  BY DEF LogDeliveryAttempt, feed
<1>2. e \in Device /\ worker.outcome \in Outcome /\ worker.job \in Job /\ e \notin worker.tokens
  BY <1>1 DEF WorkerInv
<1>3. /\ worker' \in Worker /\ worker'.job = worker.job
      /\ worker'.tokens = worker.tokens /\ worker'.device = e
      /\ \/ /\ worker'.at = "send" /\ worker.outcome = "failed"
            /\ worker.attempt < 2 /\ worker'.attempt = worker.attempt + 1
         \/ worker'.at \in {"next", "deactivate"}
  BY <1>1, AttemptIsDone
<1>4. \A m \in NotificationId : (Taken(m)' <=> Taken(m)) /\ (Waits(m)' <=> Waits(m))
  BY <1>1, <1>3 DEF Taken, Waits, InQueue
<1>5. CASE logs' = logs
  <2>1. LogsInv'
    BY <1>1, <1>3, <1>4, <1>5, NothingLogged
  <2> QED
    BY <1>5, <2>1 DEF AttemptsEnd
<1>6. CASE n # Null /\ logs' = [logs EXCEPT ![n][e] = Append(@, worker.outcome)]
  <2>1. n \in NotificationId /\ Taken(n)
    BY <1>1, <1>2, <1>6 DEF Job, Taken
  <2>2. /\ logs'[n][e] = Append(logs[n][e], worker.outcome)
        /\ \A m \in NotificationId, d \in Device :
               m # n \/ d # e => logs'[m][d] = logs[m][d]
    BY <1>1, <1>2, <1>6, <2>1, LogRowType
  <2> DEFINE log == logs[n][e]
             new == Append(log, worker.outcome)
  <2>3. /\ Len(log) <= worker.attempt /\ AllFailed(log) /\ log \in Seq(Outcome)
        /\ worker.attempt \in 0..2
    BY <1>1, <1>2, <2>1 DEF LogsInv, Typed, TypeOK, Worker, maxAttempts
  <2>4. /\ Len(log) \in Nat /\ Len(new) = Len(log) + 1
        /\ \A i \in 1..Len(log) : new[i] = "failed"
        /\ new[Len(log) + 1] = worker.outcome
    BY <1>2, <2>3, Logged DEF AllFailed
  <2>5. ~Waits(n)
    BY <2>1 DEF Waits, JobsInv
  <2> HIDE DEF log, new
  <2>6. Len(new) <= maxAttempts /\ \A i \in 1..Len(new) - 1 : new[i] = "failed"
    BY <2>3, <2>4 DEF maxAttempts
  <2>7. worker'.at = "send" => Len(new) <= worker'.attempt /\ AllFailed(new)
    <3>1. ASSUME worker'.at = "send", NEW i \in 1..Len(new) PROVE new[i] = "failed"
      <4>1. i \in 1..Len(log) \/ i = Len(log) + 1
        BY <2>4, <3>1
      <4> QED
        BY <1>3, <2>4, <3>1, <4>1
    <3> QED
      BY <1>3, <2>3, <2>4, <3>1 DEF AllFailed
  <2>8. LogsInv'
    <3> SUFFICES ASSUME NEW m \in NotificationId, NEW d \in Device
                 PROVE  /\ Waits(m) => logs'[m][d] = <<>>
                        /\ Taken(m) /\ (worker'.at = "tokens" \/ d \in worker'.tokens) =>
                               logs'[m][d] = <<>>
                        /\ Taken(m) /\ worker'.at \in {"send", "log"} /\ d = worker'.device =>
                               Len(logs'[m][d]) <= worker'.attempt /\ AllFailed(logs'[m][d])
      BY <1>4 DEF LogsInv, Waits, AllFailed
    <3>1. CASE m = n /\ d = e
      BY <1>2, <1>3, <2>2, <2>5, <2>7, <3>1 DEF new, log
    <3>2. CASE m = n /\ d # e
      BY <1>3, <2>1, <2>2, <2>5, <3>2 DEF LogsInv
    <3>3. CASE m # n
      <4>1. ~Taken(m) /\ logs'[m][d] = logs[m][d]
        BY <2>1, <2>2, <3>3 DEF Taken
      <4> QED
        BY <4>1 DEF LogsInv, Waits
    <3> QED
      BY <3>1, <3>2, <3>3
  <2>9. AttemptsEnd'
    <3> SUFFICES ASSUME NEW m \in NotificationId, NEW d \in Device
                 PROVE  /\ Len(logs'[m][d]) <= maxAttempts
                        /\ \A i \in 1..Len(logs'[m][d]) - 1 : logs'[m][d][i] = "failed"
      BY DEF AttemptsEnd
    <3>1. CASE m = n /\ d = e
      BY <2>2, <2>6, <3>1 DEF new, log
    <3>2. CASE ~(m = n /\ d = e)
      BY <2>2, <3>2 DEF AttemptsEnd
    <3> QED
      BY <3>1, <3>2
  <2> QED
    BY <2>8, <2>9
<1> QED
  BY <1>1, <1>5, <1>6

AttemptsInv == PushInv /\ LogsInv /\ AttemptsEnd

LEMMA AttemptsStep ==
    ASSUME AttemptsInv, [Next]_vars
    PROVE  JobsInv' /\ LogsInv' /\ AttemptsEnd'
<1> USE DEF AttemptsInv
<1> DEFINE Goal == JobsInv' /\ LogsInv' /\ AttemptsEnd'
<1>1. worker' \in Worker
  BY TypedStep DEF Typed, TypeOK
<1>2. ASSUME UNCHANGED <<queue, logs>>, \A n \in NotificationId : Stays(n),
             worker' = worker \/ worker'.at = "idle"
      PROVE  Goal
  <2>1. JobsInv' /\ \A n \in NotificationId : Taken(n)' => Taken(n)
    BY <1>2, JobsKept
  <2>2. \A n \in NotificationId : Waits(n)' => Waits(n)
    BY <1>2 DEF Waits, Stays, InQueue
  <2>3. \A n \in NotificationId : Taken(n)' => worker' = worker
    BY <1>2 DEF Taken
  <2>4. LogsInv'
    BY <1>1, <1>2, <2>1, <2>2, <2>3, NothingLogged
  <2>5. AttemptsEnd'
    BY <1>2 DEF AttemptsEnd
  <2> QED
    BY <2>1, <2>4, <2>5
<1>3. ASSUME NEW n \in NotificationId, NEW u \in User, CreateNotification(n, u) PROVE Goal
  <2> DEFINE row == [user |-> u, isRead |-> FALSE]
  <2>1. /\ notifications[n] = Null /\ notifications' = [notifications EXCEPT ![n] = row]
        /\ unqueued' = unqueued \cup {n}
        /\ UNCHANGED <<queue, logs, worker>>
    BY <1>3 DEF CreateNotification
  <2>2. row # Null
    <3>1. row \in [user: User, isRead: BOOLEAN]
      OBVIOUS
    <3> QED
      BY <3>1, NullIsNoNotification
  <2> HIDE DEF row
  <2>3. /\ notifications'[n] = row
        /\ \A m \in NotificationId : m # n => notifications'[m] = notifications[m]
    BY <2>1 DEF PushInv, Typed, TypeOK
  <2>4. ~InQueue(n) /\ ~Taken(n)
    BY <2>1 DEF PushInv, JobsInv
  <2>5. \A m \in NotificationId : (InQueue(m)' <=> InQueue(m)) /\ (Taken(m)' <=> Taken(m))
    BY <2>1 DEF InQueue, Taken
  <2>6. \A i \in 1..Len(queue) : queue[i].notification # n
    BY <2>4 DEF InQueue
  <2>7. \A m \in NotificationId :
            /\ notifications'[m] = Null => m \notin unqueued' /\ ~InQueue(m)' /\ ~Taken(m)'
            /\ m \in unqueued' => ~InQueue(m)' /\ ~Taken(m)'
            /\ InQueue(m)' => ~Taken(m)'
            /\ Taken(m)' => worker'.job.user = notifications'[m].user
    <3> SUFFICES ASSUME NEW m \in NotificationId
                 PROVE  /\ notifications'[m] = Null => m \notin unqueued' /\ ~InQueue(m) /\ ~Taken(m)
                        /\ m \in unqueued' => ~InQueue(m) /\ ~Taken(m)
                        /\ InQueue(m) => ~Taken(m)
                        /\ Taken(m) => worker.job.user = notifications'[m].user
      BY <2>1, <2>5
    <3>1. CASE m = n
      BY <2>2, <2>3, <2>4, <3>1
    <3>2. CASE m # n
      BY <2>1, <2>3, <3>2 DEF PushInv, JobsInv
    <3> QED
      BY <3>1, <3>2
  <2>8. JobsInv'
    <3>1. \A i \in 1..Len(queue) : queue[i].notification \in NotificationId =>
              queue[i].user = notifications'[queue[i].notification].user
      BY <2>3, <2>6 DEF PushInv, JobsInv
    <3>2. \A i, j \in 1..Len(queue) :
              queue[i].notification = queue[j].notification
                  /\ queue[i].notification \in NotificationId => i = j
      BY DEF PushInv, JobsInv
    <3>3. queue' = queue
      BY <2>1
    <3> QED
      BY <2>7, <3>1, <3>2, <3>3 DEF JobsInv
  <2>9. \A m \in NotificationId : Waits(m)' => Waits(m)
    BY <2>1, <2>3, <2>5 DEF Waits
  <2>10. LogsInv'
    BY <1>1, <2>1, <2>5, <2>9, NothingLogged
  <2>11. AttemptsEnd'
    BY <2>1 DEF AttemptsEnd
  <2> QED
    BY <2>8, <2>10, <2>11
<1>4. ASSUME NEW job \in Job, Push(job), UNCHANGED <<notifications, worker, logs>>,
             unqueued' \subseteq unqueued,
             job.notification \in NotificationId =>
                 /\ job.notification \in unqueued \ unqueued'
                 /\ job.user = notifications[job.notification].user
      PROVE  Goal
  <2>1. /\ JobsInv'
        /\ \A n \in NotificationId : InQueue(n)' => InQueue(n) \/ n \in unqueued
    BY <1>4, JobsPushed
  <2>2. \A n \in NotificationId : (Waits(n)' => Waits(n)) /\ (Taken(n)' => Taken(n))
    BY <1>4, <2>1 DEF Waits, Taken
  <2>3. LogsInv'
    BY <1>1, <1>4, <2>2, NothingLogged
  <2>4. AttemptsEnd'
    BY <1>4 DEF AttemptsEnd
  <2> QED
    BY <2>1, <2>3, <2>4
<1>5. ASSUME NEW n \in NotificationId, Enqueue(n) PROVE Goal
  <2> DEFINE job == [notification |-> n, user |-> notifications[n].user]
  <2>1. /\ n \in unqueued /\ Push(job) /\ unqueued' = unqueued \ {n}
        /\ UNCHANGED <<notifications, worker, logs>>
    BY <1>5 DEF Enqueue
  <2>2. job \in Job /\ job.notification = n /\ job.user = notifications[n].user
    BY <2>1, HandlersJob
  <2> HIDE DEF job
  <2> QED
    BY <1>4, <2>1, <2>2
<1>6. ASSUME NEW u \in User, EnqueueNotification(u) PROVE Goal
  <2> DEFINE job == [notification |-> Null, user |-> u]
  <2>1. job \in Job /\ job.notification = Null
    BY DEF Job
  <2>2. Push(job) /\ UNCHANGED <<notifications, worker, logs, unqueued>>
    BY <1>6 DEF EnqueueNotification, feed
  <2> HIDE DEF job
  <2> QED
    BY <1>4, <2>1, <2>2, NullIsNoNotification
<1>7. ASSUME NEW n \in NotificationId, EnqueueFails(n) PROVE Goal
  BY <1>2, <1>7 DEF EnqueueFails, Stays
<1>8. ASSUME NEW u \in User, NEW ids \in SUBSET NotificationId \ {{}}, MarkRead(u, ids) PROVE Goal
  <2>1. \A n \in NotificationId : Stays(n)
    BY <1>8, MarkedRead DEF MarkRead, Stays, PushInv, Typed
  <2> QED
    BY <1>2, <1>8, <2>1 DEF MarkRead
<1>9. ASSUME (\E d \in Device : SaveDeviceToken(d)) \/ (\E t \in Token : Uninstall(t))
                 \/ Restart \/ UNCHANGED vars
      PROVE  Goal
  BY <1>2, <1>9, WorkerBegins DEF SaveDeviceToken, Uninstall, Restart, vars, feed, Stays
<1>10. CASE BRPop
  <2>1. /\ JobsInv' /\ worker'.at = "tokens"
        /\ \A n \in NotificationId :
               (InQueue(n)' => InQueue(n)) /\ (Taken(n)' => InQueue(n))
    BY <1>10, JobsPopped
  <2>2. UNCHANGED <<notifications, unqueued, logs>>
    BY <1>10 DEF BRPop, feed
  <2>3. \A n \in NotificationId : (Waits(n)' => Waits(n)) /\ (Taken(n)' => Waits(n))
    BY <2>1, <2>2 DEF Waits
  <2>4. LogsInv'
    BY <1>1, <2>1, <2>2, <2>3, NothingLogged
  <2>5. AttemptsEnd'
    BY <2>2 DEF AttemptsEnd
  <2> QED
    BY <2>1, <2>4, <2>5
<1>11. ASSUME UNCHANGED <<feed, queue, logs>>, worker.at # "idle",
              worker'.at = "idle" \/ worker'.job = worker.job,
              worker'.at # "tokens",
              worker.at = "tokens" \/ worker'.tokens \subseteq worker.tokens
                  \/ worker'.at = "idle",
              worker'.at \in {"send", "log"} =>
                  \/ worker'.device \in worker.tokens
                  \/ /\ worker.at \in {"send", "log"} /\ worker'.device = worker.device
                     /\ worker'.attempt = worker.attempt
       PROVE  Goal
  <2>1. UNCHANGED <<notifications, unqueued, queue, logs>>
    BY <1>11 DEF feed
  <2>2. JobsInv' /\ \A n \in NotificationId : Taken(n)' => Taken(n)
    BY <1>11, <2>1, JobsKept DEF Stays
  <2>3. \A n \in NotificationId : Waits(n)' => Waits(n)
    BY <2>1 DEF Waits, InQueue
  <2>4. \A n \in NotificationId : Taken(n)' => worker'.at # "idle"
    BY DEF Taken
  <2>5. LogsInv'
    BY <1>1, <1>11, <2>1, <2>2, <2>3, <2>4, NothingLogged
  <2>6. AttemptsEnd'
    BY <2>1 DEF AttemptsEnd
  <2> QED
    BY <2>2, <2>5, <2>6
<1>12. CASE GetActiveDeviceTokens
  <2>1. UNCHANGED <<feed, queue, logs>>
    BY <1>12 DEF GetActiveDeviceTokens
  <2> QED
    BY <1>11, <1>12, <2>1, WorkerGetsTokens, WorkerBegins DEF PushInv
<1>13. CASE NextToken
  <2>1. UNCHANGED <<feed, queue, logs>>
    BY <1>13 DEF NextToken
  <2>2. /\ worker.at = "next"
        /\ \/ worker'.at = "idle"
           \/ /\ worker'.at = "send" /\ worker'.job = worker.job
              /\ worker'.device \in worker.tokens
              /\ worker'.tokens \subseteq worker.tokens
    BY <1>13, WorkerTakesToken, WorkerBegins DEF PushInv
  <2> QED
    BY <1>11, <2>1, <2>2
<1>14. ASSUME NEW outcome \in Outcome, SendPush(outcome) PROVE Goal
  <2>1. UNCHANGED <<feed, queue, logs>>
    BY <1>14 DEF SendPush
  <2> QED
    BY <1>11, <1>14, <2>1, WorkerSends DEF PushInv
<1>15. CASE DeactivateToken
  <2>1. UNCHANGED <<feed, queue, logs>>
    BY <1>15 DEF DeactivateToken
  <2> QED
    BY <1>11, <1>15, <2>1, WorkerDeactivates DEF PushInv
<1>16. CASE LogDeliveryAttempt
  <2>1. LogsInv' /\ AttemptsEnd'
    BY <1>16, AttemptLogged
  <2>2. /\ worker.at = "log" /\ worker' = AfterAttempt(worker)
        /\ UNCHANGED <<notifications, unqueued, queue>>
    BY <1>16 DEF LogDeliveryAttempt, feed
  <2>3. worker'.job = worker.job
    BY <2>2, AttemptIsDone DEF PushInv
  <2>4. JobsInv'
    BY <2>2, <2>3, JobsKept DEF Stays
  <2> QED
    BY <2>1, <2>4
<1>17. CASE GiveUp
  <2>1. UNCHANGED <<feed, queue, logs>>
    BY <1>17 DEF GiveUp
  <2> QED
    BY <1>11, <1>17, <2>1, WorkerGivesUp DEF PushInv
<1>18. CASE Stop
  <2>1. UNCHANGED <<notifications, unqueued, queue, logs>>
    BY <1>18 DEF Stop, feed
  <2>2. /\ worker.at # "idle" /\ worker'.at = worker.at /\ worker'.job = worker.job
        /\ worker'.tokens = worker.tokens /\ worker'.device = worker.device
        /\ worker'.attempt = worker.attempt
    BY <1>18, WorkerIsStopped DEF PushInv
  <2>3. JobsInv' /\ \A n \in NotificationId : Taken(n)' => Taken(n)
    BY <2>1, <2>2, JobsKept DEF Stays
  <2>4. \A n \in NotificationId : Waits(n)' => Waits(n)
    BY <2>1 DEF Waits, InQueue
  <2>5. LogsInv'
    BY <1>1, <2>1, <2>2, <2>3, <2>4, NothingLogged
  <2>6. AttemptsEnd'
    BY <2>1 DEF AttemptsEnd
  <2> QED
    BY <2>3, <2>5, <2>6
<1> QED
  BY <1>3, <1>5, <1>6, <1>7, <1>8, <1>9, <1>10, <1>12, <1>13, <1>14, <1>15, <1>16, <1>17,
     <1>18
  DEF Next, Work

LEMMA AttemptsInvariant == Spec => []AttemptsInv
<1>1. Init => AttemptsInv
  <2> SUFFICES ASSUME Init PROVE AttemptsInv
    OBVIOUS
  <2>1. queue = <<>> /\ queue \in Seq(Job) /\ Len(queue) = 0 /\ 0 <= MaxQueue
    BY NotificationsAssumption, EmptySeq DEF Init
  <2>2. worker \in Worker /\ worker.at = "idle" /\ worker.tokens = {}
    BY WorkerBegins DEF Init
  <2>3. \A n \in NotificationId, d \in Device : logs[n][d] = <<>>
    BY DEF Init
  <2>4. <<>> \in Seq(Outcome) /\ Len(<<>>) = 0
    BY EmptySeq
  <2>5. logs \in [NotificationId -> [Device -> Seq(Outcome)]]
    BY <2>4 DEF Init
  <2>6. Typed
    BY <2>1, <2>2, <2>5 DEF Init, Typed, TypeOK
  <2>7. WorkerInv
    BY <2>2 DEF WorkerInv
  <2>8. JobsInv /\ \A n \in NotificationId : ~Taken(n)
    BY <2>1, <2>2 DEF Init, JobsInv, InQueue, Taken
  <2>9. LogsInv
    BY <2>3, <2>8 DEF LogsInv
  <2>10. AttemptsEnd
    BY <2>3, <2>4 DEF AttemptsEnd, maxAttempts
  <2> QED
    BY <2>6, <2>7, <2>8, <2>9, <2>10 DEF AttemptsInv, PushInv
<1>2. AttemptsInv /\ [Next]_vars => AttemptsInv'
  <2> SUFFICES ASSUME AttemptsInv, [Next]_vars PROVE AttemptsInv'
    OBVIOUS
  <2>1. Typed' /\ WorkerInv'
    BY TypedStep, WorkerStep DEF AttemptsInv
  <2> QED
    BY <2>1, AttemptsStep DEF AttemptsInv, PushInv
<1> QED
  BY <1>1, <1>2, PTL DEF Spec

-----------------------------------------------------------------------------
\* The tables, the list and the worker keep their types, and the list its bound.
THEOREM NotificationsTyped == Spec => []TypeOK
<1>1. AttemptsInv => TypeOK
  BY DEF AttemptsInv, PushInv, Typed
<1> QED
  BY <1>1, AttemptsInvariant, PTL

\* A notification is tried three times at most on a device, and never again
\* after a success or a refusal, however often the worker restarts.
THEOREM AttemptsAreBounded == Spec => []AttemptsEnd
<1>1. AttemptsInv => AttemptsEnd
  BY DEF AttemptsInv
<1> QED
  BY <1>1, AttemptsInvariant, PTL

\* Every push, also of a job without a notification, goes by a row of the user it
\* is for that is active at that moment, and a notification's is in that user's feed.
THEOREM PushesUseActiveRows == Spec => []PushedByActiveRows
<1>1. AttemptsInv => PushedByActiveRows
  <2> SUFFICES ASSUME AttemptsInv, worker.at \in {"send", "log"}
               PROVE  /\ worker.device[1] = worker.job.user
                      /\ deviceTokens[worker.device] = "active"
                      /\ worker.job.notification # Null =>
                             /\ notifications[worker.job.notification] # Null
                             /\ notifications[worker.job.notification].user = worker.job.user
    BY DEF PushedByActiveRows
  <2>1. /\ worker.device[1] = worker.job.user /\ deviceTokens[worker.device] = "active"
        /\ worker.job \in Job
    BY DEF AttemptsInv, PushInv, WorkerInv
  <2>2. ASSUME NEW n \in NotificationId, n = worker.job.notification
        PROVE  notifications[n] # Null /\ notifications[n].user = worker.job.user
    BY <2>2 DEF AttemptsInv, PushInv, JobsInv, Taken
  <2> QED
    BY <2>1, <2>2 DEF Job
<1> QED
  BY <1>1, AttemptsInvariant, PTL

\* Only a device whose app is gone is switched off: a token once refused stays
\* refused, until the worker gets to switch it off and ever after.
THEOREM WorkingDevicesStay == Spec => []OnlyDeadTokensAreDropped
<1>1. Init => OnlyDeadTokensAreDropped
  BY NotificationsAssumption DEF Init, OnlyDeadTokensAreDropped
<1>2. AttemptsInv /\ OnlyDeadTokensAreDropped /\ [Next]_vars => OnlyDeadTokensAreDropped'
  <2> SUFFICES ASSUME AttemptsInv, OnlyDeadTokensAreDropped, [Next]_vars
               PROVE  OnlyDeadTokensAreDropped'
    OBVIOUS
  <2>1. installed' \subseteq installed
    BY DEF Next, Work, vars, CreateNotification, Enqueue, EnqueueFails, EnqueueNotification,
           MarkRead, SaveDeviceToken, Uninstall, BRPop, GetActiveDeviceTokens, NextToken,
           SendPush, GiveUp, LogDeliveryAttempt, DeactivateToken, Stop, Restart
  <2>2. CASE deviceTokens' = deviceTokens
    BY <2>1, <2>2 DEF OnlyDeadTokensAreDropped
  <2>3. ASSUME NEW d \in Device, SaveDeviceToken(d) PROVE OnlyDeadTokensAreDropped'
    BY <2>1, <2>3 DEF SaveDeviceToken, OnlyDeadTokensAreDropped, AttemptsInv, PushInv, Typed,
                      TypeOK
  <2>4. CASE DeactivateToken
    <3>1. worker.device \in Device /\ worker.device[2] \notin installed
      BY <2>4 DEF DeactivateToken, AttemptsInv, PushInv, WorkerInv
    <3> QED
      BY <2>1, <2>4, <3>1 DEF DeactivateToken, OnlyDeadTokensAreDropped, AttemptsInv, PushInv,
                              Typed, TypeOK
  <2>5. deviceTokens' # deviceTokens =>
            DeactivateToken \/ \E d \in Device : SaveDeviceToken(d)
    BY DEF Next, Work, vars, CreateNotification, Enqueue, EnqueueFails, EnqueueNotification,
           MarkRead, Uninstall, BRPop, GetActiveDeviceTokens, NextToken,
           SendPush, GiveUp, LogDeliveryAttempt, Stop, Restart
  <2> QED
    BY <2>2, <2>3, <2>4, <2>5
<1> QED
  BY <1>1, <1>2, AttemptsInvariant, PTL DEF Spec
=============================================================================

--------------------------- MODULE Notifications ----------------------------
(***************************************************************************)
(* internal/notifications: handlers that post notifications, the queue in  *)
(* Redis, and the worker that pushes them to the devices of a user.        *)
(*                                                                         *)
(* Handlers write the in-app feed first and push a job for the worker      *)
(* next; internal/participants pushes jobs of its own that belong to no    *)
(* notification.  The one worker takes a job off the list before it works  *)
(* on it, so what it has taken is gone if it stops.                        *)
(*                                                                         *)
(* External: the push provider.  sendPush is a stub that always succeeds;  *)
(* its caller is written for a provider that fails now and then and        *)
(* refuses the tokens of apps that are no longer installed.                *)
(***************************************************************************)
EXTENDS Sequences, Naturals

CONSTANTS
    User,
    Token,           \* what a provider calls a device
    Device,          \* who has which: the rows device_tokens may hold
    NotificationId,  \* ids of rows of notifications
    MaxQueue,        \* bound on the length of the job queue
    MayFail,         \* handlers, worker and database may fail
    Null

ASSUME NotificationsAssumption ==
    /\ Device \subseteq User \X Token
    /\ MaxQueue \in Nat /\ MayFail \in BOOLEAN
    /\ Null \notin NotificationId \cup [user: User, isRead: BOOLEAN]
    /\ Null \notin {"active", "inactive"}

maxAttempts == 3

VARIABLES
    notifications,  \* rows of the in-app feed
    unqueued,       \* notifications whose handler has yet to push the job
    queue,          \* the list notification_jobs, oldest job last
    deviceTokens,   \* device_tokens: one row for each user and token at most
    logs,           \* notification_logs, by notification and device
    worker,         \* what the worker is doing
    installed       \* tokens the provider delivers to

feed == <<notifications, unqueued>>
vars == <<notifications, unqueued, queue, deviceTokens, logs, worker, installed>>

Job     == [notification: NotificationId \cup {Null}, user: User]
Outcome == {"sent", "failed", "invalid_token"}

\* tokens: the devices GetActiveDeviceTokens found and that are still to be
\* served.  stopping: its context has been cancelled, so that every query fails.
Worker == [at: {"idle", "tokens", "next", "send", "log", "deactivate"},
           job: Job \cup {Null},
           tokens: SUBSET Device,
           device: Device \cup {Null},
           attempt: 0..maxAttempts - 1,
           outcome: Outcome \cup {Null},
           stopping: BOOLEAN]

Idle == [at |-> "idle", job |-> Null, tokens |-> {}, device |-> Null,
         attempt |-> 0, outcome |-> Null, stopping |-> FALSE]

TypeOK ==
    /\ notifications \in [NotificationId -> [user: User, isRead: BOOLEAN] \cup {Null}]
    /\ unqueued \subseteq NotificationId
    /\ queue \in Seq(Job) /\ Len(queue) <= MaxQueue
    /\ deviceTokens \in [Device -> {"active", "inactive", Null}]
    /\ \A n \in NotificationId, d \in Device : logs[n][d] \in Seq(Outcome)
    /\ worker \in Worker
    /\ installed \subseteq Token

Init ==
    /\ notifications = [n \in NotificationId |-> Null]
    /\ unqueued = {}
    /\ queue = <<>>
    /\ deviceTokens = [d \in Device |-> Null]
    /\ logs = [n \in NotificationId |-> [d \in Device |-> <<>>]]
    /\ worker = Idle
    /\ installed = Token

-----------------------------------------------------------------------------
(* Handlers.                                                               *)

CreateNotification(n, u) ==
    /\ notifications[n] = Null
    /\ notifications' = [notifications EXCEPT ![n] = [user |-> u, isRead |-> FALSE]]
    /\ unqueued' = unqueued \cup {n}
    /\ UNCHANGED <<queue, deviceTokens, logs, worker, installed>>

RPush(job) == Append(queue, job)

LPush(job) == <<job>> \o queue

Push(job) == Len(queue) < MaxQueue /\ queue' = LPush(job)

Enqueue(n) ==
    /\ n \in unqueued
    /\ Push([notification |-> n, user |-> notifications[n].user])
    /\ unqueued' = unqueued \ {n}
    /\ UNCHANGED <<notifications, deviceTokens, logs, worker, installed>>

\* The error is dropped: the notification is in the feed already.
EnqueueFails(n) ==
    /\ MayFail
    /\ n \in unqueued
    /\ unqueued' = unqueued \ {n}
    /\ UNCHANGED <<notifications, queue, deviceTokens, logs, worker, installed>>

\* Invitations to a booking and their acceptance, with no notification_id.
EnqueueNotification(u) ==
    /\ Push([notification |-> Null, user |-> u])
    /\ UNCHANGED <<feed, deviceTokens, logs, worker, installed>>

MarkRead(u, ids) ==
    /\ notifications' = [n \in NotificationId |->
           IF n \in ids /\ notifications[n] # Null /\ notifications[n].user = u
           THEN [notifications[n] EXCEPT !.isRead = TRUE]
           ELSE notifications[n]]
    /\ UNCHANGED <<unqueued, queue, deviceTokens, logs, worker, installed>>

\* An upsert: a token switched off before is switched on again.
SaveDeviceToken(d) ==
    /\ deviceTokens' = [deviceTokens EXCEPT ![d] = "active"]
    /\ UNCHANGED <<feed, queue, logs, worker, installed>>

-----------------------------------------------------------------------------
(* The worker.                                                             *)

BRPop ==
    /\ worker.at = "idle"
    /\ queue # <<>>
    /\ worker' = [Idle EXCEPT !.at = "tokens", !.job = queue[Len(queue)]]
    /\ queue' = SubSeq(queue, 1, Len(queue) - 1)
    /\ UNCHANGED <<feed, deviceTokens, logs, installed>>

RegisteredTokens(u) == {d \in Device : d[1] = u /\ deviceTokens[d] # Null}

ActiveTokens(u) == {d \in Device : d[1] = u /\ deviceTokens[d] = "active"}

\* Without the tokens the job is dropped.
GetActiveDeviceTokens ==
    /\ worker.at = "tokens"
    /\ \/ /\ ~worker.stopping
          /\ worker' = [worker EXCEPT !.at = "next",
                                      !.tokens = ActiveTokens(worker.job.user)]
       \/ MayFail /\ worker' = Idle
    /\ UNCHANGED <<feed, queue, deviceTokens, logs, installed>>

\* Rows come in no particular order.  A worker told to stop tries the devices
\* that are left before it returns, and is started again.
NextToken ==
    /\ worker.at = "next"
    /\ IF worker.tokens = {}
       THEN worker' = Idle
       ELSE \E d \in worker.tokens :
                worker' = [worker EXCEPT !.at = "send", !.device = d,
                                         !.tokens = @ \ {d}, !.attempt = 0]
    /\ UNCHANGED <<feed, queue, deviceTokens, logs, installed>>

SendPush(outcome) ==
    /\ worker.at = "send"
    /\ outcome = "sent" => worker.device[2] \in installed
    /\ outcome = "invalid_token" => worker.device[2] \notin installed
    /\ worker' = [worker EXCEPT !.at = "log", !.outcome = outcome]
    /\ UNCHANGED <<feed, queue, deviceTokens, logs, installed>>

\* While it waits to try again it is told to stop.
GiveUp ==
    /\ worker.at = "send" /\ worker.attempt > 0
    /\ worker.stopping
    /\ worker' = [worker EXCEPT !.at = "next", !.attempt = 0]
    /\ UNCHANGED <<feed, queue, deviceTokens, logs, installed>>

RetriesSent(w) == w.outcome # "invalid_token" /\ w.attempt < maxAttempts - 1

RetriesOnceMore(w) == w.outcome = "failed" /\ w.attempt < maxAttempts

Retries(w) == w.outcome = "failed" /\ w.attempt < maxAttempts - 1

DeactivatesFailed(w) == w.outcome # "sent"

Deactivates(w) == w.outcome = "invalid_token"

\* What deliverToToken does with the outcome of an attempt.  Whether it could
\* be logged makes no difference.
AfterAttempt(w) ==
    IF Retries(w)
    THEN [w EXCEPT !.at = "send", !.attempt = @ + 1, !.outcome = Null]
    ELSE [w EXCEPT !.at = IF Deactivates(w) THEN "deactivate" ELSE "next",
                   !.attempt = 0, !.outcome = Null]

\* The empty notification_id of a job without one is no UUID: its INSERT fails.
LogDeliveryAttempt ==
    LET n == worker.job.notification IN
    /\ worker.at = "log"
    /\ \/ /\ n # Null /\ ~worker.stopping
          /\ logs' = [logs EXCEPT ![n][worker.device] = Append(@, worker.outcome)]
       \/ (n = Null \/ MayFail) /\ UNCHANGED logs
    /\ worker' = AfterAttempt(worker)
    /\ UNCHANGED <<feed, queue, deviceTokens, installed>>

DeactivateToken ==
    /\ worker.at = "deactivate"
    /\ \/ /\ ~worker.stopping
          /\ deviceTokens' = [deviceTokens EXCEPT ![worker.device] = "inactive"]
       \/ MayFail /\ UNCHANGED deviceTokens
    /\ worker' = [worker EXCEPT !.at = "next"]
    /\ UNCHANGED <<feed, queue, logs, installed>>

\* The context of the worker is cancelled while it works on a job.
Stop ==
    /\ MayFail
    /\ worker.at # "idle" /\ ~worker.stopping
    /\ worker' = [worker EXCEPT !.stopping = TRUE]
    /\ UNCHANGED <<feed, queue, deviceTokens, logs, installed>>

\* The worker is killed and started again.
Restart ==
    /\ MayFail
    /\ worker' = Idle
    /\ UNCHANGED <<feed, queue, deviceTokens, logs, installed>>

Work ==
    \/ BRPop \/ GetActiveDeviceTokens \/ NextToken
    \/ \E outcome \in Outcome : SendPush(outcome)
    \/ GiveUp \/ LogDeliveryAttempt \/ DeactivateToken

-----------------------------------------------------------------------------
\* External: the app is removed, and its token is refused from then on.
Uninstall(t) ==
    /\ t \in installed
    /\ installed' = installed \ {t}
    /\ UNCHANGED <<feed, queue, deviceTokens, logs, worker>>

Next ==
    \/ \E n \in NotificationId, u \in User : CreateNotification(n, u)
    \/ \E n \in NotificationId : Enqueue(n) \/ EnqueueFails(n)
    \/ \E u \in User : EnqueueNotification(u)
    \/ \E u \in User, ids \in SUBSET NotificationId \ {{}} : MarkRead(u, ids)
    \/ \E d \in Device : SaveDeviceToken(d)
    \/ Work \/ Stop \/ Restart
    \/ \E t \in Token : Uninstall(t)

Spec == Init /\ [][Next]_vars

\* The worker keeps working; nobody has to post, to register or to fail.
FairSpec == Spec /\ WF_vars(Work)

-----------------------------------------------------------------------------
(* Properties.                                                             *)

\* ADR-006: three attempts at most for a notification on a device, and none
\* after one that was delivered or refused for good, whatever the worker lost
\* or the database did not record in between.
AttemptsEnd ==
    \A n \in NotificationId, d \in Device :
        /\ Len(logs[n][d]) <= maxAttempts
        /\ \A i \in 1..Len(logs[n][d]) - 1 : logs[n][d][i] = "failed"

\* Whatever is pushed, for a notification or for one of participants' jobs,
\* logged or not, goes by a row of device_tokens that belongs to the user it is
\* for and is still active then, however long ago the worker read it; and if it
\* is a notification's, that is in the user's feed.  A row, not a device: when
\* another user registers the same token, the first user's row stays active.
PushedByActiveRows ==
    worker.at \in {"send", "log"} =>
        LET n == worker.job.notification IN
        /\ worker.device[1] = worker.job.user
        /\ deviceTokens[worker.device] = "active"
        /\ n # Null => notifications[n] # Null /\ notifications[n].user = worker.job.user

\* However often pushing to it failed, a device that can be reached is never
\* switched off.
OnlyDeadTokensAreDropped ==
    \A d \in Device : deviceTokens[d] = "inactive" => d[2] \notin installed

\* A job that is queued is taken up some time, however many come after it and
\* however often the worker starts over.
JobsAreTaken ==
    \A n \in NotificationId :
        LET Queued == \E i \in 1..Len(queue) : queue[i].notification = n
        IN  Queued ~> ~Queued
=============================================================================

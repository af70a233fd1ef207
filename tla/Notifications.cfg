\* Two users who share a device, a notification among jobs without one, a
\* worker that restarts.
SPECIFICATION FairSpec
CONSTANTS
    u1 = u1
    u2 = u2
    t1 = t1
    t2 = t2
    User = {u1, u2}
    Token = {t1, t2}
    Device <- MCDevice
    NotificationId = {n1}
    MaxQueue = 2
    MayFail = TRUE
    Null = Null
INVARIANTS
    TypeOK
    AttemptsEnd
    PushedByActiveRows
    OnlyDeadTokensAreDropped
PROPERTIES
    JobsAreTaken

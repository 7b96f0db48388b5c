CONSTANTS
    Users = {t1, t2, t3}
    LOCK_MAX_COUNT = 2
    Threads = {t1, t2, t3}
    JobKinds <- MCKinds
    FirstJob <- MCFirst
    MAX_JOBS = 4
    \* two timers, one of each discipline
    Timers = {periodic, oneshot}
    Claimed = {oneshot}
    Delays = {1, 3}
    GRAIN = 2
    MAX_TIME = 6
SPECIFICATION MCSpec
INVARIANTS MutualExclusion JobsInv TimerInv
PROPERTIES ImplementsRWLock ClaimantAcquires KilledCloses TimersServe
\* a client that was closed does nothing more, nor does a timer that was stopped
CHECK_DEADLOCK FALSE

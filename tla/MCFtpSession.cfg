CONSTANTS
    Threads <- SessionThreads
    JobKinds <- SessionJobs
    FirstJob <- Accept
    MAX_JOBS = 6
    MAX_COMMANDS = 2
SPECIFICATION SessionSpec
INVARIANTS ConnectionInv
PROPERTIES EndedSessionCloses
\* a session that was closed does nothing more
CHECK_DEADLOCK FALSE

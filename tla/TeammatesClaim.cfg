CONSTANTS
    NoOne = NoOne
    Members = {alice}
    Threads = {k1}
    Tasks = {t1}
    Polls = 2
SPECIFICATION TeamSpec
PROPERTY AutoClaimResumes
CHECK_DEADLOCK FALSE

CONSTANTS
    NoOne = NoOne
    Members = {alice, bob}
    Threads = {k1, k2}
    Tasks = {t1}
    Polls = 2
SPECIFICATION TeamFairSpec
INVARIANT StatusIsTrue
PROPERTY IdleEnds
CHECK_DEADLOCK FALSE

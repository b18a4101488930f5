CONSTANTS
    q1 = q1
    q2 = q2
    r1 = r1
    r1b = r1b
    r2 = r2
    n1 = n1
    n2 = n2
    NoAnswer = NoAnswer
    Ids = {q1, q2}
    Answers = {r1, r1b, r2}
    Corr <- MCCorr
    Notifiers = {n1, n2}
SPECIFICATION FairSpec
INVARIANT NothingLeftBehind
PROPERTIES RequestReturns ImplementsRequestReply
CHECK_DEADLOCK FALSE

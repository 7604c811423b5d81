CONSTANTS
    Rollers = {r1}
    PollLimit = 1
    NoticeBeat = 2
    MaxLost = 1
SPECIFICATION Spec
INVARIANTS AnnouncedIsClosed

CONSTANTS
    Rollers = {r1, r2}
    PollLimit = 1
    NoticeBeat = 2
    MaxLost = 1
SYMMETRY RollerSymmetry
SPECIFICATION Spec
INVARIANTS TypeOK OneOwner TimersFollowState
PROPERTIES OpenedUntilStop StopIsAnnounced ServiceSpec

SPECIFICATION Spec

CONSTANTS
    Manual = {m1, m2, m3}
    Unit = {u1, u2}
    NoProc = NoProc

INVARIANTS
    SingleWhileKept

PROPERTIES
    RefusedByLive
    PidKept

SPECIFICATION Spec

CONSTANTS
    Manual = {m1}
    Unit = {u1, u2}
    NoProc = NoProc

INVARIANTS
    SingleInstance

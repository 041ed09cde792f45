SPECIFICATION Spec
CONSTANTS
    Threads = {t1, t2, t3}
    Timed = {t3}
    NoOwner = NoOwner
INVARIANTS
    MutualExclusion

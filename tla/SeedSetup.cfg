CONSTANTS
    Procs = {p1}
    Locks = {l1, l2}
    Labels = {q1, q2}
    None = None
    MaxCrashes = 2
SPECIFICATION FairSpec
INVARIANTS StatusTells SeedSafe
PROPERTIES NothingDestroyed ImplementsLifecycle Resumes

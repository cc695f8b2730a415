\* Three processes take a lock in both modes, with and without waiting, wait
\* for its variable and update it; one semaphore is posted by another user.
CONSTANTS
    Procs = {p1, p2, p3}
    Ops = {"LWLockAcquire", "LWLockConditionalAcquire", "LWLockAcquireOrWait",
           "LWLockWaitForVar", "LWLockUpdateVar"}
    Values = {0, 1}
    MaxForeign = 1
SPECIFICATION Spec
SYMMETRY ProcSymmetry
INVARIANTS
    MutualExclusion
    NoLostWakeup
    QueuedOnce
    ReleaseOkReturns
    VarChangeSeen
    PostsBalance

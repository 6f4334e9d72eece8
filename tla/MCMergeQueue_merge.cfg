SPECIFICATION FairSpec
CONSTANTS
    w1 = w1
    w2 = w2
    Worktrees = {w1, w2}
    Starts <- Separately
    Workers = {k1}
    NoWorktree = none
    MaxCommits = 4
    MaxFaults = 1
    Priority <- SecondFirst
INVARIANTS
    ForeignPushesKept
    TargetIsGated
    QueueMatchesGit
PROPERTIES
    MergingSettles
CHECK_DEADLOCK FALSE

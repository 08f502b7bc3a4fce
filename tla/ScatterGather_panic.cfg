\* Scatter-gather of one multi-key request: 3 keys over 3 shard indexes,
\* serial below 3 groups, 2 workers at 3 groups.
CONSTANTS
    s1 = s1
    s2 = s2
    s3 = s3
    NoErr = NoErr
    Shards <- MCShards
    NumKeys = 3
    GoroutineNums = 2
    CriticaNum = 3
    Cmds = {"MGET"}
SPECIFICATION Spec
INVARIANTS NoWorkerPanic
SYMMETRY Symm

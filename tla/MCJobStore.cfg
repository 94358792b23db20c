SPECIFICATION FairJobsSpec
CONSTANTS
    s1 = s1
    s2 = s2
    w1 = w1
    w2 = w2
    Jobs = {j1, j2, j3}
    Servers = {s1, s2}
    Workers = {w1, w2, w3}
    ServerOf <- MCServerOf
    Limit = 2
    NoServer = NoServer
    NoJob = NoJob
PROPERTIES
    QueueIsBoard
    JobsEnd

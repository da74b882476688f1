CONSTANTS
    Masters = {m1, m2}
    NoMaster = NoMaster
    MaxFaults = 0
SPECIFICATION FairSpec
PROPERTIES LeaderIsElected
CHECK_DEADLOCK FALSE

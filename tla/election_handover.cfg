CONSTANTS
    Masters = {m1, m2, m3}
    NoMaster = NoMaster
    MaxFaults = 0
SPECIFICATION FairSpec
PROPERTIES HandoverCompletes
CHECK_DEADLOCK FALSE

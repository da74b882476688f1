CONSTANTS
    Masters = {m1, m2, m3}
    NoMaster = NoMaster
    MaxFaults = 1
SPECIFICATION Spec
SYMMETRY MastersSymmetry
INVARIANTS TypeOK AtMostOneLeader LeaderIsSmallest
PROPERTIES LeadershipIsStable LeadInTurn
CHECK_DEADLOCK FALSE

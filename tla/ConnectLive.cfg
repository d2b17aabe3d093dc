SPECIFICATION FairSpec
CONSTANTS
    Commands = {c1, c2}
    Plans <- MCOnePlan
    Asked <- MCOnePlan
    Earlier = {}
    NoPlan = NoPlan
PROPERTIES
    CommandEnds
CHECK_DEADLOCK FALSE

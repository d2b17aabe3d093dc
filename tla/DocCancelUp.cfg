SPECIFICATION Spec
CONSTANTS
    Commands = {c1, c2}
    Plans <- MCPlans
    Asked <- MCAsked
    Earlier = {}
    NoPlan = NoPlan
PROPERTIES
    CancelSparesUp
CHECK_DEADLOCK FALSE

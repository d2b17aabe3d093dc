SPECIFICATION Spec
CONSTANTS
    Commands = {c1, c2}
    Plans <- MCPlans
    Asked <- MCAsked
    Earlier <- MCOnePlan
    NoPlan = NoPlan
INVARIANTS
    TypeOK
    ReportIsFresh
    ReportIsAsked
    ReplaceReady
    StopIsOver
SYMMETRY Symmetry
CHECK_DEADLOCK FALSE

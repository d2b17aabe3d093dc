SPECIFICATION Spec
CONSTANTS
    Origs = {"link"}
    Modes = {"unit"}
INVARIANTS
    SecondRevertIdle

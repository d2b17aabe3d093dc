SPECIFICATION Spec
CONSTANTS
    Origs = {"link", "file", "none"}
    Modes = {"unit", "foreground"}
INVARIANTS
    TypeOK
    Restorable
    EndIsOriginal

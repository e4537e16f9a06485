SPECIFICATION Spec
CONSTANTS
    CcMod = 4
    Room = 3
    Lens = {1, 2, 4, 7}
    MaxSections = 4
    MaxLost = 3
INVARIANTS
    TypeOK
    NoiseOnlyAcrossPusi
    IntactSectionsArrive
    InStep
CHECK_DEADLOCK FALSE

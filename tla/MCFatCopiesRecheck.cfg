SPECIFICATION Spec
CONSTANTS
    o1 = o1
    o2 = o2
    none = none
    Owners <- MCOwners
    None = none
    UD_NUMBER_OF_FATS = 3
    UD_SECTORS_PER_FAT = 2
    UF_DBD = FALSE
    Rechecks = TRUE
    MaxTorn = 1
    MaxAborts = 1
VIEW MCView
SYMMETRY Symmetry
INVARIANT UndelFindsFiles

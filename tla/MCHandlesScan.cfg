SPECIFICATION Spec
CONSTANTS
    f1 = f1
    f2 = f2
    n1 = n1
    n2 = n2
    x1 = x1
    x2 = x2
    x3 = x3
    x4 = x4
    null = null
    free = free
    device = device
    MAX_FILE_HANDLES = 2
    MaxProcesses = 2
    MaxReferences = 3
    DefaultHandles = 1
    Fabs <- MCFabs
    Slots = {1, 2}
    Names <- MCNames
    Numbers <- MCNumbers
    Null = null
    Free = free
    Device = device
VIEW MCView
SYMMETRY Symmetry
INVARIANT RefusedOnlyIfOpen

SPECIFICATION Spec
CONSTANTS
    glbA = glbA
    objA = objA
    glbB = glbB
    nameA = nameA
    nameB = nameB
    MeshFiles <- MCMeshFiles
    StemOf <- MCStemOf
    Workers = {w1, w2}
    Absent = Absent
    Torn = Torn
    Modes = {"full_shape", "cached", "text_guided", "interactive"}
    MaxSamples = 2
    NumPrompts = 2
    NumClicks = 2
    NoMask = NoMask
    MaxLaunches = 3
    MaxFaults = 2
INVARIANTS
    TypeOK
    DoneIsWhole
PROPERTIES
    FinishedIsWhole
    ResumeKeeps
SYMMETRY Symmetry
CHECK_DEADLOCK FALSE

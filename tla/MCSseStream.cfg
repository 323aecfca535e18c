CONSTANTS
    first = first
    second = second
    Streams = {first, second}
    MaxPieces = 5
SPECIFICATION StreamSpec
INVARIANTS
    StreamTypeOK
    ChunkingInvisible
    ReadsConventionalText
    DemoArrives
    OutputInOrder
SYMMETRY Symmetry
CHECK_DEADLOCK FALSE

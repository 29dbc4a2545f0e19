SPECIFICATION Spec
CONSTANTS
    Sizes <- TestSizes
    Origins <- TestOrigins
    Grids <- TestGrids
    Meshes <- TestMeshes
    Far = 3
    Word = 16
    Rounds = 2
CHECK_DEADLOCK FALSE
INVARIANTS
    TypeOK
    PictureComplete
    FailsOnlyTiny

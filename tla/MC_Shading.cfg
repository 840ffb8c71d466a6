\* add_shading for mesh shadings of types 4 and 6: the stream read back
\* with the dictionary add_shading writes gives the shade it was given.
CONSTANTS
    CoordBytes = 2
    CompBytes = 1
    HostLittleEndian = TRUE
    LevelDen = 3
    PatchPoints = 2
    PatchColors = 1
    Shades <- MC_Shades
INIT Init
NEXT Next
INVARIANTS
    ShadingRoundTrip
CHECK_DEADLOCK FALSE

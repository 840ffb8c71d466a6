CONSTANTS
    Profiles <- MC_Profiles
    NoBytes = NoBytes
    NDEBUG = FALSE
    Bound <- MC_BoundResources
    MaxPageStructs = 0
    MaxSubnav = 0
    BuiltinFonts <- MC_BuiltinFonts
    RoleNames <- MC_RoleNames
    AnyOutlineParent = FALSE
SPECIFICATION Spec
CHECK_DEADLOCK FALSE
PROPERTIES
    ErrorAddsNothing

CONSTANTS
    Profiles <- MC_OneProfile
    NoBytes = NoBytes
    NDEBUG = FALSE
    Bound <- MC_BoundResources
    MaxPageStructs = 0
    MaxSubnav = 0
    BuiltinFonts <- MC_BuiltinFonts
    RoleNames <- MC_RoleNames
    AnyOutlineParent = FALSE
SPECIFICATION Spec
CONSTRAINT MC_CallBound
VIEW MC_StateView
CHECK_DEADLOCK FALSE
INVARIANTS
    RefsResolve
    IccProfilesDeduplicated
    IdsResolve
    FontIdsResolve
    RolesResolve

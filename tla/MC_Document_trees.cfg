CONSTANTS
    Profiles <- MC_OneProfile
    NoBytes = NoBytes
    NDEBUG = FALSE
    Bound <- MC_BoundTrees
    MaxPageStructs = 2
    MaxSubnav = 0
    BuiltinFonts <- MC_BuiltinFonts
    RoleNames <- MC_RoleNames
    AnyOutlineParent = FALSE
SPECIFICATION Spec
CHECK_DEADLOCK FALSE
INVARIANTS
    RefsResolve
    OutlineLinks
    ParentTreeConsistent

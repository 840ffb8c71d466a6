CONSTANTS
    Profiles <- MC_Profiles
    NoBytes = NoBytes
    NDEBUG = FALSE
    Bound <- MC_BoundNav
    MaxPageStructs = 0
    MaxSubnav = 2
    BuiltinFonts <- MC_BuiltinFonts
    RoleNames <- MC_RoleNames
    AnyOutlineParent = FALSE
SPECIFICATION Spec
VIEW MC_StateView
CHECK_DEADLOCK FALSE
INVARIANTS
    TypeOK
    RefsResolve
    NavigationConsistent
    UniqueUse
PROPERTIES
    ErrorAddsNothing

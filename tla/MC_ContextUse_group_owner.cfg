\* add_transparency_group stores a context made for another document.
CONSTANTS
    d1 = d1
    d2 = d2
    Docs <- MC_Docs
    StructItems <- MC_StructItems
    NoStruct = NoStruct
    MaxStack <- MC_MaxStack
    MaxCmds <- MC_MaxCmds
    MaxStored <- MC_MaxStored
    Consumers <- MC_AllConsumers

SPECIFICATION UseSpec
SYMMETRY MC_DocSymmetry

INVARIANTS
    StoredByOwner

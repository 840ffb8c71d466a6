\* add_pattern stores a stream that leaves a q or BT open.
CONSTANTS
    d1 = d1
    d2 = d2
    Docs <- MC_Docs
    StructItems <- MC_StructItems
    NoStruct = NoStruct
    MaxStack <- MC_MaxStack
    MaxCmds <- MC_MaxCmds
    MaxStored <- MC_MaxStored
    Consumers <- MC_PatternsAndPages

SPECIFICATION UseSpec
SYMMETRY MC_DocSymmetry

INVARIANTS
    StoredStreamsBalanced

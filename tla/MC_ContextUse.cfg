\* One context reused for pages, patterns and groups of two documents: the
\* nesting state and the emitted stream stay in step.
CONSTANTS
    d1 = d1
    d2 = d2
    Docs <- MC_Docs
    StructItems <- MC_StructItems
    NoStruct = NoStruct
    MaxStack <- MC_MaxStack
    MaxCmds <- MC_MaxCmds
    MaxStored <- MC_MaxStored
    Consumers <- MC_AllConsumers

SPECIFICATION UseSpec
SYMMETRY MC_DocSymmetry

INVARIANTS
    UseTypeOK
    StreamMatchesStack

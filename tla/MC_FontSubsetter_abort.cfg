\* The document is written once: after pad_subset_fonts nothing is enabled.
CONSTANTS
    Fonts <- MC_Fonts
    Codepoints <- MC_Codepoints
    FontGlyphs <- MC_FontGlyphs
    SPACE = 2
    Capacity = 4
    MaxCount = 3

SPECIFICATION Spec
CHECK_DEADLOCK FALSE

INVARIANT
    NoPaddingAbort

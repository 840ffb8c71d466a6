-------------------------- MODULE MC_FontSubsetter --------------------------
(* Two fonts, the second without glyphs for 4 and 5.  The code's numbers   *)
(* are scaled together: SPACE 32 -> 2, '!' 33 -> 3, subset capacity        *)
(* 256 -> 4, padding attempts 100 -> 3, keeping SPACE < MaxCount <         *)
(* Capacity as in the code.  Codepoints: 2 (space), 3..5 (the padding      *)
(* range '!'..'!'+MaxCount-1) and 6 (a codepoint outside that range).      *)
EXTENDS FontSubsetter

MC_Fonts == {"f1", "f2"}
MC_Codepoints == 2..6
MC_FontGlyphs == [f \in MC_Fonts |-> IF f = "f1" THEN 2..6 ELSE {2, 3, 6}]

=============================================================================

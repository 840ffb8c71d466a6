--------------------------- MODULE FontSubsetter ---------------------------
(***************************************************************************)
(* The per-font glyph subsets of PdfDocument and the padding done before   *)
(* the document is written.                                                *)
(*                                                                         *)
(*  - get_subset_glyph (src/src/pdfdocument.cpp): the MissingGlyph check,  *)
(*    then FontSubsetter::get_glyph_subset;                                *)
(*  - get_glyph_subset / unchecked_insert_glyph_to_last_subset live in     *)
(*    fontsubsetter.cpp, not part of src/: modelled from the spec (reuse   *)
(*    the slot a codepoint already has, else append to the last subset    *)
(*    while it has room, else open a new subset);                          *)
(*  - pad_subset_fonts (src/src/pdfdocument.cpp) translated loop for loop. *)
(*                                                                         *)
(* Codepoints are small integers.  The three numbers of the code are       *)
(* constants so that a model can scale them down together: SPACE (the     *)
(* codepoint ' ' and the subset size padding aims for, 32), the first      *)
(* padding codepoint '!' = SPACE + 1, Capacity (glyphs per subset, 256)   *)
(* and MaxCount (padding attempts, 100).                                   *)
(***************************************************************************)
EXTENDS Naturals, Sequences, SequencesExt, FiniteSets

CONSTANTS
    Fonts,        \* loaded TrueType fonts (CapyPDF_FontId)
    Codepoints,   \* codepoints a caller may render
    FontGlyphs,   \* FontGlyphs[f]: the codepoints font f has a glyph for
    SPACE,        \* ' '
    Capacity,     \* maximum number of glyphs in one subset
    MaxCount      \* max_count of the padding loop

ASSUME SPACE \in Codepoints
ASSUME FontGlyphs \in [Fonts -> SUBSET Codepoints]
ASSUME SPACE < Capacity /\ MaxCount \in Nat \ {0}

VARIABLES
    subsets,   \* subsets[f]: the subsets of font f, each a Seq of codepoints
    given,     \* given[f]: the (codepoint, subset, offset) triples handed out
    padded,    \* pad_subset_fonts() has run
    result,    \* return value of the last get_subset_glyph
    aborted    \* std::abort() was reached

vars == <<subsets, given, padded, result, aborted>>

PadStart == SPACE + 1   \* '!'

-----------------------------------------------------------------------------
(* Where codepoint cp already sits in font f: the first subset and offset  *)
(* holding it (offsets are 0-based local glyph ids).                       *)
Slots(ss, cp) == {<<s, o>> \in (0..Len(ss)-1) \X (0..Capacity) :
                     o < Len(ss[s+1]) /\ ss[s+1][o+1] = cp}

FirstSlot(ss, cp) ==
    CHOOSE x \in Slots(ss, cp) : \A y \in Slots(ss, cp) :
        x[1] < y[1] \/ (x[1] = y[1] /\ x[2] <= y[2])

(* Mutant: the local id is computed as size() - 1 before the push_back.  *)
GetGlyphSubsetIdBeforeInsert(ss, cp) ==
    IF Slots(ss, cp) # {}
    THEN [ss |-> ss, slot |-> FirstSlot(ss, cp)]
    ELSE IF Len(Last(ss)) < Capacity
         THEN [ss |-> [ss EXCEPT ![Len(ss)] = Append(@, cp)],
               slot |-> <<Len(ss) - 1, Len(Last(ss)) - 1>>]
         ELSE [ss |-> Append(ss, <<cp>>), slot |-> <<Len(ss), 0>>]

(* FontSubsetter::get_glyph_subset on the subsets ss of one font: the new  *)
(* subsets and the <<subset, offset>> returned.                            *)
GetGlyphSubset(ss, cp) ==
    IF Slots(ss, cp) # {}
    THEN [ss |-> ss, slot |-> FirstSlot(ss, cp)]
    ELSE IF Len(Last(ss)) < Capacity
         THEN [ss |-> [ss EXCEPT ![Len(ss)] = Append(@, cp)],
               slot |-> <<Len(ss) - 1, Len(Last(ss))>>]
         ELSE [ss |-> Append(ss, <<cp>>), slot |-> <<Len(ss), 0>>]

(* unchecked_insert_glyph_to_last_subset: append without the reuse check.  *)
UncheckedInsert(ss, cp) == [ss EXCEPT ![Len(ss)] = Append(@, cp)]

(* PdfDocument::get_subset_glyph: MissingGlyph when FreeType has no glyph  *)
(* for the codepoint, otherwise the subsetter's slot.                      *)
get_subset_glyph(f, cp) ==
    /\ ~padded
    /\ IF cp \notin FontGlyphs[f]
       THEN /\ result' = "MissingGlyph"
            /\ UNCHANGED <<subsets, given>>
       ELSE LET r == GetGlyphSubset(subsets[f], cp)
            IN  /\ subsets' = [subsets EXCEPT ![f] = r.ss]
                /\ given' = [given EXCEPT ![f] = @ \cup {<<cp, r.slot[1], r.slot[2]>>}]
                /\ result' = "ok"
    /\ UNCHANGED <<padded, aborted>>

-----------------------------------------------------------------------------
(* The padding loop of pad_subset_fonts for one font: iteration i first    *)
(* tests whether the last subset has SPACE glyphs, then asks for codepoint *)
(* '!' + i.  Returns the subsets and whether the test ever succeeded.      *)
RECURSIVE PadLoop(_, _)
PadLoop(ss, i) ==
    IF i >= MaxCount THEN [ss |-> ss, ok |-> FALSE]
    ELSE IF Len(Last(ss)) = SPACE THEN [ss |-> ss, ok |-> TRUE]
    ELSE PadLoop(GetGlyphSubset(ss, PadStart + i).ss, i + 1)

(* Mutant: a last subset of exactly SPACE glyphs is skipped (>= for >).  *)
PadFontSkipsFull(ss) ==
    IF Len(Last(ss)) >= SPACE THEN [ss |-> ss, ok |-> TRUE]
    ELSE LET r == PadLoop(ss, 0)
         IN  IF r.ok THEN [ss |-> UncheckedInsert(r.ss, SPACE), ok |-> TRUE]
             ELSE r

(* One font: nothing when its last subset has more than SPACE glyphs;     *)
(* else pad, then append ' ' so that local glyph id SPACE is a space.      *)
PadFont(ss) ==
    IF Len(Last(ss)) > SPACE THEN [ss |-> ss, ok |-> TRUE]
    ELSE LET r == PadLoop(ss, 0)
         IN  IF r.ok THEN [ss |-> UncheckedInsert(r.ss, SPACE), ok |-> TRUE]
             ELSE r

(* Mutant: a codepoint already in the subset is appended again (the     *)
(* find_if test left out).                                                 *)
RECURSIVE UntilSpaceLoopNoSkip(_, _)
UntilSpaceLoopNoSkip(sub, i) ==
    IF i >= MaxCount THEN [sub |-> sub, ok |-> FALSE]
    ELSE IF Len(sub) = SPACE THEN [sub |-> sub, ok |-> TRUE]
    ELSE UntilSpaceLoopNoSkip(Append(sub, PadStart + i), i + 1)

(* The loop of pad_subset_until_space on one subset: iteration i first     *)
(* tests for SPACE glyphs, then appends '!' + i unless the subset already  *)
(* holds that codepoint (only this subset is searched).                    *)
RECURSIVE UntilSpaceLoop(_, _)
UntilSpaceLoop(sub, i) ==
    IF i >= MaxCount THEN [sub |-> sub, ok |-> FALSE]
    ELSE IF Len(sub) = SPACE THEN [sub |-> sub, ok |-> TRUE]
    ELSE UntilSpaceLoop(IF PadStart + i \in ToSet(sub) THEN sub
                        ELSE Append(sub, PadStart + i), i + 1)

(* PdfDocument::pad_subset_until_space(subset_glyphs): a subset of more    *)
(* than SPACE glyphs is left alone; else the loop, std::abort() if it      *)
(* never saw SPACE glyphs, and ' ' appended.                               *)
pad_subset_until_space(sub) ==
    IF Len(sub) > SPACE THEN [sub |-> sub, ok |-> TRUE]
    ELSE LET r == UntilSpaceLoop(sub, 0)
         IN  IF r.ok THEN [sub |-> Append(r.sub, SPACE), ok |-> TRUE] ELSE r

(* pad_subset_fonts(): every font padded; a failure aborts the process.   *)
pad_subset_fonts ==
    /\ ~padded
    /\ padded' = TRUE
    /\ IF \A f \in Fonts : PadFont(subsets[f]).ok
       THEN /\ subsets' = [f \in Fonts |-> PadFont(subsets[f]).ss]
            /\ UNCHANGED aborted
       ELSE /\ aborted' = TRUE
            /\ UNCHANGED subsets
    /\ UNCHANGED <<given, result>>

-----------------------------------------------------------------------------
(* A loaded font starts with one empty subset.                            *)
Init ==
    /\ subsets = [f \in Fonts |-> <<<<>>>>]
    /\ given = [f \in Fonts |-> {}]
    /\ padded = FALSE
    /\ result = "ok"
    /\ aborted = FALSE

Next ==
    /\ ~aborted
    /\ \/ \E f \in Fonts, cp \in Codepoints : get_subset_glyph(f, cp)
       \/ pad_subset_fonts

Spec == Init /\ [][Next]_vars

-----------------------------------------------------------------------------
TypeOK ==
    /\ subsets \in [Fonts -> Seq(Seq(Codepoints))]
    /\ given \in [Fonts -> SUBSET (Codepoints \X Nat \X Nat)]
    /\ padded \in BOOLEAN
    /\ result \in {"ok", "MissingGlyph"}
    /\ aborted \in BOOLEAN

(* When the document is written, every font whose last subset had at most  *)
(* SPACE glyphs ends with exactly SPACE + 1 of them, ' ' at local id SPACE,*)
(* and what was there before is kept as a prefix.                          *)
SpaceAtPaddingSlot ==
    [][pad_subset_fonts /\ ~aborted' =>
        \A f \in Fonts :
            LET before == Last(subsets[f])
                after  == Last(subsets'[f])
            IN  /\ Len(subsets'[f]) = Len(subsets[f])
                /\ IsPrefix(before, after)
                /\ Len(before) <= SPACE =>
                      /\ Len(after) = SPACE + 1
                      /\ after[SPACE + 1] = SPACE]_vars

(* The padding rule of the specification, as a reference: a subset of at *)
(* most SPACE glyphs gets the first codepoints from '!' on that it lacks,  *)
(* up to SPACE glyphs, then ' '.                                           *)
PaddingRule(sub) ==
    LET missing == SelectSeq([k \in 1..SPACE |-> PadStart + k - 1],
                             LAMBDA c : c \notin ToSet(sub))
    IN  sub \o SubSeq(missing, 1, SPACE - Len(sub)) \o <<SPACE>>

(* pad_subset_until_space, applied to the last subset of any font as the   *)
(* subsetter has built it, never aborts and pads it exactly as the padding *)
(* rule says: local id SPACE is ' ', no codepoint is added twice and the   *)
(* glyphs already there keep their ids.                                    *)
UntilSpaceMeetsRule ==
    \A f \in Fonts :
        LET sub == Last(subsets[f])
        IN  ~padded /\ Len(sub) <= SPACE =>
                pad_subset_until_space(sub) = [sub |-> PaddingRule(sub), ok |-> TRUE]

(* pad_subset_fonts never reaches its std::abort(): writing a document     *)
(* never kills the process because a font could not be padded.             *)
NoPaddingAbort == ~aborted

=============================================================================

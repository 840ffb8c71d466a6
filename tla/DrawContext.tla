---------------------------- MODULE DrawContext ----------------------------
(***************************************************************************)
(* The nesting discipline of one PdfDrawContext (src/src/drawcontext.hpp): *)
(* the state stack (dstate_stack), the indentation string (ind, kept here  *)
(* as its length), the marked-content counter (marked_depth), the content  *)
(* stream (commands, one record per nesting operator; every other operator *)
(* is left out because it does not touch the nesting state) and the list  *)
(* of structure items referenced by BDC (used_structures).                 *)
(*                                                                         *)
(* indent/dedent are translated from the header.  The cmd_* bodies live in *)
(* pdfdrawcontext.cpp, which is not part of src/; they are modelled from   *)
(* the spec: check first, then change the stack, then emit the operator.   *)
(***************************************************************************)
EXTENDS Naturals, Sequences, SequencesExt, FiniteSets

CONSTANTS
    StructItems,   \* structure item ids that BDC may reference
    NoStruct,      \* the "no structure item" marker of a command record
    MaxStack,      \* bound on the nesting depth explored
    MaxCmds        \* bound on the length of the content stream explored

ASSUME NoStruct \notin StructItems
ASSUME MaxStack \in Nat \ {0} /\ MaxCmds \in Nat \ {0}

VARIABLES
    dstate_stack,     \* Seq(DrawStateType)
    ind,              \* length of the indentation string
    marked_depth,     \* int32_t marked_depth
    commands,         \* the emitted nesting operators
    used_structures,  \* std::vector<CapyPDF_StructureItemId>
    poppers,          \* live GstatePopper guards held by the caller
    is_finalized,
    result,           \* return value of the last call
    aborted           \* std::abort() was reached

vars == <<dstate_stack, ind, marked_depth, commands, used_structures,
          poppers, is_finalized, result, aborted>>

DrawStateType == {"MarkedContent", "SaveState", "Text"}
Ops == {"q", "Q", "BT", "ET", "BMC", "BDC", "EMC"}
Results == {"ok", "NestedBMC", "DrawStateEndMismatch", "UnclosedMarkedContent"}
Command == [op : Ops, sid : StructItems \cup {NoStruct}]

\* The state each operator opens or closes.
Opens == [q |-> "SaveState", BT |-> "Text", BMC |-> "MarkedContent",
          BDC |-> "MarkedContent"]
Closes == [Q |-> "SaveState", ET |-> "Text", EMC |-> "MarkedContent"]

Cmd(op) == [op |-> op, sid |-> NoStruct]

(* The operators of a stream that are still open, innermost last, read the *)
(* way a PDF consumer reads it; ok is FALSE if a closer does not match.    *)
RECURSIVE Unclosed(_)
Unclosed(s) ==
    IF s = <<>> THEN [ok |-> TRUE, open |-> <<>>]
    ELSE LET pre == Unclosed(Front(s))
             op  == Last(s).op
         IN  CASE ~pre.ok -> pre
               [] op \in DOMAIN Opens ->
                    [pre EXCEPT !.open = Append(@, Opens[op])]
               [] op \in DOMAIN Closes ->
                    IF pre.open # <<>> /\ Last(pre.open) = Closes[op]
                    THEN [pre EXCEPT !.open = Front(@)]
                    ELSE [ok |-> FALSE, open |-> <<>>]
               [] OTHER -> pre

-----------------------------------------------------------------------------
(* indent(): reject a MarkedContent inside another one, else push.         *)
IndentError(dtype) ==
    IF dtype = "MarkedContent" /\ dtype \in ToSet(dstate_stack)
    THEN "NestedBMC" ELSE "ok"

indent(dtype) ==
    /\ dstate_stack' = Append(dstate_stack, dtype)
    /\ ind' = ind + 2

(* dedent(): the stack must be non-empty with dtype on top; a too short   *)
(* indentation string then aborts the process.                            *)
(* Mutant: the top-of-stack check dropped, any state may be closed.      *)
DedentErrorNoTopCheck(dtype) ==
    CASE dstate_stack = <<>>           -> "DrawStateEndMismatch"
      [] ind < 2                       -> "abort"
      [] OTHER                         -> "ok"

DedentError(dtype) ==
    CASE dstate_stack = <<>>           -> "DrawStateEndMismatch"
      [] Last(dstate_stack) # dtype    -> "DrawStateEndMismatch"
      [] ind < 2                       -> "abort"
      [] OTHER                         -> "ok"

dedent(dtype) ==
    /\ dstate_stack' = Front(dstate_stack)
    /\ ind' = ind - 2

Abort ==
    /\ aborted' = TRUE
    /\ UNCHANGED <<dstate_stack, ind, marked_depth, commands, used_structures,
                   poppers, is_finalized, result>>

Emit(c) == commands' = Append(commands, c)

Fail(err) ==
    /\ result' = err
    /\ UNCHANGED <<dstate_stack, ind, marked_depth, commands, used_structures,
                   poppers, is_finalized, aborted>>

Room == Len(commands) < MaxCmds /\ Len(dstate_stack) < MaxStack

-----------------------------------------------------------------------------
(* An operator that opens a state: q, BT, BMC.                             *)
OpenState(dtype, op) ==
    /\ Room
    /\ IF IndentError(dtype) # "ok"
       THEN Fail(IndentError(dtype))
       ELSE /\ indent(dtype)
            /\ Emit(Cmd(op))
            /\ marked_depth' = marked_depth + (IF dtype = "MarkedContent" THEN 1 ELSE 0)
            /\ result' = "ok"
            /\ UNCHANGED <<used_structures, is_finalized, aborted>>

(* Mutant: marked_depth is decremented by every closing operator.        *)
CloseStateCountAll(dtype, op) ==
    /\ Len(commands) < MaxCmds
    /\ CASE DedentError(dtype) = "ok" ->
              /\ dedent(dtype)
              /\ Emit(Cmd(op))
              /\ marked_depth' = marked_depth - 1
              /\ result' = "ok"
              /\ UNCHANGED <<used_structures, poppers, is_finalized, aborted>>
         [] DedentError(dtype) = "abort" -> Abort
         [] OTHER -> Fail(DedentError(dtype))

(* An operator that closes a state: Q, ET, EMC.                            *)
CloseState(dtype, op) ==
    /\ Len(commands) < MaxCmds
    /\ CASE DedentError(dtype) = "ok" ->
              /\ dedent(dtype)
              /\ Emit(Cmd(op))
              /\ marked_depth' = marked_depth - (IF dtype = "MarkedContent" THEN 1 ELSE 0)
              /\ result' = "ok"
              /\ UNCHANGED <<used_structures, poppers, is_finalized, aborted>>
         [] DedentError(dtype) = "abort" -> Abort
         [] OTHER -> Fail(DedentError(dtype))

cmd_q   == OpenState("SaveState", "q") /\ UNCHANGED poppers
cmd_Q   == CloseState("SaveState", "Q")
cmd_BT  == OpenState("Text", "BT") /\ UNCHANGED poppers
cmd_ET  == CloseState("Text", "ET")
cmd_BMC == OpenState("MarkedContent", "BMC") /\ UNCHANGED poppers
cmd_EMC == CloseState("MarkedContent", "EMC")

(* add_bcd_structure(): the MCID is the item's position in used_structures. *)
(* Only its declaration is in the header (it returns rvoe<int32_t>); the  *)
(* body is not under src/ and the model takes its success path only.      *)
add_bcd_structure(sid) == used_structures' = Append(used_structures, sid)

(* cmd_BDC(sid): open a marked-content block tied to a structure item.     *)
cmd_BDC(sid) ==
    /\ Room
    /\ IF IndentError("MarkedContent") # "ok"
       THEN Fail(IndentError("MarkedContent"))
       ELSE /\ indent("MarkedContent")
            /\ add_bcd_structure(sid)
            /\ Emit([op |-> "BDC", sid |-> sid])
            /\ marked_depth' = marked_depth + 1
            /\ result' = "ok"
            /\ UNCHANGED <<poppers, is_finalized, aborted>>

(* push_gstate(): cmd_q and a guard whose destructor calls cmd_Q.          *)
push_gstate ==
    /\ OpenState("SaveState", "q")
    /\ poppers' = poppers + 1

(* ~GstatePopper(): cmd_Q, its result discarded by the destructor.         *)
GstatePopperDtor ==
    /\ poppers > 0
    /\ Len(commands) < MaxCmds
    /\ CASE DedentError("SaveState") = "ok" ->
              /\ dedent("SaveState")
              /\ Emit(Cmd("Q"))
              /\ poppers' = poppers - 1
              /\ UNCHANGED <<marked_depth, used_structures, is_finalized, result, aborted>>
         [] DedentError("SaveState") = "abort" -> Abort
         [] OTHER ->
              /\ poppers' = poppers - 1
              /\ UNCHANGED <<dstate_stack, ind, marked_depth, commands,
                             used_structures, is_finalized, result, aborted>>

(* clear(): every member goes back to its initial value.  The body is not  *)
(* under src/; the header only asks for it ("If you add stuff here, also  *)
(* add them to .clear()"), and the model assumes it is done.               *)
clear ==
    /\ dstate_stack' = <<>>
    /\ ind' = 0
    /\ marked_depth' = 0
    /\ commands' = <<>>
    /\ used_structures' = <<>>
    /\ is_finalized' = FALSE
    /\ result' = "ok"
    /\ UNCHANGED <<poppers, aborted>>

(* serialize(): marks the context finalized.  It returns a DCSerialization *)
(* (drawcontext.hpp), which has no error alternative: whatever nesting is   *)
(* left open, the caller gets the stream; checking it is the caller's job.  *)
serialize ==
    /\ is_finalized' = TRUE
    /\ result' = "ok"
    /\ UNCHANGED <<dstate_stack, ind, marked_depth, commands,
                   used_structures, poppers, aborted>>

-----------------------------------------------------------------------------
Init ==
    /\ dstate_stack = <<>>
    /\ ind = 0
    /\ marked_depth = 0
    /\ commands = <<>>
    /\ used_structures = <<>>
    /\ poppers = 0
    /\ is_finalized = FALSE
    /\ result = "ok"
    /\ aborted = FALSE

Next ==
    /\ ~aborted
    /\ \/ cmd_q \/ cmd_Q \/ cmd_BT \/ cmd_ET \/ cmd_BMC \/ cmd_EMC
       \/ \E sid \in StructItems : cmd_BDC(sid)
       \/ push_gstate /\ poppers < MaxStack
       \/ GstatePopperDtor
       \/ clear
       \/ serialize

Spec == Init /\ [][Next]_vars

-----------------------------------------------------------------------------
TypeOK ==
    /\ dstate_stack \in Seq(DrawStateType)
    /\ ind \in Nat
    /\ marked_depth \in Nat
    /\ commands \in Seq(Command)
    /\ used_structures \in Seq(StructItems)
    /\ poppers \in Nat
    /\ is_finalized \in BOOLEAN
    /\ result \in Results
    /\ aborted \in BOOLEAN

(* The operators left open in the emitted content stream are exactly the   *)
(* entries of dstate_stack, in order, and every closer in the stream       *)
(* matches its opener: the text a consumer parses and the state the context *)
(* checks against never drift apart (q/Q, BT/ET, BMC/BDC/EMC balance).     *)
StreamMatchesStack ==
    LET u == Unclosed(commands) IN u.ok /\ u.open = dstate_stack

=============================================================================

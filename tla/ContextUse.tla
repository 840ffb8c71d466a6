----------------------------- MODULE ContextUse -----------------------------
(***************************************************************************)
(* A draw context handed to the documents that consume it.  The context is *)
(* DrawContext, extended with ctx_doc, the document it was created for    *)
(* (PdfDrawContext::doc), and ctx_type, its                               *)
(* CapyPDF_Draw_Context_Type.  Each document keeps the content streams it  *)
(* stored (stored[d]): the pattern, transparency-group and page objects    *)
(* made from a context.                                                    *)
(*                                                                         *)
(* add_pattern and add_transparency_group are translated from              *)
(* pdfdocument.cpp.  Adding a page goes through the generator (pdfgen.cpp, *)
(* not under src/) and is modelled from the spec.                          *)
(***************************************************************************)
EXTENDS DrawContext

CONSTANTS
    Docs,          \* the PdfDocument objects alive in the program
    Consumers,     \* which of "page", "pattern", "group" the caller uses
    MaxStored      \* bound on the objects stored per document

VARIABLES
    ctx_doc,       \* &ctx.get_doc()
    ctx_type,      \* ctx.draw_context_type()
    stored         \* stored[d]: the objects document d made from the context

use_vars == <<vars, ctx_doc, ctx_type, stored>>

ContextTypes == {"PAGE", "COLOR_TILING", "TRANSPARENCY_GROUP"}

(* A stored object keeps what the properties read of its stream: how a     *)
(* consumer parses its nesting (Unclosed), and whose resources it uses.    *)
Stored == [kind : Consumers, owner : Docs,
           nesting : [ok : BOOLEAN, open : Seq(DrawStateType)]]

(* Storing the context's stream as an object of document d (add_object).  *)
Store(d, kind) ==
    stored' = [stored EXCEPT ![d] = Append(@, [kind |-> kind, owner |-> ctx_doc,
                                              nesting |-> Unclosed(commands)])]

Reject(err) == /\ result' = err
               /\ UNCHANGED <<dstate_stack, ind, marked_depth, commands,
                              used_structures, poppers, is_finalized, aborted,
                              stored>>

-----------------------------------------------------------------------------
(* add_pattern(ctx): the owner, type and marked-content checks, then the   *)
(* command stream is read as it is (get_command_stream, no serialize()).   *)
add_pattern(d) ==
    CASE ctx_doc # d               -> Reject("IncorrectDocumentForObject")
      [] ctx_type # "COLOR_TILING" -> Reject("InvalidDrawContextType")
      [] marked_depth # 0          -> Reject("UnclosedMarkedContent")
      [] OTHER -> /\ Store(d, "pattern")
                  /\ result' = "ok"
                  /\ UNCHANGED <<dstate_stack, ind, marked_depth, commands,
                                 used_structures, poppers, is_finalized, aborted>>

(* add_transparency_group(ctx, ex): the type and marked-content checks,    *)
(* then ctx.serialize(ex), then the object.  The document is not checked. *)
add_transparency_group(d) ==
    CASE ctx_type # "TRANSPARENCY_GROUP" -> Reject("InvalidDrawContextType")
      [] marked_depth # 0                -> Reject("UnclosedMarkedContent")
      [] OTHER -> /\ serialize
                  /\ Store(d, "group")

(* The generator's add_page(ctx): a context of another document or type,   *)
(* or one with open state, is refused (DrawStateEndMismatch for a          *)
(* non-empty dstate_stack, has_unclosed_state()); then it is serialized    *)
(* and the page stored.                                                    *)
add_page(d) ==
    CASE ctx_doc # d          -> Reject("IncorrectDocumentForObject")
      [] ctx_type # "PAGE"    -> Reject("InvalidDrawContextType")
      [] dstate_stack # <<>>  -> Reject("DrawStateEndMismatch")
      [] marked_depth # 0     -> Reject("UnclosedMarkedContent")
      [] OTHER -> /\ serialize
                  /\ Store(d, "page")

-----------------------------------------------------------------------------
UseInit ==
    /\ Init
    /\ ctx_doc \in Docs
    /\ ctx_type \in ContextTypes
    /\ stored = [d \in Docs |-> <<>>]

(* The caller draws into the context, or hands it to a document.          *)
Draw == Next /\ UNCHANGED <<ctx_doc, ctx_type, stored>>

Consume ==
    /\ ~aborted
    /\ \E d \in Docs :
         /\ Len(stored[d]) < MaxStored
         /\ \/ "pattern" \in Consumers /\ add_pattern(d)
            \/ "group" \in Consumers /\ add_transparency_group(d)
            \/ "page" \in Consumers /\ add_page(d)
    /\ UNCHANGED <<ctx_doc, ctx_type>>

UseNext == Draw \/ Consume

UseSpec == UseInit /\ [][UseNext]_use_vars

-----------------------------------------------------------------------------
UseTypeOK ==
    /\ dstate_stack \in Seq(DrawStateType)
    /\ marked_depth \in Nat
    /\ commands \in Seq(Command)
    /\ result \in Results \cup {"IncorrectDocumentForObject", "InvalidDrawContextType"}
    /\ ctx_doc \in Docs
    /\ ctx_type \in ContextTypes
    /\ stored \in [Docs -> Seq(Stored)]

(* Every content stream a document stores, from a page, a pattern or a    *)
(* transparency group, closes every q, BT and BMC/BDC it opens, in order:  *)
(* the spec's nesting discipline for finalized streams, which add_pattern  *)
(* and add_transparency_group enforce with marked_content_depth() only.   *)
StoredStreamsBalanced ==
    \A d \in Docs : \A i \in 1..Len(stored[d]) :
        stored[d][i].nesting = [ok |-> TRUE, open |-> <<>>]

(* Every object a document stores was made from a context of that same    *)
(* document, whose resource numbers are numbers of that document: the     *)
(* cross-document rejection the spec asks of add_pattern and              *)
(* add_transparency_group.                                                *)
StoredByOwner ==
    \A d \in Docs : \A i \in 1..Len(stored[d]) : stored[d][i].owner = d

=============================================================================

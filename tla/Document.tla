------------------------------ MODULE Document ------------------------------
(***************************************************************************)
(* PdfDocument (src/src/pdfdocument.cpp): the indirect-object table and    *)
(* the registries that hand out object numbers, the operations that add   *)
(* objects, and create_catalog, which builds the name tree, outlines,      *)
(* structure tree and catalog when the document is written.                *)
(*                                                                         *)
(* An object is its kind (the variant of document_objects, or what a       *)
(* FullPDFObject's dictionary is), the references its dictionary will      *)
(* contain as <<key, object number>> pairs, and for ICC streams the        *)
(* profile bytes.  Dictionary text, formatting and compression are left    *)
(* out: the properties are about which object number goes where.          *)
(* objs[n] is object number n; the DummyIndexZero slot is not stored.      *)
(* The registries of the class are the fields of the record doc; API ids   *)
(* are 0-based positions in them, as in the code.  gstates, functions,     *)
(* shadings and labs are not members of the class: they hold the ids the   *)
(* calls returned to the caller, which are object numbers.                *)
(***************************************************************************)
EXTENDS Naturals, Sequences, SequencesExt, FiniteSets

CONSTANTS
    Profiles,   \* distinct ICC profile contents (byte strings)
    NoBytes,    \* an empty std::string / absent profile
    NDEBUG,     \* TRUE: assert() is compiled out; FALSE: it aborts
    Bound,      \* Bound[r]: how many entries registry r may reach
    MaxPageStructs,   \* most BDC structure items one page's context uses
    MaxSubnav,        \* longest sub-page navigation of a page
    AnyOutlineParent, \* FALSE: callers pass only existing outline ids as parent
    BuiltinFonts,     \* CapyPDF_Builtin_Fonts values a caller asks for
    RoleNames         \* role names for add_rolemap_entry, as character sequences

ASSUME NoBytes \notin Profiles /\ NDEBUG \in BOOLEAN /\ AnyOutlineParent \in BOOLEAN

Registries == {"pages", "ocg_items", "annotations", "form_xobjects",
               "form_widgets", "structure_items", "outlines", "icc_profiles",
               "image_info", "embedded_files", "separations",
               "gstates", "functions", "shadings", "labs", "font_objects", "rolemap"}
ASSUME Bound \in [Registries -> Nat]

None == -1
Colorspaces == {"DeviceRGB", "DeviceGray", "DeviceCMYK"}

VARIABLES
    objs,      \* document_objects[1..]
    doc,       \* the registries and single object numbers of PdfDocument
    written,   \* create_catalog has run
    result,    \* return value of the last call
    aborted    \* assert()/std::abort() stopped the process

vars == <<objs, doc, written, result, aborted>>

(* The kind of object each dictionary key must reference.                  *)
RefKinds ==
    [Fn |-> {"SeparationFn"}, ICC |-> {"ICCStream"}, ColorSpace |-> {"ICCBased"},
     SMask |-> {"Image"}, Resources |-> {"Resources"}, Contents |-> {"Contents"},
     Parent |-> {"Pages"}, PresSteps |-> {"NavNode"}, Annots |-> {"Annotation"},
     Widgets |-> {"Checkbox"}, NavNext |-> {"NavNode"}, NavPrev |-> {"NavNode"},
     NA_ON |-> {"OCG"}, NA_OFF |-> {"OCG"}, PA_ON |-> {"OCG"}, PA_OFF |-> {"OCG"},
     OnAP |-> {"FormXObject"}, OffAP |-> {"FormXObject"}, P |-> {"StructItem"},
     EF |-> {"EmbeddedFile"}, FileSpec |-> {"Filespec"}, Dest |-> {"Page"},
     Prev |-> {"Outline"}, Next |-> {"Outline"}, First |-> {"Outline"},
     Last |-> {"Outline"}, OParent |-> {"Outline", "Outlines"},
     Pages |-> {"Pages"}, Outlines |-> {"Outlines"}, Names |-> {"Names"},
     StructTreeRoot |-> {"StructTreeRoot"}, K |-> {"StructItem"},
     ParentTree |-> {"ParentTree"}, PTItem |-> {"StructItem"},
     OutputIntents |-> {"OutputIntent"}, Fields |-> {"Checkbox"},
     OCGs |-> {"OCG"}, Function |-> {"Function"},
     FontFile2 |-> {"SubsetFontData"}, FontDescriptor |-> {"SubsetFontDescriptor"},
     ToUnicode |-> {"SubsetCMap"}]

Obj(k, refs) == [kind |-> k, refs |-> refs, data |-> NoBytes]

At(s, id) == s[id + 1]                 \* registry entry of a 0-based id
NextNum == Len(objs) + 1               \* what add_object will return
Refs(n, key) == {r[2] : r \in {x \in objs[n].refs : x[1] = key}}

-----------------------------------------------------------------------------
(* ICC profiles: find_icc_profile compares the stored stream bytes; store_ *)
(* icc_profile asserts that the profile is new, then adds the stream and   *)
(* the [ /ICCBased n 0 R ] array.  Both return a 0-based IccId or None.    *)
find_icc_profile(bytes) ==
    IF \E i \in 1..Len(doc.icc_profiles) : objs[doc.icc_profiles[i].stream_num].data = bytes
    THEN (CHOOSE i \in 1..Len(doc.icc_profiles) :
              objs[doc.icc_profiles[i].stream_num].data = bytes) - 1
    ELSE None

(* The objects and registry entry store_icc_profile adds, after objs o.    *)
IccObjects(o, bytes) ==
    <<[kind |-> "ICCStream", refs |-> {}, data |-> bytes],
      Obj("ICCBased", {<<"ICC", Len(o) + 1>>})>>
(* Mutant: the stream and the array object numbers swapped.              *)
IccEntrySwapped(o) == [stream_num |-> Len(o) + 2, object_num |-> Len(o) + 1]
IccEntry(o) == [stream_num |-> Len(o) + 1, object_num |-> Len(o) + 2]

(* store_icc_profile(): aborts on an existing profile unless NDEBUG.       *)
StoreIccAborts(bytes) == find_icc_profile(bytes) # None /\ ~NDEBUG

-----------------------------------------------------------------------------
(* generate_info_object(): metadata strings and dates, no references.    *)
InfoObject == Obj("Info", {})

(* Mutant: /DestOutputProfile names the profile's /ICCBased array object. *)
OutputIntentObjectArray(icc) == Obj("OutputIntent", {<<"ICC", icc.object_num>>})

(* create_output_intent(): /DestOutputProfile is the output profile's      *)
(* stream object.                                                          *)
OutputIntentObject(icc) == Obj("OutputIntent", {<<"ICC", icc.stream_num>>})

(* init(): the info object, the "All" separation for CMYK output, the      *)
(* output profile, the page group, the DelayedPages slot and, for a PDF/X, *)
(* PDF/A or PDF/E subtype, the output intent.  Only the options for which  *)
(* construct() succeeds start a document (OutputProfileMissing and         *)
(* MissingIntentIdentifier otherwise).                                     *)
InitObjects(cs, prof, subtype) ==
    LET o1 == <<InfoObject>>
        o2 == IF cs = "DeviceCMYK"
              THEN o1 \o <<Obj("SeparationFn", {}), Obj("Separation", {<<"Fn", 2>>})>>
              ELSE o1
        o3 == IF prof # NoBytes THEN o2 \o IccObjects(o2, prof) ELSE o2
        o4 == o3 \o <<Obj("PageGroup", {}), Obj("Pages", {})>>
    IN  IF subtype
        THEN o4 \o <<OutputIntentObject(IccEntry(o2))>>
        ELSE o4

Init ==
    \E cs \in Colorspaces, prof \in Profiles \cup {NoBytes},
       subtype \in BOOLEAN, has_identifier \in BOOLEAN :
        /\ cs = "DeviceCMYK" => prof # NoBytes
        /\ subtype => prof # NoBytes /\ has_identifier
        /\ LET o == InitObjects(cs, prof, subtype)
               o2 == IF cs = "DeviceCMYK" THEN 3 ELSE 1
           IN  /\ objs = o
               /\ doc = [output_colorspace |-> cs,
                         cmyk_profile |-> cs = "DeviceCMYK",
                         icc_profiles |-> IF prof # NoBytes
                                          THEN <<[stream_num |-> o2 + 1,
                                                  object_num |-> o2 + 2]>>
                                          ELSE <<>>,
                         output_intent_object |-> IF subtype THEN Len(o) ELSE None,
                         pages_object |-> IF subtype THEN Len(o) - 1 ELSE Len(o),
                         pages |-> <<>>, ocg_items |-> <<>>, annotations |-> <<>>,
                         form_xobjects |-> <<>>, form_widgets |-> <<>>,
                         form_use |-> {}, annotation_use |-> {},
                         structure_items |-> <<>>, structure_use |-> <<>>,
                         structure_parent_tree_items |-> <<>>,
                         outlines |-> <<>>, image_info |-> <<>>,
                         embedded_files |-> <<>>,
                         separations |-> IF cs = "DeviceCMYK" THEN <<3>> ELSE <<>>,
                         gstates |-> <<>>, functions |-> <<>>, shadings |-> <<>>,
                         labs |-> <<>>, builtin_fonts |-> <<>>, font_objects |-> <<>>,
                         fonts |-> <<>>, loaded_fonts |-> <<>>,
                         rolemap |-> <<>>, role_ids |-> <<>>]
    /\ written = FALSE
    /\ result = "ok"
    /\ aborted = FALSE

-----------------------------------------------------------------------------
Room(r) == Len(doc[r]) < Bound[r]

Done(o, d) ==
    /\ objs' = o
    /\ doc' = d
    /\ result' = "ok"
    /\ UNCHANGED <<written, aborted>>

Fail(err) ==
    /\ result' = err
    /\ UNCHANGED <<objs, doc, written, aborted>>

(* add_optional_content_group(): one /OCG object.                          *)
add_optional_content_group ==
    /\ Room("ocg_items")
    /\ Done(Append(objs, Obj("OCG", {})),
            [doc EXCEPT !.ocg_items = Append(@, NextNum)])

(* Mutant: the DelayedAnnotation is added before the rectangle check.      *)
create_annotationObjectFirst(has_rect) ==
    /\ Room("annotations")
    /\ IF ~has_rect
       THEN /\ objs' = Append(objs, Obj("Annotation", {}))
            /\ result' = "AnnotationMissingRect"
            /\ UNCHANGED <<doc, written, aborted>>
       ELSE Done(Append(objs, Obj("Annotation", {})),
                 [doc EXCEPT !.annotations = Append(@, NextNum)])

(* create_annotation(): AnnotationMissingRect, else a DelayedAnnotation.   *)
create_annotation(has_rect) ==
    /\ Room("annotations")
    /\ IF ~has_rect THEN Fail("AnnotationMissingRect")
       ELSE Done(Append(objs, Obj("Annotation", {})),
                 [doc EXCEPT !.annotations = Append(@, NextNum)])

(* add_form_xobject(): the serialized form XObject as one object.         *)
add_form_xobject ==
    /\ Room("form_xobjects")
    /\ Done(Append(objs, Obj("FormXObject", {})),
            [doc EXCEPT !.form_xobjects = Append(@, NextNum)])

(* Mutant: the appearance streams are referenced by FormXObjectId instead *)
(* of by their object numbers.                                             *)
create_form_checkboxIdNotObj(onstate, offstate) ==
    /\ Room("form_widgets")
    /\ IF ~({onstate, offstate} \subseteq 0..Len(doc.form_xobjects) - 1)
       THEN Fail("IndexOutOfBounds")
       ELSE Done(Append(objs, Obj("Checkbox", {<<"OnAP", onstate>>, <<"OffAP", offstate>>})),
                 [doc EXCEPT !.form_widgets = Append(@, NextNum)])

(* create_form_checkbox(): both appearance ids must index form_xobjects.  *)
create_form_checkbox(onstate, offstate) ==
    /\ Room("form_widgets")
    /\ IF ~({onstate, offstate} \subseteq 0..Len(doc.form_xobjects) - 1)
       THEN Fail("IndexOutOfBounds")
       ELSE Done(Append(objs, Obj("Checkbox",
                            {<<"OnAP", At(doc.form_xobjects, onstate)>>,
                             <<"OffAP", At(doc.form_xobjects, offstate)>>})),
                 [doc EXCEPT !.form_widgets = Append(@, NextNum)])

(* add_structure_item() (both overloads): the parent must already exist;  *)
(* the role (None for a builtin CapyPDF_StructureType) is stored as it is; *)
(* the item is a DelayedStructItem whose /P is its parent's object.        *)
add_structure_item(parent, role) ==
    /\ Room("structure_items")
    /\ IF parent # None /\ parent \notin 0..Len(doc.structure_items) - 1
       THEN Fail("IndexOutOfBounds")
       ELSE Done(Append(objs, Obj("StructItem",
                     IF parent = None THEN {}
                     ELSE {<<"P", At(doc.structure_items, parent).obj_id>>})),
                 [doc EXCEPT !.structure_items =
                     Append(@, [obj_id |-> NextNum, parent |-> parent, role |-> role])])

(* A role name that is empty or starts with '/'.                           *)
SlashStart(name) == name = <<>> \/ Head(name) = "/"

(* Mutant: the id is rolemap.size() after the emplace_back, without - 1.  *)
RoleIdNoDec == Len(doc.rolemap) + 1

(* CapyPDF_RoleId{rolemap.size() - 1} after the emplace_back.              *)
RoleId == Len(doc.rolemap)

(* Mutant: the loop over existing entries left out.                        *)
add_rolemap_entryNoDupCheck(name) ==
    /\ Room("rolemap")
    /\ IF SlashStart(name) THEN Fail("SlashStart")
       ELSE Done(objs, [doc EXCEPT !.rolemap = Append(@, [name |-> name]),
                                   !.role_ids = Append(@, [id |-> RoleId, name |-> name])])

(* add_rolemap_entry(name, builtin_type): SlashStart, RoleAlreadyDefined   *)
(* for a name already mapped, else a new entry.  The builtin type it maps  *)
(* to is left out.  role_ids is not a member of the class: it holds the    *)
(* ids returned with the names they were returned for.                     *)
add_rolemap_entry(name) ==
    /\ Room("rolemap")
    /\ CASE SlashStart(name) -> Fail("SlashStart")
         [] \E i \in 1..Len(doc.rolemap) : doc.rolemap[i].name = name ->
               Fail("RoleAlreadyDefined")
         [] OTHER ->
               Done(objs, [doc EXCEPT !.rolemap = Append(@, [name |-> name]),
                                      !.role_ids = Append(@, [id |-> RoleId, name |-> name])])

(* add_outline(): no check of parent or dest; the entry is only recorded.  *)
add_outline(dest, parent) ==
    /\ Room("outlines")
    /\ Done(objs, [doc EXCEPT !.outlines =
                      Append(@, [dest |-> dest, parent |-> parent])])

(* Mutant: load_icc_file stores without looking for the profile first.     *)
load_icc_fileNoFind(bytes) ==
    /\ Room("icc_profiles")
    /\ Done(objs \o IccObjects(objs, bytes),
            [doc EXCEPT !.icc_profiles = Append(@, IccEntry(objs))])

(* load_icc_file(): an identical profile already stored is reused.        *)
load_icc_file(bytes) ==
    /\ Room("icc_profiles")
    /\ IF find_icc_profile(bytes) # None
       THEN Fail("ok")
       ELSE Done(objs \o IccObjects(objs, bytes),
                 [doc EXCEPT !.icc_profiles = Append(@, IccEntry(objs))])

(* embed_file(): the /EmbeddedFile stream and its /Filespec.               *)
embed_file ==
    /\ Room("embedded_files")
    /\ Done(objs \o <<Obj("EmbeddedFile", {}),
                       Obj("Filespec", {<<"EF", NextNum>>})>>,
            [doc EXCEPT !.embedded_files = Append(@, NextNum + 1)])

-----------------------------------------------------------------------------
(* add_image_object(): one /Image stream; its /ColorSpace is a reference   *)
(* only for an ICC profile, its /SMask the soft mask's object.             *)
ImageObject(icc_obj, smask) ==
    Obj("Image", (IF icc_obj = None THEN {} ELSE {<<"ColorSpace", icc_obj>>})
                 \cup (IF smask = None THEN {} ELSE {<<"SMask", smask>>}))

(* add_image(): the size, pixel and mask checks; an alpha channel becomes  *)
(* a soft-mask image first; an embedded ICC profile is stored (without a  *)
(* lookup) and referenced; gray images pass through; otherwise the output  *)
(* colorspace decides (NoCmykProfile, UnsupportedFormat for CMYK output).  *)
add_image(size_ok, has_pixels, has_alpha, icc, cs, is_mask) ==
    /\ Room("image_info")
    /\ CASE ~size_ok -> Fail("InvalidImageSize")
         [] ~has_pixels -> Fail("MissingPixels")
         [] is_mask /\ has_alpha -> Fail("MaskAndAlpha")
         [] OTHER ->
            LET o1 == IF has_alpha THEN Append(objs, ImageObject(None, None)) ELSE objs
                d1 == IF has_alpha THEN [doc EXCEPT !.image_info = Append(@, Len(o1))]
                      ELSE doc
                smask == IF has_alpha THEN Len(o1) ELSE None
                AddImage(o, d, icc_obj) ==
                    Done(Append(o, ImageObject(icc_obj, smask)),
                         [d EXCEPT !.image_info = Append(@, Len(o) + 1)])
            IN  CASE icc # NoBytes /\ StoreIccAborts(icc) ->
                       /\ aborted' = TRUE
                       /\ UNCHANGED <<objs, doc, written, result>>
                  [] icc # NoBytes ->
                       LET o2 == o1 \o IccObjects(o1, icc)
                           d2 == [d1 EXCEPT !.icc_profiles = Append(@, IccEntry(o1))]
                       IN  AddImage(o2, d2, IF is_mask THEN None
                                            ELSE Last(d2.icc_profiles).object_num)
                  [] cs = "DeviceGray" \/ doc.output_colorspace # "DeviceCMYK" ->
                       AddImage(o1, d1, None)
                  [] ~doc.cmyk_profile ->
                       /\ objs' = o1 /\ doc' = d1 /\ result' = "NoCmykProfile"
                       /\ UNCHANGED <<written, aborted>>
                  [] cs # "DeviceCMYK" ->
                       /\ objs' = o1 /\ doc' = d1 /\ result' = "UnsupportedFormat"
                       /\ UNCHANGED <<written, aborted>>
                  [] OTHER -> AddImage(o1, d1, None)

-----------------------------------------------------------------------------
(* create_subnavigation(): for the OCG ids sn = <<id_0, .., id_k-1>> the   *)
(* root (NA: OFF all, PA: ON all, Prev: the terminal node), one node per  *)
(* step i (NA: ON id_i; for i > 0 PA: OFF id_i-1 and Prev) and the         *)
(* terminal node (PA: OFF id_k-1).  root_obj is predicted as the next      *)
(* object number before any of them is added.                              *)
(* Mutant: the root's /Prev is root_obj + size, the last step's node.      *)
SubnavRootPrevOffByOne(root, all, k) ==
    Obj("NavNode", {<<"NA_OFF", x>> : x \in all} \cup {<<"PA_ON", x>> : x \in all}
                   \cup {<<"NavNext", root + 1>>, <<"NavPrev", root + k>>})

SubnavRoot(root, all, k) ==
    Obj("NavNode", {<<"NA_OFF", x>> : x \in all} \cup {<<"PA_ON", x>> : x \in all}
                   \cup {<<"NavNext", root + 1>>, <<"NavPrev", root + 1 + k>>})

SubnavObjects(o, sn) ==
    LET k == Len(sn)
        root == Len(o) + 1
        first == root + 1
        ocg(i) == At(doc.ocg_items, sn[i + 1])
        all == {ocg(i) : i \in 0..k-1}
        Node(i) ==
            Obj("NavNode", {<<"NA_ON", ocg(i)>>, <<"NavNext", first + i + 1>>}
                           \cup (IF i > 0 THEN {<<"PA_OFF", ocg(i - 1)>>,
                                                <<"NavPrev", first + i - 1>>}
                                 ELSE {}))
    IN  <<SubnavRoot(root, all, k)>>
        \o [i \in 1..k |-> Node(i - 1)]
        \o <<Obj("NavNode", {<<"PA_OFF", ocg(k - 1)>>, <<"NavPrev", first + k - 1>>})>>

(* Mutant: the loop over the page's annotations is missing.                *)
PageReuseErrorNoAnnotCheck(fws, annots, structs) ==
    CASE fws \cap doc.form_use # {} -> "AnnotationReuse"
      [] ToSet(structs) \cap DOMAIN doc.structure_use # {} -> "StructureReuse"
      [] OTHER -> "ok"

(* Mutant: /PresSteps written for every page, with or without navigation.  *)
PresStepsRefAlways(subnav_root) == {<<"PresSteps", subnav_root>>}

(* The page's /PresSteps: only a page with navigation has a subnav_root.   *)
PresStepsRef(subnav_root) ==
    IF subnav_root = None THEN {} ELSE {<<"PresSteps", subnav_root>>}

(* The reuse checks at the top of add_page(), in the code's order.        *)
PageReuseError(fws, annots, structs) ==
    CASE fws \cap doc.form_use # {} -> "AnnotationReuse"
      [] annots \cap doc.annotation_use # {} -> "AnnotationReuse"
      [] ToSet(structs) \cap DOMAIN doc.structure_use # {} -> "StructureReuse"
      [] OTHER -> "ok"

(* Mutant: /StructParents is the page index (pages.size()).              *)
StructParentsPageIndex(structs) ==
    IF structs = <<>> THEN None ELSE Len(doc.pages)

(* The /StructParents key of a page: the index its entry gets in           *)
(* structure_parent_tree_items, none for a page without structure items.   *)
StructParents(structs) ==
    IF structs = <<>> THEN None ELSE Len(doc.structure_parent_tree_items)

(* add_page(): AnnotationReuse / StructureReuse when a widget, annotation  *)
(* or structure item is already on a page; else the resource dictionary,  *)
(* the content stream, the navigation nodes and the DelayedPage, whose     *)
(* references the writer resolves: /Parent, /PresSteps, /Annots and the    *)
(* widgets.  structs lists the page's BDC items in MCID order.            *)
add_page(fws, annots, structs, subnav) ==
    /\ Room("pages")
    /\ IF PageReuseError(fws, annots, structs) # "ok"
       THEN Fail(PageReuseError(fws, annots, structs))
       ELSE
            LET resource_num == NextNum
                commands_num == NextNum + 1
                o1 == objs \o <<Obj("Resources", {}), Obj("Contents", {})>>
                subnav_root == IF subnav = <<>> THEN None ELSE Len(o1) + 1
                o2 == IF subnav = <<>> THEN o1 ELSE o1 \o SubnavObjects(o1, subnav)
                page_obj == Len(o2) + 1
                page == Obj("Page",
                          {<<"Resources", resource_num>>, <<"Contents", commands_num>>,
                           <<"Parent", doc.pages_object>>}
                          \cup PresStepsRef(subnav_root)
                          \cup {<<"Annots", At(doc.annotations, a)>> : a \in annots}
                          \cup {<<"Widgets", At(doc.form_widgets, w)>> : w \in fws})
                structparents == StructParents(structs)
            IN  Done(Append(o2, page),
                     [doc EXCEPT
                        !.structure_parent_tree_items =
                            IF structs = <<>> THEN @ ELSE Append(@, structs),
                        !.form_use = @ \cup fws,
                        !.annotation_use = @ \cup annots,
                        !.structure_use =
                            [s \in DOMAIN @ \cup ToSet(structs) |->
                               IF s \in ToSet(structs)
                               THEN [page |-> Len(doc.pages),
                                     mcid |-> Max({i \in 1..Len(structs) : structs[i] = s}) - 1]
                               ELSE @[s]],
                        !.pages = Append(@, [resources |-> resource_num,
                                             commands |-> commands_num,
                                             page_obj |-> page_obj,
                                             structparents |-> structparents,
                                             subnav_root |-> subnav_root,
                                             subnav |-> subnav,
                                             widgets |-> fws,
                                             annots |-> annots,
                                             structs |-> structs])])

-----------------------------------------------------------------------------
(* fmt "{:0w}" of a natural number: its decimal digits, zero-padded on the *)
(* left to width w.                                                        *)
RECURSIVE DecDigits(_)
DecDigits(i) == IF i < 10 THEN <<i>> ELSE DecDigits(i \div 10) \o <<i % 10>>

PadDigits(i, w) ==
    [j \in 1..(w - Len(DecDigits(i))) |-> 0] \o DecDigits(i)

NameKey(prefix, w, i) == <<prefix, PadDigits(i, w)>>

(* create_name_dict(): the /EmbeddedFiles name tree, one (embobj{:06})     *)
(* key per file, and the /Limits pair, formatted with {:05} and the second *)
(* prefix "embojb".                                                        *)
NameDictObject ==
    LET n == Len(doc.embedded_files)
    IN  [kind |-> "Names",
         refs |-> {<<"FileSpec", doc.embedded_files[i]>> : i \in 1..n},
         data |-> [limits |-> <<NameKey("embobj", 5, 0), NameKey("embojb", 5, n - 1)>>,
                   keys |-> [i \in 1..n |-> NameKey("embobj", 6, i - 1)]]]

(* outlines.children[p]: the ids whose parent is p, in insertion order.    *)
OutlineChildren(p) ==
    SelectSeq([i \in 1..Len(doc.outlines) |-> i - 1],
              LAMBDA i : At(doc.outlines, i).parent = p)

(* Mutant: /Prev names the item itself rather than the previous sibling.   *)
SiblingRefsPrevSelf(first, sib, pos) ==
    (IF Len(sib) > 1 /\ pos > 1 THEN {<<"Prev", first + sib[pos]>>} ELSE {})
    \cup (IF Len(sib) > 1 /\ pos < Len(sib) THEN {<<"Next", first + sib[pos + 1]>>} ELSE {})

(* Mutant: catalog_obj_num is one past the /Outlines object.               *)
OutlineParentRefOffByOne(first, par) ==
    IF par >= 0 THEN first + par ELSE first + Len(doc.outlines) + 1

(* The /Parent of an outline whose parent id is par: the parent item, or   *)
(* for a top-level item catalog_obj_num, the /Outlines object.             *)
OutlineParentRef(first, par) ==
    IF par >= 0 THEN first + par ELSE first + Len(doc.outlines)

(* The /Prev and /Next of the outline at position pos among its siblings  *)
(* sib: written only when there is more than one sibling.                  *)
SiblingRefs(first, sib, pos) ==
    (IF Len(sib) > 1 /\ pos > 1 THEN {<<"Prev", first + sib[pos - 1]>>} ELSE {})
    \cup (IF Len(sib) > 1 /\ pos < Len(sib) THEN {<<"Next", first + sib[pos + 1]>>} ELSE {})

(* create_outlines(): item i becomes object first + i, the /Outlines root  *)
(* object first + n (catalog_obj_num).  /Prev and /Next only when there   *)
(* is more than one sibling; /First and /Last when there are children.    *)
OutlineObjects(first) ==
    LET n == Len(doc.outlines)
        Item(i) ==
            LET par == At(doc.outlines, i).parent
                sib == OutlineChildren(par)
                pos == CHOOSE j \in 1..Len(sib) : sib[j] = i
                kids == OutlineChildren(i)
            IN  Obj("Outline",
                    {<<"Dest", At(doc.pages, At(doc.outlines, i).dest).page_obj>>,
                     <<"OParent", OutlineParentRef(first, par)>>}
                    \cup SiblingRefs(first, sib, pos)
                    \cup (IF kids # <<>>
                          THEN {<<"First", first + kids[1]>>, <<"Last", first + Last(kids)>>}
                          ELSE {}))
        top == OutlineChildren(None)
    IN  [i \in 1..n |-> Item(i - 1)]
        \o <<Obj("Outlines", {<<"First", first + top[1]>>, <<"Last", first + Last(top)>>})>>

(* create_outlines() throws (pages.at, outlines.children.at(-1)) when an   *)
(* outline's destination page was never added or no outline is top-level; *)
(* the exception is not caught and terminates the process.                 *)
OutlinesThrow ==
    /\ doc.outlines # <<>>
    /\ \/ \E i \in 1..Len(doc.outlines) : doc.outlines[i].dest >= Len(doc.pages)
       \/ OutlineChildren(None) = <<>>

(* create_structure_parent_tree(): entry k lists the object numbers of the *)
(* structure items of the page whose /StructParents is k.                  *)
ParentTreeObject ==
    LET e == doc.structure_parent_tree_items
    IN  [kind |-> "ParentTree",
         refs |-> {<<"PTItem", At(doc.structure_items, s).obj_id>> :
                      s \in UNION {ToSet(e[k]) : k \in 1..Len(e)}},
         data |-> [k \in 1..Len(e) |->
                     [j \in 1..Len(e[k]) |-> At(doc.structure_items, e[k][j]).obj_id]]]

(* create_structure_root_dict(): /K is the first item without a parent;   *)
(* /RoleMap lists the rolemap's names in order (empty: no /RoleMap).       *)
StructRootObject(tree) ==
    LET items == doc.structure_items
        root == Min({i \in 1..Len(items) : items[i].parent = None})
    IN  [kind |-> "StructTreeRoot",
         refs |-> {<<"K", items[root].obj_id>>, <<"ParentTree", tree>>},
         data |-> [rolemap |-> [i \in 1..Len(doc.rolemap) |-> doc.rolemap[i].name]]]


(* create_catalog(), called once when the document is written: the name   *)
(* tree, the outlines, the parent tree and structure root, each only when  *)
(* its registry is non-empty and in this order, then the catalog.  The     *)
(* AcroForm lists every widget once any widget is used on a page.          *)
create_catalog ==
    /\ ~written
    /\ IF OutlinesThrow
       THEN /\ aborted' = TRUE
            /\ UNCHANGED <<objs, doc, written, result>>
       ELSE
        LET o1 == IF doc.embedded_files = <<>> THEN objs ELSE Append(objs, NameDictObject)
            names == IF doc.embedded_files = <<>> THEN None ELSE Len(o1)
            o2 == IF doc.outlines = <<>> THEN o1 ELSE o1 \o OutlineObjects(Len(o1) + 1)
            outlines == IF doc.outlines = <<>> THEN None ELSE Len(o2)
            o3 == IF doc.structure_items = <<>> THEN o2
                  ELSE o2 \o <<ParentTreeObject, StructRootObject(Len(o2) + 1)>>
            root == IF doc.structure_items = <<>> THEN None ELSE Len(o3)
            Ref(key, n) == IF n = None THEN {} ELSE {<<key, n>>}
            catalog ==
                Obj("Catalog",
                    {<<"Pages", doc.pages_object>>}
                    \cup Ref("Outlines", outlines) \cup Ref("Names", names)
                    \cup Ref("StructTreeRoot", root)
                    \cup Ref("OutputIntents", doc.output_intent_object)
                    \cup (IF doc.form_use = {} THEN {}
                          ELSE {<<"Fields", w>> : w \in ToSet(doc.form_widgets)})
                    \cup {<<"OCGs", o>> : o \in ToSet(doc.ocg_items)})
        IN  /\ objs' = Append(o3, catalog)
            /\ written' = TRUE
            /\ result' = "ok"
            /\ UNCHANGED <<doc, aborted>>

-----------------------------------------------------------------------------
(* Resource objects.  Their ids are object numbers, except SeparationId,  *)
(* a 0-based index into separation_objects.                                *)

(* Mutant: the id taken after add_object, document_objects.size() + 0.    *)
GsIdAfterAdd == NextNum + 1

(* add_graphics_state(): id = document_objects.size() before add_object.  *)
GsId == NextNum

add_graphics_state ==
    /\ Room("gstates")
    /\ Done(Append(objs, Obj("ExtGState", {})),
            [doc EXCEPT !.gstates = Append(@, GsId)])

(* Mutant: the function's position among the functions returned instead  *)
(* of add_object's result.                                                 *)
add_functionIndex(c0, c1) ==
    /\ Room("functions")
    /\ IF c0 # c1 THEN Fail("ColorspaceMismatch")
       ELSE Done(Append(objs, Obj("Function", {})),
                 [doc EXCEPT !.functions = Append(@, Len(doc.functions))])

(* add_function(FunctionType2): C0 and C1 must be colours of the same      *)
(* variant; the id is add_object's result.                                 *)
add_function(c0, c1) ==
    /\ Room("functions")
    /\ IF c0 # c1 THEN Fail("ColorspaceMismatch")
       ELSE Done(Append(objs, Obj("Function", {})),
                 [doc EXCEPT !.functions = Append(@, NextNum)])

(* add_shading(ShadingType2 / ShadingType3): /Function shade.function.id  *)
(* 0 R, written without any check of the id.                              *)
add_shading(fid) ==
    /\ Room("shadings")
    /\ Done(Append(objs, Obj("Shading", {<<"Function", fid>>})),
            [doc EXCEPT !.shadings = Append(@, NextNum)])

(* create_separation(): the tint function, then the /Separation array      *)
(* referencing it; the array's number goes to separation_objects.          *)
create_separation ==
    /\ Room("separations")
    /\ Done(objs \o <<Obj("SeparationFn", {}), Obj("Separation", {<<"Fn", NextNum>>})>>,
            [doc EXCEPT !.separations = Append(@, NextNum + 1)])

(* Mutant: document_objects.size() after add_object, without the - 1.     *)
LabIdNoDec == NextNum + 1

(* add_lab_colorspace(): LabId = document_objects.size() - 1 after the add. *)
LabId == NextNum

add_lab_colorspace ==
    /\ Room("labs")
    /\ Done(Append(objs, Obj("Lab", {})), [doc EXCEPT !.labs = Append(@, LabId)])

-----------------------------------------------------------------------------
(* Fonts.  font_objects holds a FontInfo per builtin and per loaded font:  *)
(* the objects of a loaded font (data, descriptor, font) and its index in  *)
(* fonts, None for a builtin one.  loaded_fonts is not a member of the     *)
(* class: it holds the FontIds load_font returned.                        *)
FontInfo(data, desc, font, index) ==
    [data |-> data, descriptor |-> desc, font_obj |-> font, index |-> index]

(* Mutant: builtin_fonts is not looked up, every call adds a font.         *)
get_builtin_font_idNoCache(font) ==
    /\ Room("font_objects")
    /\ Done(Append(objs, [kind |-> "Type1Font", refs |-> {}, data |-> font]),
            [doc EXCEPT !.font_objects = Append(@, FontInfo(None, None, NextNum, None)),
                        !.builtin_fonts = (font :> Len(doc.font_objects)) @@ @])

(* get_builtin_font_id(): the cached id, else one /Type1 font object and   *)
(* a FontInfo; the id is font_objects.size() - 1 after the push_back.      *)
get_builtin_font_id(font) ==
    IF font \in DOMAIN doc.builtin_fonts
    THEN Done(objs, doc)
    ELSE /\ Room("font_objects")
         /\ Done(Append(objs, [kind |-> "Type1Font", refs |-> {}, data |-> font]),
                 [doc EXCEPT !.font_objects = Append(@, FontInfo(None, None, NextNum, None)),
                             !.builtin_fonts = (font :> Len(doc.font_objects)) @@ @])

(* The four delayed objects of a loaded font's subset 0, after objs o,     *)
(* each carrying the font_source_id fsi.                                   *)
SubsetFontObjects(o, fsi) ==
    LET n == Len(o)
        D(k, refs) == [kind |-> k, refs |-> refs, data |-> fsi]
    IN  <<D("SubsetFontData", {}),
          D("SubsetFontDescriptor", {<<"FontFile2", n + 1>>}),
          D("SubsetCMap", {}),
          D("SubsetFont", {<<"FontDescriptor", n + 2>>, <<"ToUnicode", n + 3>>})>>

(* Mutant: the FontId computed as font_objects.size() - 1, as for builtin  *)
(* fonts.                                                                  *)
LoadedFontIdFromObjects == Len(doc.font_objects)

(* load_font(): CapyPDF_FontId{fonts.size() - 1} after the emplace_back.   *)
LoadedFontId == Len(doc.fonts)

(* load_font(): FT_New_Face fails (FreeTypeError), the face has no format  *)
(* or is not TrueType, or validates as OpenType (UnsupportedFormat);       *)
(* otherwise the font joins fonts, its four objects are added and its      *)
(* FontInfo is pushed.  file is what FreeType makes of the file.           *)
load_font(file) ==
    /\ Room("font_objects")
    /\ CASE file = "Unopenable" -> Fail("FreeTypeError")
         [] file \in {"NoFormat", "CFF", "OpenType"} -> Fail("UnsupportedFormat")
         [] OTHER ->
            LET fsi == Len(doc.fonts)
                d1 == [doc EXCEPT !.fonts = Append(@, file)]
            IN  Done(objs \o SubsetFontObjects(objs, fsi),
                     [d1 EXCEPT !.font_objects = Append(@, FontInfo(NextNum, NextNum + 1,
                                                                    NextNum + 3, fsi)),
                                !.loaded_fonts = Append(@, LoadedFontId)])

(* add_mask_image(): only 1-bit gray images (UnsupportedFormat), then     *)
(* add_image_object with /ImageMask, no /ColorSpace and no soft mask.      *)
add_mask_image(cs, one_bit) ==
    /\ Room("image_info")
    /\ IF cs # "DeviceGray" \/ ~one_bit THEN Fail("UnsupportedFormat")
       ELSE Done(Append(objs, ImageObject(None, None)),
                 [doc EXCEPT !.image_info = Append(@, NextNum)])

(* embed_jpg(): one /DCTDecode image object and its ImageInfo.             *)
embed_jpg ==
    /\ Room("image_info")
    /\ Done(Append(objs, Obj("Image", {})), [doc EXCEPT !.image_info = Append(@, NextNum)])

-----------------------------------------------------------------------------
(* What FreeType makes of a font file load_font is given.                  *)
FontFiles == {"TrueType", "OpenType", "CFF", "NoFormat", "Unopenable"}

SeqsUpTo(S, n) == UNION {[1..k -> S] : k \in 0..n}
Ids(r) == 0..Len(doc[r]) - 1

(* A draw context hands add_page the widgets and annotations it used (sets *)
(* of existing ids), its BDC structure items in MCID order (an item may    *)
(* be marked twice) and its navigation steps (distinct existing OCGs).     *)
Next ==
    /\ ~aborted
    /\ ~written
    /\ \/ add_optional_content_group
       \/ \E has_rect \in BOOLEAN : create_annotation(has_rect)
       \/ add_form_xobject
       \/ \E on, off \in 0..Bound["form_xobjects"] : create_form_checkbox(on, off)
       \/ \E parent \in {None} \cup 0..Len(doc.structure_items),
             role \in {None} \cup {e.id : e \in ToSet(doc.role_ids)} :
             add_structure_item(parent, role)
       \/ \E name \in RoleNames : add_rolemap_entry(name)
       \/ \E dest \in 0..Bound["pages"],
             parent \in {None} \cup (IF AnyOutlineParent THEN 0..Bound["outlines"] - 1
                                     ELSE Ids("outlines")) :
             add_outline(dest, parent)
       \/ \E bytes \in Profiles : load_icc_file(bytes)
       \/ embed_file
       \/ \E size_ok, has_pixels, has_alpha, is_mask \in BOOLEAN,
             icc \in Profiles \cup {NoBytes}, cs \in Colorspaces :
             add_image(size_ok, has_pixels, has_alpha, icc, cs, is_mask)
       \/ \E fws \in SUBSET Ids("form_widgets"), annots \in SUBSET Ids("annotations"),
             structs \in SeqsUpTo(Ids("structure_items"), MaxPageStructs),
             subnav \in {sn \in SeqsUpTo(Ids("ocg_items"), MaxSubnav) : IsInjective(sn)} :
             add_page(fws, annots, structs, subnav)
       \/ add_graphics_state
       \/ \E c0, c1 \in Colorspaces : add_function(c0, c1)
       \/ \E fid \in ToSet(doc.functions) : add_shading(fid)
       \/ create_separation
       \/ add_lab_colorspace
       \/ \E font \in BuiltinFonts : get_builtin_font_id(font)
       \/ \E file \in FontFiles : load_font(file)
       \/ \E cs \in Colorspaces, one_bit \in BOOLEAN : add_mask_image(cs, one_bit)
       \/ embed_jpg
       \/ create_catalog

Spec == Init /\ [][Next]_vars

-----------------------------------------------------------------------------
Kinds == {"Info", "SeparationFn", "Separation", "ICCStream", "ICCBased",
          "PageGroup", "Pages", "OutputIntent", "OCG", "Annotation",
          "FormXObject", "Checkbox", "StructItem", "EmbeddedFile", "Filespec",
          "Image", "Resources", "Contents", "NavNode", "Page", "Names",
          "Outline", "Outlines", "ParentTree", "StructTreeRoot", "Catalog",
          "ExtGState", "Function", "Shading", "Lab", "Type1Font", "SubsetFontData",
          "SubsetFontDescriptor", "SubsetCMap", "SubsetFont"}

TypeOK ==
    /\ \A n \in 1..Len(objs) :
          /\ objs[n].kind \in Kinds
          /\ objs[n].refs \subseteq (DOMAIN RefKinds) \X Nat
    /\ doc.output_colorspace \in Colorspaces
    /\ doc.pages_object \in 1..Len(objs)
    /\ doc.form_use \subseteq Ids("form_widgets")
    /\ doc.annotation_use \subseteq Ids("annotations")
    /\ written \in BOOLEAN /\ aborted \in BOOLEAN
    /\ result \in {"ok", "AnnotationMissingRect", "IndexOutOfBounds",
                   "AnnotationReuse", "StructureReuse", "InvalidImageSize",
                   "MissingPixels", "MaskAndAlpha", "NoCmykProfile",
                   "UnsupportedFormat", "ColorspaceMismatch", "FreeTypeError",
                   "SlashStart", "RoleAlreadyDefined"}

(* The one object a key of object n references.                            *)
Target(n, key) == CHOOSE m \in Refs(n, key) : TRUE

ObjsOf(k) == {n \in 1..Len(objs) : objs[n].kind = k}

HandleKinds == [gstates |-> "ExtGState", functions |-> "Function",
               shadings |-> "Shading", labs |-> "Lab"]

(* Every resource id a call returned still names an object of its kind    *)
(* after any later calls: graphics-state, function, shading and Lab ids    *)
(* are object numbers, each computed its own way around add_object        *)
(* (size() before the add, add_object's result, size() - 1 after it), and *)
(* a SeparationId indexes separation_objects, which holds the /Separation  *)
(* array's number, not its tint function's.                               *)
IdsResolve ==
    /\ \A r \in DOMAIN HandleKinds : \A i \in 1..Len(doc[r]) :
          /\ doc[r][i] \in 1..Len(objs)
          /\ objs[doc[r][i]].kind = HandleKinds[r]
    /\ \A i \in 1..Len(doc.separations) :
          /\ doc.separations[i] \in 1..Len(objs)
          /\ objs[doc.separations[i]].kind = "Separation"

(* Every FontId a call returned names its font after any later calls.  A  *)
(* builtin font's id indexes font_objects, and its FontInfo holds the one  *)
(* /Type1 object of that font (get_builtin_font_id caches it); a loaded    *)
(* font's id indexes fonts, and exactly one FontInfo carries it as index,  *)
(* the one whose font object is that font's subset font.  The two ids are  *)
(* counted from different tables, so they agree only as long as nothing    *)
(* else is pushed to font_objects.                                         *)
FontIdsResolve ==
    /\ \A font \in DOMAIN doc.builtin_fonts :
          LET id == doc.builtin_fonts[font]
          IN  /\ id \in 0..Len(doc.font_objects) - 1
              /\ objs[At(doc.font_objects, id).font_obj].kind = "Type1Font"
              /\ objs[At(doc.font_objects, id).font_obj].data = font
    /\ \A n, m \in ObjsOf("Type1Font") : objs[n].data = objs[m].data => n = m
    /\ \A i \in 1..Len(doc.loaded_fonts) :
          LET fid == doc.loaded_fonts[i]
              infos == {k \in 1..Len(doc.font_objects) : doc.font_objects[k].index = fid}
          IN  /\ fid \in 0..Len(doc.fonts) - 1
              /\ Cardinality(infos) = 1
              /\ \A k \in infos :
                    /\ objs[doc.font_objects[k].font_obj].kind = "SubsetFont"
                    /\ objs[doc.font_objects[k].font_obj].data = fid

(* When the document is written with structure items, the /RoleMap of the *)
(* structure root maps each name once, and every item created with a role  *)
(* id finds, at that position of the /RoleMap, the name the id was         *)
(* returned for: RoleIds are positions in rolemap, computed after the      *)
(* emplace_back, and the names are unique only by add_rolemap_entry's scan.*)
RolesResolve ==
    written /\ doc.structure_items # <<>> =>
        LET rm == objs[CHOOSE r \in ObjsOf("StructTreeRoot") : TRUE].data.rolemap
        IN  /\ IsInjective(rm)
            /\ \A i \in 1..Len(doc.structure_items) :
                  LET r == doc.structure_items[i].role
                  IN  r # None =>
                        /\ r \in 0..Len(rm) - 1
                        /\ \A e \in ToSet(doc.role_ids) : e.id = r => rm[r + 1] = e.name

(* Every object number written into a dictionary is one the document has,  *)
(* and the object there is of the kind the key needs.  The code predicts   *)
(* numbers before adding objects (create_subnavigation's root and /Prev,    *)
(* create_outlines' items and catalog_obj_num, the image's /SMask and ICC  *)
(* /ColorSpace): a wrong prediction points a key at a wrong object.        *)
RefsResolve ==
    \A n \in 1..Len(objs) : \A r \in objs[n].refs :
        /\ r[2] \in 1..Len(objs)
        /\ objs[r[2]].kind \in RefKinds[r[1]]

(* The OCG states a viewer reaches walking a page's navigation nodes.      *)
NavAct(n, S, onKey, offKey) == (S \ Refs(n, offKey)) \cup Refs(n, onKey)

RECURSIVE NavWalk(_, _, _, _)
NavWalk(n, S, k, fwd) ==
    LET key == IF fwd THEN "NavNext" ELSE "NavPrev"
    IN  IF k = 0 \/ Refs(n, key) = {} THEN <<>>
        ELSE LET S2 == IF fwd THEN NavAct(n, S, "NA_ON", "NA_OFF")
                       ELSE NavAct(n, S, "PA_ON", "PA_OFF")
             IN  <<[node |-> Target(n, key), vis |-> S2]>>
                 \o NavWalk(Target(n, key), S2, k - 1, fwd)

(* Sub-page navigation (create_subnavigation): stepping forward from the   *)
(* root passes k + 1 nodes, at the j-th of which exactly the first j - 1   *)
(* groups are visible; stepping backward from the root visits the same     *)
(* nodes in reverse with the same groups visible at each.                  *)
NavigationConsistent ==
    \A p \in 1..Len(doc.pages) : doc.pages[p].subnav_root # None =>
        LET sn == doc.pages[p].subnav
            k == Len(sn)
            F == NavWalk(doc.pages[p].subnav_root, {}, k + 2, TRUE)
            B == NavWalk(doc.pages[p].subnav_root, {}, k + 2, FALSE)
        IN  /\ Len(F) = k + 1
            /\ \A j \in 1..k + 1 : F[j].vis = {At(doc.ocg_items, sn[i]) : i \in 1..j - 1}
            /\ Reverse(F) = B

(* The chain of /Next links from outline b, at most k long.                *)
RECURSIVE NextChain(_, _)
NextChain(b, k) ==
    IF k = 0 THEN <<>>
    ELSE <<b>> \o (IF Refs(b, "Next") = {} THEN <<>> ELSE NextChain(Target(b, "Next"), k - 1))

RECURSIVE ReachesRoot(_, _, _)
ReachesRoot(b, root, k) ==
    /\ k > 0
    /\ \/ Target(b, "OParent") = root
       \/ /\ objs[Target(b, "OParent")].kind = "Outline"
          /\ ReachesRoot(Target(b, "OParent"), root, k - 1)

(* The outline tree create_outlines writes is a tree: every item reaches   *)
(* the /Outlines root through /Parent, and the children of every node are  *)
(* exactly the /Next chain from its /First to its /Last, with /Prev the    *)
(* inverse of /Next.                                                       *)
OutlineLinks ==
    written /\ doc.outlines # <<>> =>
        LET root == CHOOSE r \in ObjsOf("Outlines") : TRUE
            Kids(a) == {b \in ObjsOf("Outline") : Target(b, "OParent") = a}
        IN  /\ \A b \in ObjsOf("Outline") : ReachesRoot(b, root, Len(doc.outlines))
            /\ \A a \in ObjsOf("Outline") \cup {root} :
                  IF Kids(a) = {} THEN Refs(a, "First") \cup Refs(a, "Last") = {}
                  ELSE LET c == NextChain(Target(a, "First"), Cardinality(Kids(a)) + 1)
                       IN  /\ ToSet(c) = Kids(a)
                           /\ Len(c) = Cardinality(Kids(a))
                           /\ Target(a, "Last") = Last(c)
                           /\ Refs(c[1], "Prev") = {}
                           /\ \A i \in 2..Len(c) : Refs(c[i], "Prev") = {c[i - 1]}

(* The written /ParentTree maps every page's /StructParents key to the     *)
(* page's structure items in MCID order, and each item's recorded usage    *)
(* (page, MCID) finds the item there.                                       *)
ParentTreeConsistent ==
    written /\ doc.structure_items # <<>> =>
        LET T == objs[CHOOSE n \in ObjsOf("ParentTree") : TRUE].data
            obj(s) == At(doc.structure_items, s).obj_id
        IN  /\ \A p \in 1..Len(doc.pages) : doc.pages[p].structs # <<>> =>
                  /\ doc.pages[p].structparents \in 0..Len(T) - 1
                  /\ T[doc.pages[p].structparents + 1] =
                        [j \in 1..Len(doc.pages[p].structs) |-> obj(doc.pages[p].structs[j])]
            /\ \A s \in DOMAIN doc.structure_use :
                  LET u == doc.structure_use[s]
                  IN  T[At(doc.pages, u.page).structparents + 1][u.mcid + 1] = obj(s)

(* No annotation or form widget is on two pages, and no structure item is *)
(* marked on two pages (add_page's AnnotationReuse / StructureReuse).     *)
UniqueUse ==
    /\ \A n, m \in ObjsOf("Page") : n # m =>
          \A key \in {"Annots", "Widgets"} : Refs(n, key) \cap Refs(m, key) = {}
    /\ \A p, q \in 1..Len(doc.pages) : p # q =>
          ToSet(doc.pages[p].structs) \cap ToSet(doc.pages[q].structs) = {}

(* No two stored ICC profiles have the same bytes (an IccId per profile).  *)
IccProfilesDeduplicated ==
    \A i, j \in 1..Len(doc.icc_profiles) :
        i # j => objs[doc.icc_profiles[i].stream_num].data
                 # objs[doc.icc_profiles[j].stream_num].data

RECURSIVE ReachesK(_, _, _)
ReachesK(n, k, steps) ==
    \/ n = k
    \/ steps > 0 /\ Refs(n, "P") # {} /\ ReachesK(Target(n, "P"), k, steps - 1)

(* Every structure item written is in the tree under the /StructTreeRoot's *)
(* /K (create_structure_root_dict): its /P chain ends at the /K item.      *)
StructTreeComplete ==
    written /\ doc.structure_items # <<>> =>
        LET k == Target(CHOOSE r \in ObjsOf("StructTreeRoot") : TRUE, "K")
        IN  \A n \in ObjsOf("StructItem") : ReachesK(n, k, Len(doc.structure_items))

(* The /Limits of the embedded-files name tree are its least and greatest *)
(* keys (create_name_dict).                                                *)
NameTreeLimits ==
    \A n \in ObjsOf("Names") :
        objs[n].data.limits = <<objs[n].data.keys[1], Last(objs[n].data.keys)>>

(* A call that returns an error leaves the object table and every registry *)
(* as they were: each add_* makes its checks (RETERR) before its first     *)
(* add_object, so a failed call leaves nothing behind in the written file. *)
ErrorAddsNothing ==
    [][result' # "ok" => objs' = objs /\ doc' = doc]_vars

(* Writing a document whose every call returned (errors included) does not *)
(* terminate the process: no exception escapes create_catalog and no       *)
(* assert fires.                                                           *)
NoUncaughtThrow == ~aborted

=============================================================================

---------------------------- MODULE MC_Document ----------------------------
(***************************************************************************)
(* Instances of Document for TLC.  Each run enables only the registries    *)
(* its question is about (Bound[r] = 0 disables registry r) so that the    *)
(* interesting interleavings fit in a few minutes.                         *)
(***************************************************************************)
EXTENDS Document

MC_Profiles == {"srgb", "fogra"}
MC_OneProfile == {"srgb"}

Zero == [r \in Registries |-> 0]

(* Pages with annotations, a form widget and sub-page navigation.          *)
MC_BoundNav == [Zero EXCEPT !["pages"] = 2, !["ocg_items"] = 2,
                            !["annotations"] = 1, !["form_xobjects"] = 1,
                            !["form_widgets"] = 1]

(* Outlines and structure items over the same two pages.                  *)
MC_BoundTrees == [Zero EXCEPT !["pages"] = 2, !["outlines"] = 3,
                              !["structure_items"] = 2, !["embedded_files"] = 1]

(* One ICC profile loaded up to twice, one image, and the resource        *)
(* objects: a separation besides the CMYK "All" one, and one graphics     *)
(* state, function, shading and Lab space each.                           *)
MC_BoundResources == [Zero EXCEPT !["icc_profiles"] = 2, !["image_info"] = 1,
                                  !["separations"] = 2, !["gstates"] = 1,
                                  !["functions"] = 1, !["shadings"] = 1,
                                  !["labs"] = 1, !["font_objects"] = 2,
                                  !["structure_items"] = 1, !["rolemap"] = 2]

(* States that differ only in the last call's return value have the same *)
(* successors: no call reads it.  Runs whose properties do not read it    *)
(* either explore one of them.                                             *)
MC_StateView == <<objs, doc, written, aborted>>

(* The objects the calls of a behaviour add, beyond those init() adds.    *)
AddedObjects ==
    Len(objs) - (IF doc.output_intent_object # None THEN doc.output_intent_object
                 ELSE doc.pages_object)

(* At most MC_MaxAdded objects and rolemap entries added: long enough for *)
(* a builtin font and a loaded one, an image with an ICC profile and a     *)
(* soft mask, or three resource objects in any order, with a structure     *)
(* item and a role besides.                                                *)
MC_MaxAdded == 7
MC_CallBound == AddedObjects + Len(doc.rolemap) <= MC_MaxAdded

(* Role names: empty, starting with '/', and one valid name, which a      *)
(* second call finds already defined.                                      *)
MC_RoleNames == {<<>>, <<"/", "N">>, <<"N">>}

(* One builtin font, asked for any number of times.                        *)
MC_BuiltinFonts == {"Helvetica"}

=============================================================================

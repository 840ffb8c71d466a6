# TLA+ models of capypdf

Models of the PDF object-graph builder in `src/src/`. The models check the
parts of the code whose correctness depends on sequences of calls:
- the nesting state of a draw context;
- the font-subset bookkeeping and padding;
- the indirect-object numbering that the document predicts and that the
  catalog, outline, navigation and structure trees depend on.

## The system

| Part | Source | State | Interacts with |
|---|---|---|---|
| Draw context | `drawcontext.hpp` (bodies in `pdfdrawcontext.cpp`, not in `src/`) | `dstate_stack`, `ind`, `marked_depth`, `used_structures`, the command stream, `is_finalized` | the document: `add_page` takes its used widgets, annotations, BDC structure items and navigation; `add_pattern` and `add_transparency_group` read its `marked_content_depth()` |
| Font subsets | `pdfdocument.cpp` `get_subset_glyph`, `pad_subset_fonts`, `pad_subset_until_space`; `FontSubsetter` (`fontsubsetter.cpp`, not in `src/`) | per font, a list of subsets of codepoints | draw contexts use the `(subset, local id)` pairs; the writer calls `pad_subset_fonts` before writing |
| Object table and registries | `pdfdocument.cpp` | `document_objects`, and the registries `pages`, `ocg_items`, `annotations`, `form_xobjects`, `form_widgets`, `form_use`, `annotation_use`, `structure_items`, `structure_use`, `structure_parent_tree_items`, `outlines`, `icc_profiles`, `image_info`, `embedded_files`, and for fonts `builtin_fonts`, `fonts`, `font_objects` | every `add_*` appends objects and records numbers; `create_catalog` reads all of them |
| Image and ICC pipeline | `add_image`, `add_mask_image`, `embed_jpg`, `add_image_object`, `find/store_icc_profile`, `load_icc_file` | `icc_profiles`, `image_info` | the output profile from `init` |
| Document assembly | `create_catalog`, `create_name_dict`, `create_outlines`, `create_structure_parent_tree`, `create_structure_root_dict` | — (writes objects once) | runs once, when the document is written |
| Resource objects | `add_graphics_state`, `add_function`, `add_shading`, `add_pattern`, `create_separation`, `add_lab_colorspace`, `add_transparency_group`, `add_rolemap_entry` | `separation_objects`, `rolemap`; the others only return an object number | draw contexts reference them; `add_pattern` and `add_transparency_group` consume a draw context |
| Mesh-shading serializers | `serialize_shade4/6`, `append_floatvalue`, `num_channels_for`, `color2numbers` | none (pure) | `add_shading` for types 4 and 6 |
| C API | `pdfcapi.cpp` | none | an old generator class |

The program is single-threaded: all concurrency-like behaviour comes from the
order in which a caller makes API calls, from RAII guards (`GstatePopper`)
running at scope exit, and from write-time code that reads what earlier calls
recorded. The models therefore let every operation happen in any order. There
is no fairness and there are no liveness properties: nothing in the code is
obliged to happen, and every operation is a call the user may or may not make.
Even the `GstatePopper` destructor runs only when the caller's scope ends,
which the library does not control.

## Modules

### `DrawContext.tla` — the nesting discipline of one `PdfDrawContext`

| Variable | Code |
|---|---|
| `dstate_stack` | `dstate_stack` |
| `ind` | the length of `ind` |
| `marked_depth` | `marked_depth` |
| `commands` | the stream, one record per nesting operator |
| `used_structures` | `used_structures` |
| `poppers` | the live `GstatePopper` guards |
| `is_finalized` | `is_finalized` |
| `aborted` | `std::abort()` was reached |

The actions are:
- `cmd_q`/`cmd_Q`, `cmd_BT`/`cmd_ET`, `cmd_BMC`/`cmd_EMC` and `cmd_BDC`. These check first (`indent` and `dedent` are translated from the header), then change the stack and emit the operator.
- `push_gstate` and `GstatePopperDtor`. The destructor runs `cmd_Q` and discards its result.
- `clear` and `serialize`.

The `cmd_*` bodies are not under `src/`. They are modelled from the spec and marked spec-modelled in the map.

Only `indent` and `dedent` have their bodies in the header. `clear`,
`~GstatePopper`, `push_gstate` and `add_bcd_structure` are only declared
there, so they are modelled from the spec and marked spec-modelled too:
`clear` is assumed to reset every member, and `add_bcd_structure`, declared
to return `rvoe<int32_t>`, takes its success path only. Properties that
would rest on these assumptions alone (the `marked_depth` counter, the MCID
order, the unreachable abort) are not stated.

### `ContextUse.tla` — a draw context handed to documents

It EXTENDS `DrawContext` with:
- `ctx_doc`, the document the context was made for;
- `ctx_type`, the `CapyPDF_Draw_Context_Type`;
- `stored[d]`, the objects document `d` made from the context.

A stored object keeps the nesting a PDF reader parses from its stream
(`Unclosed`) and the document whose resource numbers it uses. Per-context
`INSTANCE` over function-valued variables is not used; one context with
two documents covers reuse across documents.

The actions are the drawing steps of `DrawContext` and three consumers:
- `add_pattern` (translated): the document, type and `marked_content_depth()` checks, then the stream as it is.
- `add_transparency_group` (translated): the type and depth checks, `serialize()`, then the object. The document is not checked.
- the generator's `add_page` (not under `src/`, modelled from the spec): document, type, `has_unclosed_state()` and depth checks, then `serialize()`.

### `FontSubsetter.tla` — glyph subsets and padding

`subsets[f]` holds the subsets of font `f`. `given[f]` holds every
`(codepoint, subset, id)` handed out so far.

The actions are:
- `get_subset_glyph`: the `MissingGlyph` check, then `get_glyph_subset`. The latter is modelled from the spec: reuse a slot if the codepoint has one, else append to the last subset while it has room, else open a new subset.
- `pad_subset_fonts`: translated loop for loop (`PadLoop`, `PadFont`), including the `std::abort()`.

`pad_subset_until_space` has no caller under `src/`. It is a pure operator
(`UntilSpaceLoop`, `pad_subset_until_space`) that searches only the subset it
is given. `UntilSpaceMeetsRule` applies it to the last subset of every font
as the subsetter builds it, and compares the result with `PaddingRule`. That
operator is a reference definition of the spec's padding rule: the missing
codepoints from '!' up to SPACE glyphs, then ' '.

The three numbers in the code are constants that a model scales together:
- `SPACE` = 32;
- `Capacity` = 256;
- `MaxCount` = 100.

### `Document.tla` — `PdfDocument`

- `objs[n]` is object number `n`. It records the object's kind and the references its dictionary holds, as `<<key, number>>` pairs. For ICC streams it also holds the profile bytes. For the name tree it holds its keys and `/Limits`.
- `doc` holds the registries of the class.
- `Init` enumerates the `construct()` options that succeed. For each it builds the objects `init()` adds: info (`InfoObject`, `generate_info_object`), the CMYK separation, the output profile, the page group, the pages slot, and the output intent (`OutputIntentObject`, `create_output_intent`, whose `/DestOutputProfile` is the profile's stream object).

The actions are:
- `add_optional_content_group`, `create_annotation`, `add_form_xobject`, `create_form_checkbox`, `add_structure_item`, `add_outline`, `load_icc_file`, `embed_file`.
- `add_image`, covering `add_image_object` and `store_icc_profile`.
- `add_page`, with its reuse checks and `create_subnavigation`.
- the resource objects `add_graphics_state`, `add_function` (`ColorspaceMismatch` if C0 and C1 differ in variant), `add_shading` for types 2 and 3 (a `/Function` reference), `create_separation` (tint function, then the `/Separation` array) and `add_lab_colorspace`. Their ids are object numbers, each computed in its own way around `add_object`; a `SeparationId` indexes `separation_objects`. `doc.gstates`, `doc.functions`, `doc.shadings` and `doc.labs` hold the ids returned to the caller.
- fonts: `get_builtin_font_id` returns the cached id or adds one `/Type1` object and a `FontInfo` (id `font_objects.size() - 1`). `load_font` takes FreeType's verdict on the file as input (`FontFiles`). It fails with `FreeTypeError` or `UnsupportedFormat` before it changes anything; otherwise it adds the four delayed subset-font objects and a `FontInfo`, and returns `fonts.size() - 1`. `doc.loaded_fonts` holds the ids returned.
- `add_rolemap_entry`: `SlashStart` for an empty name or one starting with '/', `RoleAlreadyDefined` for a name already mapped, else a new entry whose id is `rolemap.size() - 1` after the `emplace_back` (`RoleId`). Names are short character sequences; the builtin type a role maps to is left out. `doc.role_ids` holds the ids returned with their names. `add_structure_item` takes either no role (a builtin type) or one of those ids, and `create_structure_root_dict` writes the rolemap's names in order as the `/RoleMap`.
- `add_mask_image` (only 1-bit gray, else `UnsupportedFormat`) and `embed_jpg`: one image object and an `ImageInfo` each.
- `create_catalog`, which builds the name tree, the outlines, the parent tree, the structure root and the catalog in the code's order, then stops the model (`written`).

Where the code throws an uncaught `std::out_of_range` (`pages.at`, `children.at(-1)` in `create_outlines`), or an `assert` fires, the model sets `aborted`. `NDEBUG` decides whether `assert` aborts or is compiled out.

Three things are abstracted:
- Dictionary text, stream compression and titles are left out.
- The page's references (`/Parent`, `/Annots`, widgets, `/PresSteps`) are attached to the page object when it is added. They are resolved by the writer, which is not in `src/`.
- `form_use` and `annotation_use` are kept as key sets. Their values are never read by the code.

### `Shading.tla` — mesh shadings (types 4 and 6)

One step is one call of `add_shading`, with a shade chosen from `Shades`.
`serialize_shade4` and `serialize_shade6` are folds over the elements, and
`append_floatvalue` is applied to an error-or-bytes record, as `ERCV` does.
The abort on a non-device colour and on a continuation patch is the result
`"abort"`. The step adds one object, the dictionary (`ShadingDict`, with
`/Decode`, `/BitsPerCoordinate`, `/BitsPerComponent` and `/BitsPerFlag`) and
the stream.

Doubles are rationals. A coordinate ratio is `(x - minx) / (maxx - minx)`,
and a colour component is `k / LevelDen`. A zero denominator follows IEEE
rules (`FloatRatio`, `IsNaN`, `OutOfRange`). `x / 0` is an infinity and fails
the range check. `0 / 0` is NaN, which passes it. Converting NaN to an
unsigned integer is undefined behaviour. `nan_level`, chosen in `Init`, is
what the build makes of it: 0 or `max`. `uint32_t` and `uint16_t` are
`CoordBytes` and `CompBytes` bytes wide, scaled to 2 and 1 so that
`numeric_limits<T>::max()` fits TLC's integers. `std::byteswap` depends on
the host's byte order (`HostLittleEndian`).

The property reads the stream back the way a PDF reader does: fields of the
widths the dictionary declares, big-endian, decoded with `/Decode`
(`Layout`, `Fields` and `Near`). It is a reference definition, written
independently of the serializer.

`MC_*.tla` instantiate the modules. Each `Bound` in `MC_Document.tla`
enables only the registries a run is about.

## Runs

| Run | Expect | What it checks |
|---|---|---|
| `contextuse_nesting` | pass | One context, of any type and for either of two documents, with every nesting operator, guards, `clear()`, `serialize()` and the three consumers. Across guards, `clear()` and refused closes, the stream's open operators equal `dstate_stack` and every closer matches its opener (`StreamMatchesStack`). |
| `contextuse_pattern_unclosed` | violation | `StoredStreamsBalanced`: `add_pattern` stores a stream with an open `q` or `BT`, because it checks `marked_content_depth()` only. |
| `contextuse_group_owner` | violation | `StoredByOwner`: `add_transparency_group` stores a context of another document. |
| `fontsubset_mapping` | pass | Padding leaves ' ' at local id SPACE (`SpaceAtPaddingSlot`, an action property). `pad_subset_until_space` pads every reachable last subset exactly as the padding rule says (`UntilSpaceMeetsRule`). |
| `fontsubset_padding_abort` | violation | `NoPaddingAbort`: subset 0 holds 2..5 and subset 1 holds 6. Every padding codepoint is found in subset 0, so the last subset never grows and the process aborts. |
| `document_nav` | pass | Two pages, two OCGs, an annotation, a checkbox and navigation of up to two steps. Every reference names an existing object of the right kind (`RefsResolve`). Walking the navigation forward shows the first j groups at step j, and walking back visits the same nodes in reverse (`NavigationConsistent`). No annotation, widget or structure item is on two pages (`UniqueUse`). A call that fails adds no object and changes no registry (`ErrorAddsNothing`). |
| `document_trees` | pass | Up to three outlines, two structure items and an embedded file over two pages. The written outline tree's `/First`..`/Last` chains, `/Prev`, `/Next` and `/Parent` agree (`OutlineLinks`). The `/ParentTree` entry at each page's `/StructParents` lists its items in MCID order (`ParentTreeConsistent`). |
| `document_resources` | pass | An ICC profile loaded twice, an image (every error path, alpha, mask, embedded profile, all output colourspaces), a separation, a graphics state, a function, a shading using it and a Lab space, in any order, with assertions enabled. No profile is stored twice (`IccProfilesDeduplicated`). Every resource id returned names an object of its kind (`IdsResolve`). A builtin font asked for repeatedly, and a font load with every FreeType verdict, before or after it: every FontId resolves in its own table, and no builtin font is added twice (`FontIdsResolve`). Also `add_mask_image` and `embed_jpg`. With one structure item and role names that are empty, start with '/', or are valid and asked for twice: the written `/RoleMap` maps each name once, and every item's role id finds there the name it was returned for (`RolesResolve`). At most 7 objects and rolemap entries together are added beyond `init()`'s (`MC_CallBound`). |
| `document_image_partial` | violation | `ErrorAddsNothing`: `add_image` adds the alpha channel's soft-mask image before the output-colourspace checks, so a failing call leaves it in the document. |
| `document_name_limits` | violation | `NameTreeLimits`: `/Limits` use `{:05}` and the prefix `embojb`, while the keys use `embobj` and `{:06}`. |
| `document_outline_dest` | violation | `NoUncaughtThrow`: `add_outline` accepts a destination page that does not exist, and `create_catalog` then throws `std::out_of_range`. |
| `shading_roundtrip` | pass | Every type 4 or 6 shading that `add_shading` accepts decodes, with its own dictionary, to the given points and colours within one quantisation step (`ShadingRoundTrip`). Shades have 1 or 2 vertices, or one patch, over the three colour spaces, with points inside and outside the box, and an ICC colour. Boxes include a degenerate one (NaN and infinities) and an inverted one, and both NaN outcomes are checked. |

Every property of a passing run has a mutant in `PROJECT.json`. The mutant
is a plausible bug in the modelled code that makes the run fail, for example:
- `dedent` without its top-of-stack check;
- the navigation root's `/Prev` off by one;
- `/StructParents` set to the page index;
- the ICC stream and array numbers swapped;
- the graphics-state id taken after `add_object`;
- `add_function` returning a 0-based index;
- `std::byteswap` left out;
- a CMYK `/Decode` with three pairs;
- `get_builtin_font_id` without its cache lookup;
- a loaded font's id counted from `font_objects`;
- the role id taken as `rolemap.size()`, or `add_rolemap_entry` without its scan for the name;
- the output intent pointing at the profile's `/ICCBased` array;
- `pad_subset_until_space` without its search of the subset.

## Bounds

- **Draw context:** depth 3 and 5 operators, one stored object per document, two documents under symmetry. This allows q inside BT inside BMC, a rejected nested BMC, closing with the wrong operator, two guards, `clear()` with guards still alive, and a context handed over with state open.
- **Font subsets:** scaled to SPACE = 2, '!' = 3, Capacity = 4 and MaxCount = 3, over codepoints 2..6. That is enough to fill a subset, to open a second one, and to pad both a short and a full subset. `pad_subset_until_space` needs at most SPACE + 1 iterations. MaxCount = SPACE + 1 leaves it no slack, where the code has 67 iterations to spare, so an off-by-one in the loop shows.
- **Document:** two pages suffice for page-to-page reuse and for a page without structure items before one with them. Two OCGs give a two-step navigation. Three outlines give siblings and nesting. Two structure items give two roots or a chain. One profile loaded twice exercises deduplication, including against the output profile. The resource objects are one of each, in every order, which covers every place an id is computed relative to `add_object`. Two `font_objects` entries allow a builtin font before or after a loaded one. At most 7 objects and rolemap entries together may be added in a behaviour of the resources run. That is enough for the builtin and loaded font (5 objects), an image with a soft mask and an ICC profile (4), or any three resource objects, each with or without a structure item and a role. Without this bound the run does not finish in 30 minutes. The rolemap bound is 2 although only one role name is valid: a mutant without the duplicate scan can then map it twice. The resources and nav runs declare `VIEW MC_StateView`, which leaves out `result`: no action reads the last call's return value, so states that differ only in it have the same successors; `ErrorAddsNothing` reads `result'`, which a step determines from the state it starts in, so it is checked on every distinct step.
- **Shading:** 2-byte coordinates and 1-byte components show byte order and truncation as they are at 4 and 2 bytes. Levels over 3 make 2/3 truncate. Boxes 0..3 and 1..3, the degenerate 3..3 and the inverted 3..1, with points at 0, 1 and 3, put points inside, on the edge and outside, and give 0 / 0, x / 0 and negative denominators. A patch has two points and one colour instead of twelve and four; the layout code is the same.

Each run finishes in under three minutes.

## Not modelled

- A refinement of the draw context to an abstract nesting specification: such a specification says no more than `StreamMatchesStack` together with the guards of `indent` and `dedent`, so it is not kept.
- The builtin type each rolemap entry maps to, and the text of the `/Info` dictionary (title, author, dates).
- `color2numbers` and the text of every dictionary are formatting.
- A `FunctionId` from another document passed to `add_shading`: the model passes only ids of the same document.
- `glyph_advance` is a FreeType metric query, and FreeType's parsing of a font file is an input of `load_font`. The loaders of other files that `load_font` calls (`load_and_parse_truetype_font`, `FontSubsetter::construct`) are also left out. They can fail too, and like the FreeType errors they fail before anything is added.
- `add_structure_item` with a `CapyPDF_RoleId` does not check the role. This is listed as a hazard. The model passes only ids `add_rolemap_entry` returned; an invented id would show only that the check is missing, which a violation run would restate.
- `pdfcapi.cpp` (the legacy C API) forwards to `PdfGen`, whose code is not under `src/`. It keeps no state of its own: options and generator objects are created, used and deleted through casts. What can go wrong there is use after free by the caller, which the API cannot check.
- The colour, path and text operators of a draw context are not under `src/` and do not touch the nesting state.

------------------------------ MODULE Shading ------------------------------
(***************************************************************************)
(* Mesh shadings (pdfdocument.cpp): append_floatvalue, serialize_shade4,   *)
(* serialize_shade6 and the stream dictionary add_shading writes for       *)
(* shading types 4 and 6.  One call of add_shading is one step: the caller *)
(* picks the shade, the step computes the object (or the error, or the     *)
(* std::abort) and nothing happens after it.                               *)
(*                                                                         *)
(* Doubles are rationals: a coordinate ratio (x - minx) / (maxx - minx) is *)
(* kept as its numerator and denominator, a colour component as a level    *)
(* over LevelDen.  A zero denominator is the IEEE result: x / 0 is an      *)
(* infinity for x # 0 and NaN for 0 / 0.  The widths of uint32_t and uint16_t are CoordBytes and  *)
(* CompBytes (4 and 2 in the code), scaled down so that numeric_limits<T>  *)
(* ::max() fits TLC's integers; the byte layout does not depend on them.  *)
(***************************************************************************)
EXTENDS Integers, Sequences, SequencesExt

CONSTANTS
    CoordBytes,        \* sizeof(uint32_t)
    CompBytes,         \* sizeof(uint16_t)
    HostLittleEndian,  \* the byte order of the machine the library runs on
    LevelDen,          \* colour components are k / LevelDen, 0 <= k <= LevelDen
    PatchPoints,       \* control points of a FullCoonsPatch (12)
    PatchColors,       \* corner colours of a FullCoonsPatch (4)
    Shades             \* the shades the caller may pass to add_shading

VARIABLES
    nan_level, \* what this build makes of T(max * NaN): 0 or max (x 0 or 1)
    shade,     \* the argument of the call
    result,    \* what the call returned: "none" before it, "ok", an error or "abort"
    objects    \* the objects it added (add_object)

vars == <<nan_level, shade, result, objects>>

DeviceSpaces == {"RGB", "Gray", "CMYK"}

(* num_channels_for(): the components of a colour of each device space.   *)
num_channels_for(cs) == CASE cs = "RGB" -> 3 [] cs = "Gray" -> 1 [] cs = "CMYK" -> 4

(* numeric_limits<T>::max() of an n-byte unsigned T.                       *)
TMax(n) == 2^(8 * n) - 1

(* The bytes of an n-byte unsigned value as they lie in host memory.       *)
MemoryBytes(v, n) ==
    LET be == [i \in 1..n |-> (v \div 2^(8 * (n - i))) % 256]
    IN  IF HostLittleEndian THEN Reverse(be) ELSE be

Ok(bytes) == [err |-> "ok", bytes |-> bytes]

-----------------------------------------------------------------------------
(* The double num / den with its sign moved to the numerator.              *)
FloatRatio(num, den) ==
    [a |-> IF den < 0 THEN -num ELSE num, b |-> IF den < 0 THEN -den ELSE den]

IsNaN(v) == v.a = 0 /\ v.b = 0

(* v < 0 || v > 1.0: false for NaN, true for an infinity.                  *)
OutOfRange(v) == ~IsNaN(v) /\ (v.a < 0 \/ v.a > v.b)

(* T cval = numeric_limits<T>::max() * v: truncation towards zero, and for *)
(* NaN undefined behaviour, whatever the build produces.                   *)
Convert(n, v) == IF IsNaN(v) THEN nan_level * TMax(n) ELSE (TMax(n) * v.a) \div v.b

(* Mutant: the std::byteswap left out.                                    *)
append_floatvalueNoSwap(r, n, num, den) ==
    LET v == FloatRatio(num, den)
    IN  CASE r.err # "ok"  -> r
          [] OutOfRange(v) -> [r EXCEPT !.err = "ColorOutOfRange"]
          [] OTHER         -> [r EXCEPT !.bytes = @ \o MemoryBytes(Convert(n, v), n)]

(* append_floatvalue<T>(buf, v), v = num / den, applied to the result r of *)
(* the calls before it (ERCV returns the first error): ColorOutOfRange     *)
(* when v < 0 or v > 1; else max * v converted, byte-swapped, and appended *)
(* as it lies in memory.                                                   *)
append_floatvalue(r, n, num, den) ==
    LET v == FloatRatio(num, den)
    IN  CASE r.err # "ok"  -> r
          [] OutOfRange(v) -> [r EXCEPT !.err = "ColorOutOfRange"]
          [] OTHER -> [r EXCEPT !.bytes = @ \o Reverse(MemoryBytes(Convert(n, v), n))]

AppendByte(r, b) == IF r.err # "ok" THEN r ELSE [r EXCEPT !.bytes = Append(@, b)]

(* The x and y ratios of a point in the shade's bounding box.              *)
AppendPoint(r, p) ==
    append_floatvalue(append_floatvalue(r, CoordBytes, p.x - shade.minx,
                                        shade.maxx - shade.minx),
                      CoordBytes, p.y - shade.miny, shade.maxy - shade.miny)

AppendComponents(r, c) ==
    FoldLeft(LAMBDA acc, k : append_floatvalue(acc, CompBytes, k, LevelDen), r, c.v)

(* serialize_shade4(): per vertex the flag byte, the point, then the       *)
(* colour (ColorspaceMismatch unless it is of the shade's space, abort for *)
(* a colour that is not a device colour).                                 *)
serialize_shade4(s) ==
    LET Vertex(r, e) ==
            LET r1 == AppendPoint(AppendByte(r, e.flag), e.p)
            IN  CASE r1.err # "ok"              -> r1
                  [] e.c.space \notin DeviceSpaces -> [r1 EXCEPT !.err = "abort"]
                  [] e.c.space # s.colorspace    -> [r1 EXCEPT !.err = "ColorspaceMismatch"]
                  [] OTHER                       -> AppendComponents(r1, e.c)
    IN  FoldLeft(Vertex, Ok(<<>>), s.elements)

(* serialize_shade6(): a continuation patch aborts; a full patch is the    *)
(* flag 0, its control points, then its corner colours, each checked       *)
(* against the shade's space.                                              *)
serialize_shade6(s) ==
    LET Color(r, c) ==
            CASE r.err # "ok"          -> r
              [] c.space # s.colorspace -> [r EXCEPT !.err = "ColorspaceMismatch"]
              [] OTHER                 -> AppendComponents(r, c)
        Patch(r, e) ==
            CASE r.err # "ok"  -> r
              [] ~e.full       -> [r EXCEPT !.err = "abort"]
              [] OTHER ->
                   FoldLeft(Color, FoldLeft(AppendPoint, AppendByte(r, 0), e.p), e.c)
    IN  FoldLeft(Patch, Ok(<<>>), s.elements)

(* Mutant: the /Decode array lists one 0 1 pair less for CMYK.            *)
ShadingDictShortCmyk(s) ==
    [type |-> s.type, colorspace |-> s.colorspace,
     bits_per_coordinate |-> 32, bits_per_component |-> 16, bits_per_flag |-> 8,
     decode |-> <<<<s.minx, s.maxx>>, <<s.miny, s.maxy>>>>
                \o [i \in 1..(IF s.colorspace = "CMYK" THEN 3
                              ELSE num_channels_for(s.colorspace)) |-> <<0, 1>>]]

(* The stream dictionary of add_shading(ShadingType4/6): /BitsPerCoordinate *)
(* 32, /BitsPerComponent 16, /BitsPerFlag 8, and /Decode [minx maxx miny   *)
(* maxy] followed by one 0 1 pair per channel of the colour space.         *)
ShadingDict(s) ==
    [type |-> s.type, colorspace |-> s.colorspace,
     bits_per_coordinate |-> 32, bits_per_component |-> 16, bits_per_flag |-> 8,
     decode |-> <<<<s.minx, s.maxx>>, <<s.miny, s.maxy>>>>
                \o [i \in 1..num_channels_for(s.colorspace) |-> <<0, 1>>]]

(* add_shading(ShadingType4/6): ERC on the serializer, then the dictionary *)
(* and the stream become one object.                                       *)
add_shading ==
    /\ result = "none"
    /\ LET r == IF shade.type = 4 THEN serialize_shade4(shade) ELSE serialize_shade6(shade)
       IN  /\ result' = r.err
           /\ objects' = IF r.err = "ok"
                         THEN Append(objects, [dict |-> ShadingDict(shade), stream |-> r.bytes])
                         ELSE objects
    /\ UNCHANGED <<nan_level, shade>>

Init ==
    /\ nan_level \in {0, 1}
    /\ shade \in Shades /\ result = "none" /\ objects = <<>>

Next == add_shading

Spec == Init /\ [][Next]_vars

-----------------------------------------------------------------------------
(* A PDF reader's view of the object: fields of the dictionary's widths   *)
(* (32 and 16 bits are the model's CoordBytes and CompBytes), big-endian.  *)
Width(bits) == CASE bits = 32 -> CoordBytes [] bits = 16 -> CompBytes [] OTHER -> bits \div 8

BigEndian(s) == FoldLeft(LAMBDA a, b : 256 * a + b, 0, s)

(* The values of a stream read as fields of the given byte widths.         *)
RECURSIVE Fields(_, _)
Fields(s, widths) ==
    IF widths = <<>> THEN <<>>
    ELSE <<BigEndian(SubSeq(s, 1, Head(widths)))>>
         \o Fields(SubSeq(s, Head(widths) + 1, Len(s)), Tail(widths))

(* The record layout of one vertex (type 4) or one patch (type 6).         *)
Layout(d) ==
    LET nc == Len(d.decode) - 2
        pt == <<Width(d.bits_per_coordinate), Width(d.bits_per_coordinate)>>
        col == [i \in 1..nc |-> Width(d.bits_per_component)]
    IN  IF d.type = 4 THEN <<Width(d.bits_per_flag)>> \o pt \o col
        ELSE <<Width(d.bits_per_flag)>> \o FoldLeft(LAMBDA a, i : a \o pt, <<>>, [i \in 1..PatchPoints |-> i])
             \o FoldLeft(LAMBDA a, i : a \o col, <<>>, [i \in 1..PatchColors |-> i])

(* A value num / den decoded from the n-byte field v with the /Decode pair *)
(* [lo hi]: lo + v (hi - lo) / max is at most one step |hi - lo| / max     *)
(* away from it (exactly lo when hi = lo).                                 *)
Near(v, n, lo, hi, num, den) ==
    LET q == TMax(n)
        w == IF hi >= lo THEN (hi - lo) * den ELSE (lo - hi) * den
    IN  num * q - lo * den * q - v * (hi - lo) * den \in -w..w

(* Every mesh shading add_shading writes decodes, with the dictionary it   *)
(* writes, to the shade it was given: the stream is a whole number of      *)
(* vertices or patches of the dictionary's layout, flags are kept, every  *)
(* point is within one step of its place in the bounding box and every     *)
(* colour component within one step of its value.                         *)
ShadingRoundTrip ==
    \A o \in 1..Len(objects) :
        LET d == objects[o].dict
            stream == objects[o].stream
            L == Layout(d)
            size == FoldLeft(+, 0, L)
            recs == Len(shade.elements)
            F(i) == Fields(SubSeq(stream, (i - 1) * size + 1, i * size), L)
            nc == Len(d.decode) - 2
            PointOk(f, k, p) ==
                /\ Near(f[k], CoordBytes, d.decode[1][1], d.decode[1][2], p.x, 1)
                /\ Near(f[k + 1], CoordBytes, d.decode[2][1], d.decode[2][2], p.y, 1)
            ColorOk(f, k, c) ==
                /\ Len(c.v) = nc
                /\ \A j \in 1..nc :
                      Near(f[k + j - 1], CompBytes, d.decode[2 + j][1],
                           d.decode[2 + j][2], c.v[j], LevelDen)
        IN  /\ Len(stream) = recs * size
            /\ \A i \in 1..recs :
                  LET e == shade.elements[i]
                  IN  IF shade.type = 4
                      THEN /\ F(i)[1] = e.flag
                           /\ PointOk(F(i), 2, e.p)
                           /\ ColorOk(F(i), 4, e.c)
                      ELSE /\ F(i)[1] = 0
                           /\ \A k \in 1..PatchPoints : PointOk(F(i), 2 * k, e.p[k])
                           /\ \A k \in 1..PatchColors :
                                 ColorOk(F(i), 2 + 2 * PatchPoints + (k - 1) * nc, e.c[k])

=============================================================================

---------------------------- MODULE MC_Shading ----------------------------
(* Mesh shadings over 3 x 2, degenerate and inverted boxes: points inside and outside it, colours of *)
(* each device space and one ICC colour, levels over LevelDen = 3 so that   *)
(* 2/3 is truncated; uint32_t and uint16_t scaled to 2 and 1 bytes.         *)
EXTENDS Shading

MC_Points == [x : {0, 1, 3}, y : {0, 1, 3}]

MC_Colors ==
    { [space |-> "RGB",  v |-> <<0, 2, 3>>],
      [space |-> "Gray", v |-> <<2>>],
      [space |-> "CMYK", v |-> <<3, 0, 2, 1>>],
      [space |-> "ICC",  v |-> <<1>>] }

MC_Vertices == [flag : 0..2, p : MC_Points, c : MC_Colors]

MC_Patches == [full : BOOLEAN, p : [1..PatchPoints -> MC_Points],
               c : [1..PatchColors -> MC_Colors]]

(* Boxes 0..3 and 1..3, the degenerate 3..3 (0 / 0 for x = 3, an infinity *)
(* for the others) and the inverted 3..1.                                  *)
MC_Box == { [colorspace |-> cs, minx |-> x[1], maxx |-> x[2], miny |-> 0, maxy |-> 2] :
            cs \in DeviceSpaces, x \in {<<0, 3>>, <<1, 3>>, <<3, 3>>, <<3, 1>>} }

MC_Shades ==
    { [type |-> 4, colorspace |-> b.colorspace, minx |-> b.minx, maxx |-> b.maxx,
       miny |-> b.miny, maxy |-> b.maxy, elements |-> es] :
        b \in MC_Box, es \in [1..1 -> MC_Vertices] \cup [1..2 -> MC_Vertices] }
    \cup
    { [type |-> 6, colorspace |-> b.colorspace, minx |-> b.minx, maxx |-> b.maxx,
       miny |-> b.miny, maxy |-> b.maxy, elements |-> es] :
        b \in MC_Box, es \in [1..1 -> MC_Patches] }

=============================================================================

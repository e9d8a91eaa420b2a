----------------------------- MODULE MCServices -----------------------------
(* Region files, tables, command lines, images and requests for the check   *)
(* of Services.                                                             *)
EXTENDS Services

\* Tasks are alike; the modules with tasks choose none of them.
TaskSymmetry == Permutations(RegionTasks)

\* Regions of every type, angle, size and mark, names and styles that matter.
MCFirstRegions ==
    {RegionOf(t) : t \in {"LINE", "ANNLINE", "POLYLINE", "ANNPOLYLINE", "POLYGON",
                          "ANNPOLYGON", "ANNVECTOR", "ANNRULER", "POINT"}}
    \cup {[RegionOf("ANNCOMPASS") EXCEPT !.size = "round"]}
    \cup {[RegionOf(t) EXCEPT !.rotation = a, !.size = s] :
             t \in CrtfBoxes \cup Ellipses, a \in {0, 90, 270}, s \in Sizes}
    \cup {[RegionOf("ANNPOINT") EXCEPT !.shape = s] : s \in DOMAIN Ds9Shapes}
    \cup {[RegionOf(t) EXCEPT !.name = n, !.color = c] :
             t \in {"RECTANGLE", "ANNTEXT"}, n \in {Blank, "name", "global"},
             c \in {"hex", "plain", "hexlike"}}
    \cup {[RegionOf(t) EXCEPT !.dash = d] : t \in {"RECTANGLE", "ANNTEXT"}, d \in {1, 5}}
MCNextRegions ==
    {<<RegionOf("ANNTEXT")>>,
     <<[RegionOf("ANNRULER") EXCEPT !.name = "name"], RegionOf("ELLIPSE")>>}
MCUnconvertible == {RegionOf("LINE")}

MCArgumentLists ==
    UNION {[1..n -> {"file", "image folder", "folder", "special", "missing"}] : n \in 0..2}
MCPortLists == {<<>>, <<2>>, <<1, 3>>, <<2, -1>>, <<1, 5>>, <<3, 1>>}

\* Two tables, a file that cannot be parsed and one that does not exist.
LongTable ==
    [exists |-> TRUE, valid |-> TRUE, strings |-> <<{}, {1}, {1, 2}>>,
     fields |-> <<[name |-> "n", type |-> "int"], [name |-> "x", type |-> "float"],
                  [name |-> "s", type |-> "string"], [name |-> "u", type |-> "unsupported"]>>,
     rows |-> << <<2, 3, 3, 0>>, <<4, NaN, 2, 0>>, <<2, 1, 1>>, <<6, 3, 1>> >>]
ShortTable == [LongTable EXCEPT !.rows = << <<2, 1, 1>>, <<6, 5, 2>> >>]
MCTableFiles == {LongTable, ShortTable, [LongTable EXCEPT !.valid = FALSE],
                 [LongTable EXCEPT !.exists = FALSE]}
NumericFilterOf(c, op, v, w) == [column |-> c, op |-> op, value |-> v, second |-> w]
MCFilters ==
    {<<>>, <<NumericFilterOf("n", "Lesser", 5, 0)>>,
     <<NumericFilterOf("x", "RangeOpen", 1, 5), NumericFilterOf("n", "NotEqual", 2, 0)>>,
     <<NumericFilterOf("s", "Equal", 1, 0)>>,
     <<NumericFilterOf("u", "Equal", 1, 0), NumericFilterOf("x", "NotEqual", 3, 0),
       NumericFilterOf("n", "LessorOrEqual", 5, 0)>>,
     <<NumericFilterOf("n", "RangeClosed", 3, 4), NumericFilterOf("x", "Greater", 1, 0)>>,
     <<NumericFilterOf("x", "GreaterOrEqual", 9, 0)>>}

\* Rows of nine and ten pixels, with blocks that have no value, of which ranges
\* end at the last pixel, before it, and in the last block of every size.
MCProfileRows == << <<3, 1, 2, 2, 5, NaNPixel, 4, 4, 6>>,
                    <<1, 2, 3, 4, NaNPixel, NaNPixel, NaNPixel, NaNPixel, 9, 7>> >>
ImageOfRow(row, chunked, mips, header) ==
    [length |-> Len(MCProfileRows[row]), row |-> row, chunked |-> chunked, mips |-> mips,
     stokes |-> header, num_stokes |-> 2]
MCProfileImages ==
    {ImageOfRow(1, c, {}, h) : c \in BOOLEAN, h \in {[I |-> 0, Q |-> 1], [Q |-> 0, U |-> 1]}}
    \cup {ImageOfRow(2, c, m, h) :
             c \in BOOLEAN, m \in {{}, {2}, {2, 4}}, h \in {[Q |-> 0, U |-> 1], [x \in {} |-> 0]}}
MCProfileConfigs ==
    {<<>>} \cup
    {<<[stokes |-> s, start |-> r[1], end |-> r[2], mip |-> m]>> :
        s \in {"", "Q", "Plinear"}, m \in {0, 2, 4},
        r \in {<<0, 0>>, <<1, 2>>, <<3, 7>>, <<4, 8>>, <<7, 9>>, <<9, 10>>}}
    \cup {<<[stokes |-> "", start |-> 0, end |-> 0, mip |-> 2],
            [stokes |-> s, start |-> 0, end |-> 8, mip |-> 4]>> : s \in {"I", "Q", "V"}}

\* Images of every order of axes, and requests of every way to refuse them, of
\* ranges within, across and outside the axes.
SavedImageOf(axes, nz, ns) ==
    [axes |-> axes, channels |-> nz, stokes |-> ns, expression |-> FALSE, spectral |-> TRUE]
MCSavedImages ==
    {SavedImageOf("plane", 1, 1), SavedImageOf("channels", 3, 1), SavedImageOf("stokes", 1, 3),
     SavedImageOf("channels stokes", 2, 3), SavedImageOf("stokes channels", 2, 3)}
    \cup {[SavedImageOf("channels", 3, 1) EXCEPT !.expression = TRUE],
          [SavedImageOf("plane", 1, 1) EXCEPT !.spectral = FALSE]}
WholeImageSave == [path |-> "new", type |-> "CASA", overwrite |-> FALSE, region |-> "none",
                   rest_freq |-> NotNumber, channels |-> <<>>, stokes |-> <<>>]
MCSaveRequests ==
    {[WholeImageSave EXCEPT !.path = p, !.overwrite = o, !.type = t] :
        p \in Paths \cup {"alias"}, o \in BOOLEAN, t \in {"CASA", "FITS"}}
    \cup {[WholeImageSave EXCEPT !.path = p, !.overwrite = TRUE, !.type = "HDF5"] : p \in {"image", "new"}}
    \cup {[WholeImageSave EXCEPT !.region = r, !.rest_freq = f] :
             r \in {"none", "inside", "outside", "unknown"}, f \in {NotNumber, 1}}
    \cup {[WholeImageSave EXCEPT !.channels = c, !.stokes = s, !.region = r] :
             c \in {<<>>, <<1, 1>>, <<-1, 5>>, <<4, 5>>, <<2, 0>>}, r \in {"none", "inside"},
             s \in {<<>>, <<0, 2, 2>>, <<1, 9, 5>>, <<5, 6, 1>>}}
    \cup {[WholeImageSave EXCEPT !.stokes = s] : s \in {<<-1, 2, 2>>, <<0, 2, 0>>}}

\* Up to four files of a kind or with one that differs.
PlainFile == [opens |-> TRUE, kind |-> "FITS", shape |-> 1, axis |-> FALSE, planes |-> 1]
StokesFile == [PlainFile EXCEPT !.axis = TRUE]
\* The files of a request: those before the last and the last.
MCFilePairs ==
    {<<PlainFile, PlainFile>>, <<StokesFile, StokesFile>>, <<StokesFile, PlainFile>>,
     <<StokesFile, [StokesFile EXCEPT !.opens = FALSE]>>, <<StokesFile, [StokesFile EXCEPT !.kind = "CASA"]>>,
     <<StokesFile, [StokesFile EXCEPT !.shape = 2]>>, <<StokesFile, [StokesFile EXCEPT !.planes = 2]>>}
MCTypes == {0, 1, 2, 4, 5, 6, 13}
FileAs(type, file) == [type |-> type, file |-> file]
MCConcatRequests ==
    {<<FileAs(a, f[2])>> : a \in MCTypes, f \in MCFilePairs}
    \cup {<<FileAs(a, f[1]), FileAs(b, f[2])>> : a, b \in MCTypes, f \in MCFilePairs}
    \cup {<<FileAs(t[1], f[1]), FileAs(t[2], f[1]), FileAs(t[3], f[2])>> :
            t \in (MCTypes \X MCTypes \X MCTypes) \cup {<<1, 2, 3>>, <<3, 2, 1>>, <<2, 3, 1>>},
            f \in MCFilePairs}
    \cup {<<FileAs(t[1], f[1]), FileAs(t[2], f[1]), FileAs(t[3], f[1]), FileAs(t[4], f[2])>> :
            t \in {<<1, 2, 3, 4>>, <<4, 3, 2, 1>>, <<5, 6, 7, 8>>, <<3, 1, 2, 4>>, <<4, 3, 1, 2>>},
            f \in MCFilePairs}
=============================================================================

---------------------------- MODULE RegionFiles ----------------------------
(***************************************************************************)
(* Export of regions to a DS9 or CRTF file, and their import: what a       *)
(* RegionHandler writes of a region, line by line, and what its parsers    *)
(* make of the lines.  A coordinate is one number, right in the file's     *)
(* frame or off by one; conversions between pixel and world coordinates    *)
(* lose nothing.                                                           *)
(***************************************************************************)
EXTENDS Integers, SequencesExt

CONSTANTS FirstRegions,  \* the regions a file may start with
          NextRegions,   \* and those that may follow
          Unconvertible  \* regions with no record in the image exported to

VARIABLES export,        \* the request: [format, pixel, same, regions]; same:
                         \* the image is the one the regions are set in
          region_lines,  \* _export_regions
          edited,        \* has a user added a line: 0, or the line it follows
          import_line,   \* lines read by ProcessFileLines
          importer,      \* the parser's flags and the region it holds back
          imported       \* _import_regions

regionFileVars == <<export, region_lines, edited, import_line, importer, imported>>

CrtfBoxes == {"RECTANGLE", "ANNRECTANGLE", "ANNTEXT"}
Ellipses == {"ELLIPSE", "ANNELLIPSE"}
Annotations == {"ANNPOINT", "ANNRECTANGLE", "ANNELLIPSE", "ANNLINE", "ANNPOLYLINE", "ANNPOLYGON"}
Sizes == {"round", "long"}

NoAngle == -1
DashLength == 2
Blank == ""

\* A region: its RegionState and the parts of its RegionStyle with a meaning in
\* both formats.  at is the 0-based pixel of its points.
RegionOf(type) == [type |-> type, at |-> 5, in |-> "pixel", size |-> "long", rotation |-> 0,
                   name |-> Blank, shape |-> Blank, color |-> "hex", dash |-> 0]
NoRegion == RegionOf(Blank)
RegionDefined(r) == r.type # Blank

-----------------------------------------------------------------------------
\* The names of the formats.

Ds9Names == [POINT |-> "point", ANNPOINT |-> "point", RECTANGLE |-> "box", ANNRECTANGLE |-> "box",
             ANNTEXT |-> "text", ELLIPSE |-> "ellipse", ANNELLIPSE |-> "ellipse",
             ANNCOMPASS |-> "compass", LINE |-> "line", ANNLINE |-> "line",
             POLYLINE |-> "polyline", ANNPOLYLINE |-> "polyline", POLYGON |-> "polygon",
             ANNPOLYGON |-> "polygon", ANNVECTOR |-> "vector", ANNRULER |-> "ruler"]

CrtfNames == [Ds9Names EXCEPT !["POINT"] = "symbol", !["ANNPOINT"] = "symbol",
                              !["RECTANGLE"] = "centerbox", !["ANNRECTANGLE"] = "centerbox",
                              !["POLYGON"] = "poly", !["ANNPOLYGON"] = "poly"]

Ds9Shapes == [SQUARE |-> <<"box", 1>>, BOX |-> <<"box", 0>>,
              CIRCLE |-> <<"circle", 1>>, CIRCLE_LINED |-> <<"circle", 0>>,
              DIAMOND |-> <<"diamond", 1>>, DIAMOND_LINED |-> <<"diamond", 0>>,
              CROSS |-> <<"cross", 0>>, X |-> <<"x", 0>>]

\* Angles are in [0, 360); a compass is round, and only marks have a shape.
RegionTypes == DOMAIN Ds9Names
ToExport(r) ==
    /\ r = [type |-> r.type, at |-> r.at, in |-> "pixel", size |-> r.size, rotation |-> r.rotation,
            name |-> r.name, shape |-> r.shape, color |-> r.color, dash |-> r.dash]
    /\ r.type \in RegionTypes /\ r.at \in Int /\ r.size \in Sizes /\ r.dash \in Nat
    /\ IF r.type \in CrtfBoxes \cup Ellipses THEN r.rotation \in 0..359 ELSE r.rotation = 0
    /\ r.type = "ANNCOMPASS" => r.size = "round"
    /\ IF r.type = "ANNPOINT" THEN r.shape \in DOMAIN Ds9Shapes ELSE r.shape = Blank
ASSUME RegionsToExport ==
    /\ \A r \in FirstRegions : ToExport(r)
    /\ \A rest \in NextRegions : rest \in Seq({rest[i] : i \in DOMAIN rest})
                               /\ \A i \in DOMAIN rest : ToExport(rest[i])

GetAnnSymbolCharacter == [SQUARE |-> "s", BOX |-> "s", CIRCLE |-> "o", CIRCLE_LINED |-> "o",
                          DIAMOND |-> "D", DIAMOND_LINED |-> "D", CROSS |-> "+", X |-> "x"]
Lined == {"BOX", "CIRCLE_LINED", "DIAMOND_LINED"}
\* A thickness other than 0 is the default of the format.
CrtfSymbol(shape) == <<GetAnnSymbolCharacter[shape], IF shape \in Lined THEN 0 ELSE 1>>

\* Import: the shape whose mark it is; the fill of a cross or an x is not read.
ShapeOf(marks, mark) ==
    IF mark[1] \in {"cross", "x", "+"}
    THEN CHOOSE s \in {"CROSS", "X"} : marks[s][1] = mark[1]
    ELSE CHOOSE s \in DOMAIN marks : marks[s] = mark
CrtfSymbols == [s \in DOMAIN GetAnnSymbolCharacter |-> CrtfSymbol(s)]

-----------------------------------------------------------------------------
\* Export: the lines of a region.

Line(name, r) ==
    [name |-> name, ann |-> r.type \in Annotations, at |-> r.at, unit |-> "none",
     angle |-> NoAngle, size |-> r.size, label |-> r.name, shape |-> <<>>,
     color |-> r.color, dash |-> r.dash, csys |-> Blank]

Other(name) == Line(name, NoRegion)

\* The mutant: the angle of an ellipse is written as it is.
PlainAngle(rotation) == rotation
\* From the x axis, in (0, 360].
FromXAxis(rotation) == IF rotation + 90 > 360 THEN rotation - 270 ELSE rotation + 90

\* An ellipse of a RegionState is turned from the y axis, one of a record from
\* the x axis.
Ds9Angle(r) == IF r.type \in Ellipses THEN FromXAxis(r.rotation) ELSE r.rotation
ConvertRecordToEllipse(r) == FromXAxis(r.rotation) % 360
RecordAngle(r) == IF r.type \in Ellipses THEN ConvertRecordToEllipse(r) ELSE r.rotation
FromYAxis(angle) == IF angle < 90 THEN angle + 270 ELSE angle - 90

\* Circles and compasses have no angle; nor have points and polygons.
Ds9Line(r, at, unit, angle) ==
    LET round == r.size = "round" /\ r.type \in Ellipses
        line == [Line(IF round THEN "circle" ELSE Ds9Names[r.type], r) EXCEPT
                   !.at = at, !.unit = unit,
                   !.angle = IF (r.type \in CrtfBoxes \cup Ellipses) /\ ~round THEN angle ELSE NoAngle,
                   !.shape = IF r.type = "ANNPOINT" THEN Ds9Shapes[r.shape] ELSE <<>>]
    IN IF r.type = "ANNTEXT"
       THEN <<[line EXCEPT !.name = "textbox"],
              [line EXCEPT !.label = Blank, !.size = "none", !.angle = IF angle > 0 THEN angle ELSE NoAngle]>>
       ELSE <<line>>

\* The csys of rulers and compasses is that of the image, in a pixel file too.
WithCsys(lines, csys) ==
    [i \in DOMAIN lines |-> IF lines[i].name \in {"ruler", "compass"}
                            THEN [lines[i] EXCEPT !.csys = csys] ELSE lines[i]]

\* 1-based pixels from a RegionState; the pixels of a record are written 0-based.
Ds9StateLines(r) == WithCsys(Ds9Line(r, r.at + 1, "none", Ds9Angle(r)), "fk5")
AddExportRegionPixel(r) == WithCsys(Ds9Line(r, r.at, "none", RecordAngle(r)), "fk5")
AddExportRegionWorld(r) == WithCsys(Ds9Line(r, r.at, "deg", RecordAngle(r)), "fk5")

\* Boxes with an angle are rotboxes; the style tells dotted from dashed only.
CrtfLines(r, unit, angle) ==
    LET round == r.size = "round" /\ r.type \in Ellipses
        turned == r.type \in CrtfBoxes /\ angle # 0
        line == [Line(IF round THEN "circle"
                      ELSE IF turned THEN "rotbox" ELSE CrtfNames[r.type], r) EXCEPT
                   !.unit = unit,
                   !.angle = IF turned \/ (r.type \in Ellipses /\ ~round) THEN angle ELSE NoAngle,
                   !.dash = IF @ > 1 THEN DashLength ELSE @,
                   !.shape = IF r.type = "ANNPOINT" THEN CrtfSymbol(r.shape) ELSE <<>>]
    IN IF r.type = "ANNTEXT"
       THEN <<[line EXCEPT !.name = "textbox"],
              [line EXCEPT !.name = "text", !.angle = NoAngle, !.size = "none"]>>
       ELSE <<line>>

CrtfStateLines(r) == CrtfLines(r, "pix", r.rotation)
CrtfRecordLines(r) ==
    CrtfLines(r, IF export.pixel THEN "pix" ELSE "deg",
              IF r.type \in Ellipses THEN FromYAxis(RecordAngle(r)) ELSE r.rotation)

\* Pixels of the image the region is set in come from its state.
FromState == export.pixel /\ export.same
AddExportRegion(r) ==
    CASE FromState /\ export.format = "CRTF" -> CrtfStateLines(r)
      [] FromState /\ export.format = "DS9_REG" -> Ds9StateLines(r)
      [] ~FromState /\ export.format = "CRTF" -> CrtfRecordLines(r)
      [] OTHER -> IF export.pixel THEN AddExportRegionPixel(r) ELSE AddExportRegionWorld(r)

Header == IF export.format = "CRTF" THEN <<Other("comment")>>
          ELSE <<Other("comment"), Other("global"),
                 [Other("frame") EXCEPT !.csys = IF export.pixel THEN "image" ELSE "fk5"]>>

-----------------------------------------------------------------------------
\* Import of a line in DS9 format.

\* ParamToQuantity: pixels are 1-based, everything else is in degrees.
Ds9Point(line, pixel) ==
    [at |-> IF pixel THEN line.at - 1 ELSE line.at, in |-> IF pixel THEN "pixel" ELSE "world"]

Type(ann, annotation, region) == IF ann THEN annotation ELSE region
State(type, line, rotation) == [type |-> type, rotation |-> rotation, size |-> line.size]
Angle(line) == IF line.angle = NoAngle THEN 0 ELSE line.angle

\* A text without a box has no size; its angle is a property.
ImportPointRegion(line) ==
    State(IF line.name = "text" THEN "ANNTEXT" ELSE Type(line.ann, "ANNPOINT", "POINT"), line, Angle(line))
\* Only an ellipse that is not round is turned back to the y axis.
ImportEllipseRegion(line) ==
    State(IF line.name = "compass" THEN "ANNCOMPASS" ELSE Type(line.ann, "ANNELLIPSE", "ELLIPSE"), line,
          IF line.size = "long" THEN FromYAxis(Angle(line)) ELSE Angle(line))
ImportCircleRegion(line) == ImportEllipseRegion([line EXCEPT !.size = "round", !.angle = NoAngle])
ImportRectangleRegion(line) ==
    State(IF line.name = "textbox" THEN "ANNTEXT" ELSE Type(line.ann, "ANNRECTANGLE", "RECTANGLE"),
          line, Angle(line))
ImportPolygonLineRegion(line) ==
    State(CASE line.name = "line" -> Type(line.ann, "ANNLINE", "LINE")
            [] line.name = "polyline" -> Type(line.ann, "ANNPOLYLINE", "POLYLINE")
            [] line.name = "polygon" -> Type(line.ann, "ANNPOLYGON", "POLYGON")
            [] line.name = "ruler" -> "ANNRULER", line, 0)
ImportVectorRegion(line) == State("ANNVECTOR", line, 0)

Ds9State(line) ==
    CASE line.name \in {"point", "text"} -> ImportPointRegion(line)
      [] line.name = "ellipse" -> ImportEllipseRegion(line)
      [] line.name \in {"circle", "compass"} -> ImportCircleRegion(line)
      [] line.name \in {"box", "textbox"} -> ImportRectangleRegion(line)
      [] line.name \in {"line", "polyline", "polygon", "ruler"} -> ImportPolygonLineRegion(line)
      [] line.name = "vector" -> ImportVectorRegion(line)
      [] OTHER -> State(Blank, line, 0)

\* SetRegion with the pixel flag a ruler or compass imposes.
SetRegion(line) ==
    LET state == Ds9State(line)
        pixel == IF line.csys = Blank THEN importer.pixel ELSE importer.frame = Blank
        point == Ds9Point(line, pixel)
    IN IF state.type = Blank THEN NoRegion
       ELSE [type |-> state.type, at |-> point.at, in |-> point.in, size |-> state.size,
             rotation |-> state.rotation, name |-> IF state.type = "ANNTEXT" THEN Blank ELSE line.label,
             shape |-> IF line.shape = <<>> THEN Blank ELSE ShapeOf(Ds9Shapes, line.shape),
             color |-> line.color,
             dash |-> IF line.dash = 0 THEN importer.global_dash ELSE line.dash]

\* A text's style goes to the text box before it, whatever the line is.
AddTextStyle(textbox, text) == [textbox EXCEPT !.color = text.color]

\* A line with the word global in it, the label of a region too, sets globals.
SetGlobals(line) == importer' = [importer EXCEPT !.global_dash = line.dash]

\* Back in an image frame the pixel flag is not set again.
SetFileReferenceFrame(line) ==
    importer' = [importer EXCEPT !.frame = IF line.csys = "image" THEN Blank ELSE "J2000",
                                 !.pixel = @ /\ line.csys = "image"]

\* The mutant: the flag is left as the coordinate system of the line has it.
AfterCsysLine(line) == importer.pixel /\ line.csys = Blank
\* The flag set for a ruler or a compass stays: pixels if the file's frame is the image.
AfterCsys(line) == IF line.csys = Blank THEN importer.pixel ELSE importer.frame = Blank

ProcessDs9Line(line) ==
    \/ line.name = "comment" /\ UNCHANGED <<importer, imported>>
    \/ /\ line.name = "global" \/ line.label = "global"
       /\ SetGlobals(line) /\ UNCHANGED imported
    \/ line.name = "frame" /\ SetFileReferenceFrame(line) /\ UNCHANGED imported
    \/ /\ line.name \notin {"comment", "global", "frame"} /\ line.label # "global"
       /\ LET region == SetRegion(line)
              now == IF importer.combo THEN AddTextStyle(importer.pending, region) ELSE region
              combo == line.name = "textbox"
          IN /\ importer' = [importer EXCEPT !.combo = combo, !.pending = now,
                                             !.pixel = AfterCsys(line)]
             /\ imported' = IF ~combo /\ RegionDefined(now) THEN Append(imported, now) ELSE imported

-----------------------------------------------------------------------------
\* Import of a line in CRTF format.

ImportAnnSymbolText(line) ==
    State(IF line.name = "text" THEN "ANNTEXT" ELSE Type(line.ann, "ANNPOINT", "POINT"), line, 0)
ImportAnnBox(line) ==
    State(IF line.name = "textbox" THEN "ANNTEXT" ELSE Type(line.ann, "ANNRECTANGLE", "RECTANGLE"),
          line, Angle(line))
ImportAnnEllipse(line) ==
    State(IF line.name = "compass" THEN "ANNCOMPASS" ELSE Type(line.ann, "ANNELLIPSE", "ELLIPSE"),
          line, IF line.name = "ellipse" THEN line.angle ELSE 0)
ImportAnnPoly(line) ==
    State(CASE line.name = "poly" -> Type(line.ann, "ANNPOLYGON", "POLYGON")
            [] line.name = "polyline" -> Type(line.ann, "ANNPOLYLINE", "POLYLINE")
            [] line.name = "line" -> Type(line.ann, "ANNLINE", "LINE")
            [] line.name = "vector" -> "ANNVECTOR"
            [] line.name = "ruler" -> "ANNRULER", line, 0)

\* The text of a text box has no state of its own.
CrtfState(line) ==
    CASE line.name = "symbol" \/ (line.name = "text" /\ ~importer.combo) -> ImportAnnSymbolText(line)
      [] line.name \in {"centerbox", "rotbox", "textbox"} -> ImportAnnBox(line)
      [] line.name \in {"ellipse", "circle", "compass"} -> ImportAnnEllipse(line)
      [] line.name \in {"line", "vector", "ruler", "poly", "polyline"} -> ImportAnnPoly(line)
      [] OTHER -> State(Blank, line, 0)

\* ConvertPointToPixels: the unit of a number says what it is.
ConvertPointToPixels(line) == IF line.unit = "pix" THEN "pixel" ELSE "world"

\* A color name that starts with a hex digit gets the prefix of a hex color.
CrtfColor(color) == IF color = "hexlike" THEN "#hexlike" ELSE color

CrtfRegion(line) ==
    LET state == CrtfState(line)
    IN [type |-> state.type, at |-> line.at, in |-> ConvertPointToPixels(line),
        size |-> state.size, rotation |-> state.rotation, name |-> line.label,
        shape |-> IF line.shape = <<>> THEN Blank ELSE ShapeOf(CrtfSymbols, line.shape),
        color |-> CrtfColor(line.color), dash |-> line.dash]

\* The mutant: every box is held back for a text.
BoxesWait(line) == importer.combo \/ line.name \in {"centerbox", "rotbox", "textbox"}

\* Only a box or a text ends the wait for the text of a text box.
CrtfCombo(line) ==
    IF line.name \in {"centerbox", "rotbox", "textbox"} THEN line.name = "textbox"
    ELSE importer.combo
ProcessCrtfLine(line) ==
    \/ line.name = "comment" /\ UNCHANGED <<importer, imported>>
    \/ /\ line.name # "comment"
       /\ LET region == CrtfRegion(line)
              combo == CrtfCombo(line)
              text == combo /\ line.name = "text"
              now == IF ~RegionDefined(region) /\ ~combo THEN importer.pending
                     ELSE IF ~text THEN region
                     ELSE IF RegionDefined(importer.pending) THEN AddTextStyle(importer.pending, region)
                     ELSE importer.pending
          IN /\ importer' = [importer EXCEPT !.pending = now, !.combo = combo /\ ~text]
             /\ imported' = IF (RegionDefined(region) \/ combo) /\ (text \/ ~combo) /\ RegionDefined(now)
                            THEN Append(imported, now) ELSE imported

-----------------------------------------------------------------------------

RegionFilesInit ==
    /\ \E first \in FirstRegions, rest \in NextRegions, same, pixel \in BOOLEAN,
          format \in {"DS9_REG", "CRTF"} :
          export = [format |-> format, pixel |-> pixel, same |-> same, regions |-> <<first>> \o rest]
    /\ region_lines = <<>> /\ edited = 0
    /\ import_line = 0 /\ imported = <<>>
    /\ importer = [pixel |-> TRUE, frame |-> "image", global_dash |-> 0, combo |-> FALSE,
                   pending |-> NoRegion]

Convertible(r) == FromState \/ r \notin Unconvertible

\* ExportRegion, up to the file: a region that cannot be converted is named in
\* the message and left out.
ExportRegion ==
    /\ region_lines = <<>>
    /\ region_lines' = Header \o FlattenSeq([i \in DOMAIN export.regions |->
                             IF Convertible(export.regions[i]) THEN AddExportRegion(export.regions[i])
                             ELSE <<>>])
    /\ UNCHANGED <<export, edited, import_line, importer, imported>>

\* The file is edited before it is imported: a comment or a region of a kind
\* that is not supported is added after the header.
EditFile ==
    /\ region_lines # <<>> /\ import_line = 0 /\ edited = 0
    /\ \E i \in Len(Header)..Len(region_lines), name \in {"comment", "unsupported"} :
          /\ edited' = i
          /\ region_lines' = SubSeq(region_lines, 1, i) \o <<Other(name)>>
                             \o SubSeq(region_lines, i + 1, Len(region_lines))
    /\ UNCHANGED <<export, import_line, importer, imported>>

ProcessFileLines ==
    /\ import_line < Len(region_lines)
    /\ import_line' = import_line + 1
    /\ LET line == region_lines[import_line + 1]
       IN IF export.format = "CRTF" THEN ProcessCrtfLine(line) ELSE ProcessDs9Line(line)
    /\ UNCHANGED <<export, region_lines, edited>>

RegionFilesNext == ExportRegion \/ EditFile \/ ProcessFileLines

RegionFilesSpec == RegionFilesInit /\ [][RegionFilesNext]_regionFileVars

-----------------------------------------------------------------------------

\* The fields of the importer and of what it made.
RegionFilesTypeOK ==
    /\ import_line \in 0..Len(region_lines) /\ edited \in 0..Len(region_lines)
    /\ importer.frame \in {"image", Blank, "J2000"} /\ importer.pixel \in BOOLEAN
    /\ \A i \in DOMAIN imported : imported[i].in \in {"pixel", "world"} /\ RegionDefined(imported[i])

\* What the formats keep of a region: a circle has no angle; DS9 does not keep
\* the name of a text, and its pixels are off by one when the region is not of
\* the image it is exported to; CRTF has one dash length, and adds a # to names
\* of colors that start like a hex number.
Kept(r) ==
    LET crtf == export.format = "CRTF"
    IN [r EXCEPT
          !.in = IF export.pixel THEN "pixel" ELSE "world",
          !.at = IF ~crtf /\ export.pixel /\ ~export.same THEN @ - 1 ELSE @,
          !.rotation = IF r.type \in Ellipses /\ r.size = "round" THEN 0 ELSE @,
          !.name = IF ~crtf /\ r.type = "ANNTEXT" THEN Blank ELSE @,
          !.dash = IF crtf /\ @ > 1 THEN DashLength ELSE @,
          !.color = IF crtf THEN CrtfColor(@) ELSE @]

Exported == FlattenSeq([i \in DOMAIN export.regions |->
                          IF Convertible(export.regions[i]) THEN <<Kept(export.regions[i])>> ELSE <<>>])

\* DS9 files whose regions have no name with the word global in it, and files
\* that were not edited between the lines of one text.
ReadAsWritten ==
    /\ export.format = "CRTF" \/ \A i \in DOMAIN export.regions : export.regions[i].name # "global"
    /\ edited # 0 => region_lines[edited].name # "textbox" \/ region_lines[edited + 1].name = "comment"

\* Whatever was read so far of an exported file gave the regions that were
\* exported, in their order, as the format keeps them: positions, angles, frames
\* and marks survive, and no region takes the style or the flags of another.
ImportedAsExported == ReadAsWritten => IsPrefix(imported, Exported)

\* A file read to its end gave all its regions, with a line nobody
\* understands in it or without.
NothingLost ==
    ReadAsWritten /\ region_lines # <<>> /\ import_line = Len(region_lines)
        => Len(imported) = Len(Exported)

\* What is imported is what was exported, and nothing is lost.
RegionFilesCorrect == ImportedAsExported /\ NothingLost
=============================================================================

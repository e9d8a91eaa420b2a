----------------------------- MODULE SaveFiles -----------------------------
(***************************************************************************)
(* Saving an image: Session::OnSaveFile and Frame::SaveFile write a range  *)
(* of channels and polarizations of the open image, of a region or of all  *)
(* its pixels, to a CASA or FITS file.  Degenerate axes, which may be      *)
(* kept or not, are left out.                                              *)
(*                                                                         *)
(* A file is written, or fails to be, as the library decides.              *)
(***************************************************************************)
EXTENDS Integers, FiniteSets, Sequences

CONSTANTS SavedImages,   \* [axes, channels, stokes, expression, spectral]
          SaveRequests,  \* [path, type, overwrite, region, rest_freq, channels, stokes]
          ReadOnlyModes, \* _read_only_mode: BOOLEAN or a part of it
          MaxSaves

\* "alias" is another spelling of the path of the open image.
Paths == {"source", "image", "file", "directory", "special", "new"}
ASSUME SavedImagesAssumption ==
    SavedImages \subseteq [axes : {"plane", "channels", "stokes", "channels stokes", "stokes channels"},
                           channels : Nat \ {0}, stokes : Nat \ {0},
                           expression : BOOLEAN, spectral : BOOLEAN]
\* A range has a start and an end, one of polarizations a stride.
ASSUME SaveRequestsAssumption ==
    /\ SaveRequests \subseteq
          [path : Paths \cup {"alias"}, type : {"CASA", "FITS", "HDF5"}, overwrite : BOOLEAN,
           region : {"none", "inside", "outside", "unknown"}, rest_freq : Nat,
           channels : {<<>>} \cup Int \X Int, stokes : {<<>>} \cup Int \X Int \X Int]
    /\ ReadOnlyModes \subseteq BOOLEAN /\ MaxSaves \in Nat

VARIABLES save_image,    \* the image of the Frame
          read_only,     \* _read_only_mode
          files,         \* what each path holds
          loader_rest,   \* the rest frequency of the loader's image
          saves,         \* requests that came
          save_ack       \* the last response, with its request and the files before it

saveVars == <<save_image, read_only, files, loader_rest, saves, save_ack>>

At(path) == IF path = "alias" THEN "source" ELSE path
Absent == [is |-> "absent"]
Original == [is |-> "original"]
Expression == [is |-> "expression"]
NotNumber == 0              \* NaN: the rest frequency is not changed
HeaderRest == -1
NoAck == [request |-> [path |-> "none"], before |-> <<>>, success |-> FALSE, confirm |-> FALSE,
          cut |-> TRUE]

SaveFilesTypeOK ==
    /\ save_image \in SavedImages /\ read_only \in ReadOnlyModes
    /\ DOMAIN files = Paths
    /\ \A p \in Paths : files[p].is \in {"absent", "original", "expression", "pixels"}
    /\ loader_rest \in {HeaderRest} \cup {r.rest_freq : r \in SaveRequests}
    /\ saves \in 0..MaxSaves
    /\ save_ack.request \in SaveRequests \cup {NoAck.request}

SaveFilesInit ==
    /\ save_image \in SavedImages /\ read_only \in ReadOnlyModes
    /\ files = [p \in Paths |-> IF p = "new" THEN Absent ELSE Original]
    /\ loader_rest = HeaderRest /\ saves = 0 /\ save_ack = NoAck

-----------------------------------------------------------------------------
Clamp(v, low, high) ==
    LET above == IF v < low THEN low ELSE v IN IF above > high THEN high ELSE above

\* Frame::ValidateChannelStokes.
ValidChannels(req) ==
    IF req.channels = <<>> THEN 0..save_image.channels - 1
    ELSE LET start == Clamp(req.channels[1], 0, save_image.channels - 1)
         IN start..Clamp(req.channels[2], start, save_image.channels - 1)

ValidStokes(req) ==
    IF req.stokes = <<>> THEN 0..save_image.stokes - 1
    ELSE LET start == Clamp(req.stokes[1], 0, save_image.stokes - 1)
             stride == Clamp(req.stokes[3], 1, save_image.stokes - start)
         IN {s \in start..Clamp(req.stokes[2], start, save_image.stokes - 1) : (s - start) % stride = 0}

\* Frame::GetExportImageSlicer; an image without one of the axes has one of it.
Selection(req) ==
    [is |-> "pixels", channels |-> ValidChannels(req), stokes |-> ValidStokes(req),
     region |-> req.region = "inside",
     rest |-> IF req.rest_freq # NotNumber /\ save_image.spectral THEN req.rest_freq ELSE loader_rest]

\* Frame::GetExportRegionSlicer extends the region of the plane over the other
\* axes, with their lengths taken as image_shape[2] and image_shape[3]: those of
\* a cube with polarizations only are out of bounds, and those of a hypercube
\* whose polarizations come before its channels are swapped.
RegionExtends ==
    CASE save_image.axes = "stokes" -> BOOLEAN
      [] save_image.axes = "stokes channels" -> {save_image.channels = save_image.stokes}
      [] OTHER -> {TRUE}

\* Why a path is not written to: a part of the early returns of SaveFile.
Occupied(req) ==
    IF files[At(req.path)] = Absent THEN "free"
    ELSE CASE req.path \in {"source", "special", "directory"} -> "never"
           [] OTHER -> IF req.overwrite THEN "free" ELSE "confirm"

Acknowledge(req, success, confirm, cut) ==
    save_ack' = [request |-> req, before |-> files, success |-> success, confirm |-> confirm, cut |-> cut]

Refuse(req, confirm) ==
    /\ Acknowledge(req, FALSE, confirm, TRUE) /\ UNCHANGED <<files, loader_rest>>

\* The rest frequency is set in the image that is saved: that of the loader when
\* a plane is saved whole.
ChangeRestFrequency(req) ==
    loader_rest' = IF save_image.axes = "plane" /\ req.region = "none"
                   THEN Selection(req).rest ELSE loader_rest

\* ExportCASAImage removes what was there before it reads the pixels; so may the
\* converter to FITS.
Export(req, success) ==
    \/ /\ req.type \in {"CASA", "FITS"} /\ success
       /\ files' = [files EXCEPT ![At(req.path)] = Selection(req)]
    \/ /\ req.type \in {"CASA", "FITS"} /\ ~success
       /\ files' = [files EXCEPT ![At(req.path)] = Absent]
    \/ req.type # "CASA" /\ ~success /\ UNCHANGED files

SaveSelection(req) ==
    \E extends \in IF req.region = "inside" THEN RegionExtends ELSE {TRUE} :
        IF extends
        THEN \E success \in BOOLEAN :
                /\ Export(req, success)
                /\ ChangeRestFrequency(req)
                /\ Acknowledge(req, success, FALSE, FALSE)
        ELSE Refuse(req, FALSE)

\* ExprLoader::SaveFile: a LEL image is saved as an expression if its rest
\* frequency is kept and there is no region; the channels are not looked at.
SaveExpression(req) ==
    /\ save_image.expression /\ req.type = "CASA"
    /\ req.region = "none" /\ req.rest_freq = NotNumber
    /\ files' = [files EXCEPT ![At(req.path)] = Expression]
    /\ Acknowledge(req, TRUE, FALSE, FALSE) /\ UNCHANGED loader_rest

\* Frame::SaveFile.
SaveFile(req) ==
    IF Occupied(req) # "free" THEN Refuse(req, Occupied(req) = "confirm")
    ELSE IF req.region = "outside" THEN Refuse(req, FALSE)
    ELSE SaveExpression(req) \/ SaveSelection(req)

OnSaveFile(req) ==
    /\ saves' = saves + 1
    /\ IF read_only \/ req.region = "unknown" THEN Refuse(req, FALSE) ELSE SaveFile(req)
    /\ UNCHANGED <<save_image, read_only>>

SaveFilesNext == saves < MaxSaves /\ \E req \in SaveRequests : OnSaveFile(req)

SaveFilesSpec == SaveFilesInit /\ [][SaveFilesNext]_saveVars

-----------------------------------------------------------------------------
\* What was asked for, said without clamping: of polarizations, every one in the
\* steps of the stride from the first.
Asked(range, length) == {i \in 0..length - 1 : range = <<>> \/ (range[1] <= i /\ i <= range[2])}
InSteps(s, range) ==
    LET first == IF range[1] < 0 THEN 0 ELSE range[1]
    IN range[3] < 1 \/ (s - first) % range[3] = 0
AskedStokes ==
    LET range == save_ack.request.stokes
    IN {s \in Asked(range, save_image.stokes) : range = <<>> \/ InSteps(s, range)}
OrOne(saved, asked) == IF asked = {} THEN Cardinality(saved) = 1 ELSE saved = asked

\* A saved file holds the channels and polarizations asked for, or one if there
\* are none of them.  Exceptions: an expression has all of them, and the rest
\* frequency that was given for a plane is kept for the next ones.
SavedAsAsked ==
    LET req == save_ack.request
        saved == files[At(req.path)]
    IN save_ack.success =>
          \/ saved = Expression /\ save_image.expression
          \/ /\ saved.is = "pixels"
             /\ OrOne(saved.channels, Asked(req.channels, save_image.channels))
             /\ OrOne(saved.stokes, AskedStokes)
             /\ saved.region = (req.region = "inside")
             /\ \/ req.rest_freq # NotNumber /\ save_image.spectral /\ saved.rest = req.rest_freq
                \/ (req.rest_freq = NotNumber \/ ~save_image.spectral)
                      /\ (saved.rest = HeaderRest \/ save_image.axes = "plane")

\* A request changes the file it names and no other, and what is there only if
\* that may be overwritten; the open image is one only under another name.
FilesKept ==
    LET req == save_ack.request
    IN saves > 0 =>
          /\ \A p \in Paths : files[p] # save_ack.before[p] =>
                /\ p = At(req.path) /\ ~read_only /\ req.region \notin {"unknown", "outside"}
                /\ p \notin {"directory", "special"}
                /\ save_ack.before[p] # Absent => req.overwrite /\ req.path # "source"
          /\ save_ack.confirm => req.path \in {"alias", "image", "file", "new"} /\ ~req.overwrite

\* A region in the image can be saved, except from the images whose axes are
\* mistaken.
RegionsSaved ==
    (saves > 0 /\ save_ack.cut /\ save_ack.request.region = "inside" /\ ~read_only) =>
        \/ save_ack.before[At(save_ack.request.path)] # Absent
        \/ save_image.axes \in {"stokes", "stokes channels"}

SaveFilesCorrect == SavedAsAsked /\ FilesKept /\ RegionsSaved
=============================================================================
